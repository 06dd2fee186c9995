CONSTANTS
  w1 = w1
  w2 = w2
  c1 = c1
  c2 = c2
  c3 = c3
  sum = sum
  wait = wait
  Workers = {w1, w2}
  Calls = {c1, c2, c3}
  Types = {sum, wait}
  TypeOf <- ThreeCalls
  Ready = {w2}
  Lists <- SomeLists
  Mortal = {w1, w2}
  Slots = 2
SPECIFICATION Spec
CONSTRAINT Focus
SYMMETRY CallSymmetry
INVARIANTS
  TypeOK
  LoadCountsTasks
  DrainWaitsForRunning
  RoundRobinFair
PROPERTIES
  CallsFollowInterface
