CONSTANTS
  w1 = w1
  w2 = w2
  sum = sum
  reverse = reverse
  Workers = {w1, w2}
  TypesOf <- EachOne
  UnhealthyAge = 2
  OfflineAge = 3
  Deregistered = {}
  MaxCalls = 3
  MaxRestarts = 1
SPECIFICATION Spec
INVARIANTS
  TypeOK
  StaleNotOffered
  LostOnlyByRace
CONSTRAINT ThreeCalls
SYMMETRY Alike
