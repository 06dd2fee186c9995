CONSTANTS
  w1 = w1
  w2 = w2
  sum = sum
  reverse = reverse
  Workers = {w1, w2}
  TypesOf <- EachOne
  UnhealthyAge = 2
  OfflineAge = 4
  Deregistered = {}
  MaxCalls = 2
  MaxRestarts = 0
SPECIFICATION Spec
INVARIANTS
  HeartbeatsKeepOffered
