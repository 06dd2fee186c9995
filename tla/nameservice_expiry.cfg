CONSTANTS
  w1 = w1
  w2 = w2
  sum = sum
  reverse = reverse
  Workers = {w1, w2}
  TypesOf <- TwoAndOne
  UnhealthyAge = 2
  OfflineAge = 3
  Deregistered = {w1}
  MaxCalls = 2
  MaxRestarts = 1
SPECIFICATION FairSpec
INVARIANTS
  StaleNotOffered
  LostOnlyByRace
PROPERTIES
  SilentWorkersExpire
CONSTRAINT TwoCalls
