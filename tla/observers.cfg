CONSTANTS
  t1 = t1
  t2 = t2
  p1 = p1
  NoTask = NoTask
  Tasks = {t1, t2}
  Unserved = {t2}
  Pool = {p1}
  MaxRetries = 1
  RpcBeforeTimeout = TRUE
SPECIFICATION ObserversSpec
INVARIANTS
  ObserverTypeOK
  MissedOnlyIfRevived
  FinalIsShown
PROPERTIES
  EmptyAnswerRacesStore
  ClientLearnsOutcome
  StatusCountsSettle
  EveryTaskSettles
