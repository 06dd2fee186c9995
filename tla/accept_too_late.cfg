CONSTANTS
  t1 = t1
  t2 = t2
  p1 = p1
  p2 = p2
  NoTask = NoTask
  Tasks = {t1}
  Unserved = {}
  Pool = {p1, p2}
  MaxRetries = 2
  RpcBeforeTimeout = TRUE
SPECIFICATION Spec
INVARIANTS
  AcceptStartsProcessing
