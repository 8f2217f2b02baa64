SPECIFICATION Spec
CONSTANTS
  c1 = c1
  r1 = r1
  Conns = {c1}
  Requests = {r1}
  Closers = {r1}
  NoOne = NoOne
  Carried = {"begin", "commit", "abort", "changeVersion", "exec"}
  MaxId = 3
  MaxTasks = 2
  MaxSql = 1
INVARIANTS SuccessMeansCommitted NoFalseFailure BeginFindsNone
CHECK_DEADLOCK FALSE
