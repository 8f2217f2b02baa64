SPECIFICATION FairSpec
CONSTANTS
  c1 = c1
  r1 = r1
  Conns = {c1}
  Requests = {r1}
  Closers = {}
  NoOne = NoOne
  Carried = {"begin", "commit", "abort", "changeVersion", "exec"}
  MaxId = 2
  MaxTasks = 2
  MaxSql = 1
PROPERTIES TasksFinish PageRespected
CHECK_DEADLOCK FALSE
