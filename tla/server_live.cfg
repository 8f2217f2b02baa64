SPECIFICATION FairSpec
CONSTANTS
  c1 = c1
  r1 = r1
  Conns = {c1}
  Requests = {r1}
  Closers = {r1}
  Statements = {"exec", "insert", "changeVersion"}
  MaxId = 3
  NoOne = NoOne
PROPERTIES CloseAllReturns TransactionsEnd CommandsAnswered
CHECK_DEADLOCK FALSE
