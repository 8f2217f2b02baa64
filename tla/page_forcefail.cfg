SPECIFICATION Spec
CONSTANTS
  c1 = c1
  Conns = {c1}
  MaxTasks = 2
  MaxSql = 1
INVARIANTS ForceFailOnlyInCreation
CHECK_DEADLOCK FALSE
