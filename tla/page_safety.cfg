SPECIFICATION Spec
CONSTANTS
  c1 = c1
  Conns = {c1}
  MaxTasks = 4
  MaxSql = 3
INVARIANTS TypeOK TasksInOrder NoTaskStranded OneOutcome AnswersMatch
CHECK_DEADLOCK FALSE
