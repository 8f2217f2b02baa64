SPECIFICATION Spec
CONSTANTS
  c1 = c1
  c2 = c2
  r1 = r1
  Conns = {c1, c2}
  Requests = {r1}
  Closers = {r1}
  Statements = {"exec", "insert", "changeVersion"}
  MaxId = 3
  NoOne = NoOne
SYMMETRY MCSymmetry
INVARIANTS TypeOK NoTxLeaked SingleFinisher AckedIffCommitted EndedLeavesNothing
CHECK_DEADLOCK FALSE
