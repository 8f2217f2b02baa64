SPECIFICATION Spec
CONSTANTS
  Requests <- MCRequests
  Page <- MCPage
  Op <- MCOp
  Size <- MCSize
  MaxFaults = 2
INVARIANTS TypeOK KeptWhole ReadsBeginning ReadsOwnWrites
CHECK_DEADLOCK FALSE
