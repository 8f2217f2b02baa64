SPECIFICATION Spec
CONSTANTS
  o1 = o1
  o2 = o2
  Objects = {o1, o2}
  n1 = n1
  Names = {n1}
  Versions = {"1"}
  MaxFiles = 2
  MaxCrashes = 1
SYMMETRY MCSymmetry
INVARIANTS TypeOK OneCreator NoHalfMade OwnDatabase 
PROPERTIES ChangesCompared
CHECK_DEADLOCK FALSE
