CONSTANTS
  Sweepers = {s1}
  Callers = {c1}
  MaxWork = 2
  MaxUsed = 1
  Keys = {k1}
  Names = {n1}
  Edits = 1
  Lives = 1
  Grace = 1
  Landing = 1
  Late = 2
  MaxFaults = 1
  None = None
SPECIFICATION Spec
INVARIANTS CleanupOK OwnedStay
CHECK_DEADLOCK FALSE
PROPERTIES GarbageDeleted RetirementCompletes
