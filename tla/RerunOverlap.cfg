\* A follow-up runs while a new equal job starts.
SPECIFICATION Spec
CONSTANTS
  Clients = {a, b}
  MaxChanges = 3
  MaxPasses = 0
  MaxFaults = 0
CHECK_DEADLOCK FALSE
INVARIANTS NoOverlap
