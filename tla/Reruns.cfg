\* Changes while jobs run, fail, die and pass work on.
SPECIFICATION FairSpec
CONSTANTS
  Clients = {a, b}
  MaxChanges = 3
  MaxPasses = 1
  MaxFaults = 1
CHECK_DEADLOCK FALSE
INVARIANTS JobsOK
PROPERTIES ChangesApplied
