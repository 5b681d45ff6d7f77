CONSTANTS
  Versions = {v1}
  First = v1
  Syncers = {s1}
  Purgers = {p1}
  Writes = 4
  MaxFaults = 0
  None = None
SPECIFICATION ImportSpec
INVARIANT ClaimedStaysDeleted
CHECK_DEADLOCK FALSE
