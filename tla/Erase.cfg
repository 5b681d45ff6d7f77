CONSTANTS
  Versions = {v1, v2}
  First = v1
  Syncers = {s1}
  Purgers = {p1}
  Writes = 4
  MaxFaults = 1
  None = None
SPECIFICATION FairSpec
INVARIANTS TypeOK ClaimedStaysDeleted GoneIsErased
PROPERTIES ErasureStays FencesSettle ClaimedGoes
CHECK_DEADLOCK FALSE
