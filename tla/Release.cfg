CONSTANTS
  Workers = {w1}
  Requests = {1, 2, 3, 4, 5, 6, 7, 8}
  Writes = 3
  Uploads = 1
  MaxFaults = 1
  Events = 3
  None = None
SPECIFICATION Spec
INVARIANTS ReleaseOK
PROPERTIES ReadersCatchUp NothingLeft FenceFollows
CHECK_DEADLOCK FALSE
