CONSTANTS
  Workers = {w1}
  Requests = {1, 2, 3, 4, 5, 6, 7, 8}
  Writes = 2
  Uploads = 0
  MaxFaults = 0
  Events = 4
  None = None
SPECIFICATION Spec
PROPERTY NeverStale
CHECK_DEADLOCK FALSE
