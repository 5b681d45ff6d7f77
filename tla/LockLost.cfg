\* A run whose source lock ended with its session is overtaken.
CONSTANTS
  Workers = {w1, w2}
  Requests = {1, 2, 3, 4, 5, 6, 7, 8}
  Writes = 3
  Uploads = 1
  MaxFaults = 1
  Events = 3
  None = None
SPECIFICATION Spec
PROPERTY ReadersCatchUp
CHECK_DEADLOCK FALSE
