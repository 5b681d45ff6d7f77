\* An edition loses a language while a tick publishes it.
SPECIFICATION Spec
CONSTANTS
  Nothing = Nothing
  Ticks = {t1}
  MaxDoc = 1
  Changes = {"drop"}
  Inherited = FALSE
  MaxEdits = 1
  MaxFaults = 0
INVARIANTS StaleIsQueued
