\* An item joins an entity's child while the entity is renamed.
SPECIFICATION Spec
CONSTANTS
  Nothing = Nothing
  Ticks = {t1}
  MaxDoc = 1
  Changes = {"join"}
  Inherited = TRUE
  MaxEdits = 2
  MaxFaults = 0
INVARIANTS StaleIsQueued
