\* Two overlapping ticks, two changes, a rename before them, an unfinished backfill.
SPECIFICATION FairSpec
CONSTANTS
  Nothing = Nothing
  Ticks = {t1, t2}
  MaxDoc = 1
  Changes = {"retitle", "hide", "join"}
  Inherited = FALSE
  MaxEdits = 2
  MaxFaults = 1
INVARIANTS QueueOK
PROPERTIES NeverOlder EventuallyCurrent
