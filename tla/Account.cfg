SPECIFICATION FairSpec
CONSTANTS
  None = None
  Runs = {r1, r2}
  Contribs = {c1}
  Events = {e1}
  Passes = 2
  Restores = 1
  MaxFaults = 1
INVARIANTS TypeOK StartChecked ContributionsKept
PROPERTIES PurgeCompletes
