\* The worker places upload k1 as k2 while two clients add and remove k1.
SPECIFICATION Spec
CONSTANTS
  c1 = c1
  c2 = c2
  c3 = c3
  c4 = c4
  c5 = c5
  k1 = k1
  k2 = k2
  None = None
  Root = Root
  Procs = {p1, p2}
  Ops = {c1, c2, c3}
  Keys = {k1, k2}
  Temp = {}
  Work <- EditWork
  Quota = 2
  Seeded = TRUE
  Owned = {k1, k2}
  MaxFaults = 1
SYMMETRY Symmetry
INVARIANTS TypeOK OutcomeHonest UsageExact JobOwnsCommit AdmittedCanFinish AckDurable
PROPERTIES LandsOnce Linearizable
