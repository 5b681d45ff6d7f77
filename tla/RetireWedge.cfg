\* A retirement races the first edit of a folder.
SPECIFICATION Spec
CONSTANTS
  c1 = c1
  c2 = c2
  c3 = c3
  c4 = c4
  c5 = c5
  k1 = k1
  k2 = k2
  None = None
  Root = Root
  Procs = {p1, p2}
  Ops = {c1, c2}
  Keys = {k1}
  Temp = {}
  Work <- RetireWork
  Quota = 2
  Seeded = FALSE
  Owned = {}
  MaxFaults = 0
INVARIANTS AdmittedCanFinish
