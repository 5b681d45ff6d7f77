\* A new folder: allocate, commit, expire, drop one key; retire the item.
SPECIFICATION Spec
CONSTANTS
  c1 = c1
  c2 = c2
  c3 = c3
  c4 = c4
  c5 = c5
  k1 = k1
  k2 = k2
  None = None
  Root = Root
  Procs = {p1, p2}
  Ops = {c1, c2, c3, c4, c5}
  Keys = {k1}
  Temp = {k1}
  Work <- KeyWork
  Quota = 2
  Seeded = FALSE
  Owned = {}
  MaxFaults = 1
SYMMETRY Symmetry
INVARIANTS RefsOwned
