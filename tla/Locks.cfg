\* Two processes lose sessions while three goroutines contend for two keys.
SPECIFICATION FairSpec
CONSTANTS
  n1 = n1
  n2 = n2
  p1 = p1
  p2 = p2
  p3 = p3
  None = None
  Nodes = {n1, n2}
  Procs = {p1, p2, p3}
  NodeOf <- TwoNodes
  Keys = {k1, k2}
  Sessions = {s1, s2, s3}
  MaxFaults = 1
INVARIANTS LocksOK
PROPERTIES ImplementsKeyLock WaitersServed
