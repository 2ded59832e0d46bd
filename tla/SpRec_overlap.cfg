\* Calls of two threads overlap, with fairness.
SPECIFICATION FairSpec
CONSTANTS
  ip1 = ip1
  ip2 = ip2
  ip3 = ip3
  mac1 = mac1
  mac2 = mac2
  mac3 = mac3
  t1 = t1
  t2 = t2
  Garbage = Garbage
  Server = Server
  max_SPphones = 2
  MAX_LAST_SEEN = 0
  IPs <- TwoIPs
  MACs <- TwoMACs
  HeapValues <- ZeroHeap
  StaleThreads <- OneThread
  Overlap = TRUE
  DiskFaults = FALSE
  CrashPoints = "never"
  MaxTime = 1
INVARIANTS UniqueIdentity
PROPERTIES StalePhonesGo
