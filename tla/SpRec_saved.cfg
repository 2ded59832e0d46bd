\* Calls overlap; fopen may fail, the program may stop anywhere, and the heap may
\* have the mark of the end of the array in it.
SPECIFICATION Spec
CONSTANTS
  ip1 = ip1
  ip2 = ip2
  ip3 = ip3
  mac1 = mac1
  mac2 = mac2
  mac3 = mac3
  t1 = t1
  t2 = t2
  Garbage = Garbage
  Server = Server
  max_SPphones = 2
  MAX_LAST_SEEN = 1
  IPs <- TwoIPs
  MACs <- TwoMACs
  HeapValues <- EndedHeap
  StaleThreads <- OneThread
  Overlap = TRUE
  DiskFaults = TRUE
  CrashPoints = "anytime"
  MaxTime = 2
SYMMETRY Addresses
INVARIANTS TypeOK SavedWhenQuiet
PROPERTIES ImplementsPhoneBook OnlySavesAreFragile
CHECK_DEADLOCK FALSE
