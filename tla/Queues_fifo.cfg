\* Two controls, reused after destroy_queue, and a thread in read_queue_data.
SPECIFICATION Spec
CONSTANTS
  d1 = d1
  d2 = d2
  r1 = r1
  Junk = Junk
  MAX_QUEUES = 2
  MaxCreates = 3
  Depths <- MCDepths
  Data <- MCData
  Readers <- MCReaders
INVARIANTS TypeOK RingInv WalkAgreesWithDump
PROPERTIES QueuesAreFifos
\* The program ends when it writes through a NULL control.
CHECK_DEADLOCK FALSE
