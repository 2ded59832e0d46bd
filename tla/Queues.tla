------------------------------- MODULE Queues -------------------------------
(***************************************************************************)
(* queues.c: a static array of queue controls, each a ring over a block of *)
(* memory.  A queue id is the index of its control.  A pointer into the    *)
(* ring is the slot it points at; a datum is one value.                    *)
(*                                                                         *)
(* Every operation but read_queue_data runs inside queue_mutex and is one  *)
(* step.  read_queue_data tests the count and copies the datum with no     *)
(* lock, so it is two steps of the thread that calls it.                   *)
(*                                                                         *)
(* The iasserts of this file only print, so they restrict nothing.  A call *)
(* on a control that is not in use finds the all-zero structure, both      *)
(* before the first create_queue and after destroy_queue.                  *)
(***************************************************************************)
EXTENDS Integers, Sequences, FiniteSets

CONSTANTS
  MAX_QUEUES,       \* number of queue controls
  Depths,           \* values of n_data the callers of create_queue use
  Data,             \* what may be queued
  Junk,             \* what malloc leaves in a slot nobody has written
  Readers,          \* threads that call read_queue_data
  MaxCreates        \* bound: how often create_queue succeeds in a run

ASSUME QueuesAssumption ==
  /\ MAX_QUEUES \in Nat \ {0}
  /\ Depths \subseteq Nat
  /\ MaxCreates \in Nat
  /\ Junk \notin Data

Ctrls == 0 .. MAX_QUEUES - 1

VARIABLES
  queue_ctrls,      \* [Ctrls -> control structure]
  queues_in_use,    \* the module's count of queues
  ret,              \* [Ctrls -> result of the last call on the queue]
  reader,           \* [Readers -> the read_queue_data call in progress]
  crashed           \* has a NULL control been written through?

vars == <<queue_ctrls, queues_in_use, ret, reader, crashed>>

-----------------------------------------------------------------------------
(***************************************************************************)
(* The control structure.  queue_data_end is max_queue_depth, as the slots *)
(* are numbered from 0.                                                    *)
(***************************************************************************)
Slots(n) == 0 .. n - 1

FREE == "FREE"
IN_USE == "IN_USE"

\* The blocks of memory create_queue mallocs.
Blocks == UNION {[Slots(n) -> Data \union {Junk}] : n \in Depths \union {0}}

QUEUE_CTRL ==
  [ in_use          : {FREE, IN_USE},
    queue_data      : Blocks,
    next_in         : Nat,
    next_out        : Nat,
    n_queued        : Nat,
    max_queued      : Nat,
    max_queue_depth : Depths \union {0} ]

\* Mutant: the depth is one more than there are slots.
NewCtrlTooDeep(in_use, n_data) ==
  [ in_use          |-> in_use,
    queue_data      |-> [s \in Slots(n_data) |-> Junk],
    next_in         |-> 0,
    next_out        |-> 0,
    n_queued        |-> 0,
    max_queued      |-> 0,
    max_queue_depth |-> n_data + 1 ]

NewCtrl(in_use, n_data) ==
  [ in_use          |-> in_use,
    queue_data      |-> [s \in Slots(n_data) |-> Junk],
    next_in         |-> 0,
    next_out        |-> 0,
    n_queued        |-> 0,
    max_queued      |-> 0,
    max_queue_depth |-> n_data ]

FreeCtrl == NewCtrl(FREE, 0)

\* Mutant: wraps one slot too late.
AdvanceLate(cptr, s) == IF s + 1 > cptr.max_queue_depth THEN 0 ELSE s + 1

\* The next location after slot s, wrapped at the end of the data.
Advance(cptr, s) ==
  IF s + 1 >= cptr.max_queue_depth THEN 0 ELSE s + 1

\* The control with its pointers and count set, the data left alone.
Repositioned(cptr, next_in, next_out, n_queued) ==
  [ in_use          |-> cptr.in_use,
    queue_data      |-> cptr.queue_data,
    next_in         |-> next_in,
    next_out        |-> next_out,
    n_queued        |-> n_queued,
    max_queued      |-> cptr.max_queued,
    max_queue_depth |-> cptr.max_queue_depth ]

\* The slot that i advances from next_out reach.
SlotAt(cptr, i) ==
  LET s == cptr.next_out + i
  IN  IF s >= cptr.max_queue_depth THEN s - cptr.max_queue_depth ELSE s

\* What dump_queue_data copies out: n_queued data, starting at next_out.
Dump(cptr) ==
  [i \in 1 .. cptr.n_queued |-> cptr.queue_data[SlotAt(cptr, i - 1)]]

Result(ok, data) == [ok |-> ok, data |-> data]

NotReading == [pc |-> "idle", queue |-> 0, data |-> Junk]
Reading == [pc : {"idle", "copy", "done"}, queue : Ctrls, data : Data \union {Junk}]

-----------------------------------------------------------------------------
Init ==
  /\ queue_ctrls = [q \in Ctrls |-> FreeCtrl]
  /\ queues_in_use = 0
  /\ ret = [q \in Ctrls |-> Result(FALSE, <<>>)]
  /\ reader = [t \in Readers |-> NotReading]
  /\ crashed = FALSE

FreeCtrls == {q \in Ctrls : queue_ctrls[q].in_use = FREE}

\* _get_new_queue_ctrl takes the first free control.
IsFirstFree(q) ==
  /\ q \in FreeCtrls
  /\ \A p \in FreeCtrls : q <= p

\* create_queue and create_new_queue.
CreateQueue(n_data) ==
  /\ queues_in_use < MaxCreates
  /\ \E q \in Ctrls :
        /\ IsFirstFree(q)
        /\ queue_ctrls' = [queue_ctrls EXCEPT ![q] = NewCtrl(IN_USE, n_data)]
  /\ queues_in_use' = queues_in_use + 1
  /\ UNCHANGED <<ret, reader, crashed>>

\* With no control free _get_new_queue_ctrl returns NULL, and
\* create_new_queue fills it in.
CreateQueueExhausted ==
  /\ FreeCtrls = {}
  /\ crashed' = TRUE
  /\ UNCHANGED <<queue_ctrls, queues_in_use, ret, reader>>

ClearQueue(q) ==
  /\ queue_ctrls[q].in_use = IN_USE
  /\ queue_ctrls' = [queue_ctrls EXCEPT ![q] = Repositioned(queue_ctrls[q], 0, 0, 0)]
  /\ UNCHANGED <<queues_in_use, ret, reader, crashed>>

\* The control is zeroed; queues_in_use is not counted down.
DestroyQueue(q) ==
  /\ queue_ctrls[q].in_use = IN_USE
  /\ queue_ctrls' = [queue_ctrls EXCEPT ![q] = FreeCtrl]
  /\ UNCHANGED <<queues_in_use, ret, reader, crashed>>

-----------------------------------------------------------------------------
HasRoom(q) == queue_ctrls[q].n_queued < queue_ctrls[q].max_queue_depth
IsEmpty(q) == queue_ctrls[q].n_queued = 0

Returns(q, ok, data) == ret' = [ret EXCEPT ![q] = Result(ok, data)]

Enqueued(cptr, d) ==
  LET n == cptr.n_queued + 1
  IN  [ in_use          |-> cptr.in_use,
        queue_data      |-> [cptr.queue_data EXCEPT ![cptr.next_in] = d],
        next_in         |-> Advance(cptr, cptr.next_in),
        next_out        |-> cptr.next_out,
        n_queued        |-> n,
        max_queued      |-> IF n > cptr.max_queued THEN n ELSE cptr.max_queued,
        max_queue_depth |-> cptr.max_queue_depth ]

EnqueueData(q, d) ==
  /\ HasRoom(q)
  /\ queue_ctrls' = [queue_ctrls EXCEPT ![q] = Enqueued(queue_ctrls[q], d)]
  /\ Returns(q, TRUE, <<>>)
  /\ UNCHANGED <<queues_in_use, reader, crashed>>

EnqueueFull(q) ==
  /\ ~HasRoom(q)
  /\ Returns(q, FALSE, <<>>)
  /\ UNCHANGED <<queue_ctrls, queues_in_use, reader, crashed>>

\* Mutant: next_out stays where it is.
DequeuedInPlace(cptr) ==
  Repositioned(cptr, cptr.next_in, cptr.next_out, cptr.n_queued - 1)

Dequeued(cptr) ==
  Repositioned(cptr, cptr.next_in, Advance(cptr, cptr.next_out), cptr.n_queued - 1)

DequeueData(q) ==
  /\ ~IsEmpty(q)
  /\ queue_ctrls' = [queue_ctrls EXCEPT ![q] = Dequeued(queue_ctrls[q])]
  /\ Returns(q, TRUE, <<queue_ctrls[q].queue_data[queue_ctrls[q].next_out]>>)
  /\ UNCHANGED <<queues_in_use, reader, crashed>>

DequeueEmpty(q) ==
  /\ IsEmpty(q)
  /\ Returns(q, FALSE, <<>>)
  /\ UNCHANGED <<queue_ctrls, queues_in_use, reader, crashed>>

DumpQueueData(q) ==
  /\ Returns(q, ~IsEmpty(q), Dump(queue_ctrls[q]))
  /\ UNCHANGED <<queue_ctrls, queues_in_use, reader, crashed>>

-----------------------------------------------------------------------------
(***************************************************************************)
(* read_queue_data.  The first step is the test of n_queued; the second    *)
(* copies from wherever next_out points by then.  On a control zeroed in   *)
(* between, memcpy copies data_size = 0 bytes, and past the end of an      *)
(* empty block it copies what is there: both leave Junk in the caller's    *)
(* buffer.                                                                 *)
(***************************************************************************)
ReadCheck(t, q) ==
  /\ reader[t].pc = "idle"
  /\ ~IsEmpty(q)
  /\ reader' = [reader EXCEPT ![t] = [pc |-> "copy", queue |-> q, data |-> Junk]]
  /\ UNCHANGED <<queue_ctrls, queues_in_use, ret, crashed>>

ReadCopy(t) ==
  LET cptr == queue_ctrls[reader[t].queue] IN
  /\ reader[t].pc = "copy"
  /\ reader' = [reader EXCEPT
                  ![t].pc = "done",
                  ![t].data = IF cptr.next_out \in DOMAIN cptr.queue_data
                                THEN cptr.queue_data[cptr.next_out] ELSE Junk]
  /\ UNCHANGED <<queue_ctrls, queues_in_use, ret, crashed>>

\* The caller has used what it read.
ReadReturn(t) ==
  /\ reader[t].pc = "done"
  /\ reader' = [reader EXCEPT ![t] = NotReading]
  /\ UNCHANGED <<queue_ctrls, queues_in_use, ret, crashed>>

-----------------------------------------------------------------------------
Next ==
  /\ ~crashed
  /\ \/ \E n_data \in Depths : CreateQueue(n_data)
     \/ CreateQueueExhausted
     \/ \E q \in Ctrls :
          \/ ClearQueue(q)
          \/ DestroyQueue(q)
          \/ \E d \in Data : EnqueueData(q, d)
          \/ EnqueueFull(q)
          \/ DequeueData(q)
          \/ DequeueEmpty(q)
          \/ DumpQueueData(q)
          \/ \E t \in Readers : ReadCheck(t, q)
     \/ \E t \in Readers : ReadCopy(t) \/ ReadReturn(t)

Spec == Init /\ [][Next]_vars

-----------------------------------------------------------------------------
(***************************************************************************)
(* walk_queue, called first with NULL and then with each pointer it gave,  *)
(* until it returns NULL (-1).  Visited is the sequence of slots a caller  *)
(* who runs the walk with the queue at rest sees.                          *)
(***************************************************************************)
NULL == -1

\* Mutant: takes a queue whose pointers meet for an empty one.
WalkQueueByPointers(cptr, data) ==
  IF data = NULL
    THEN IF cptr.next_in = cptr.next_out THEN NULL ELSE cptr.next_out
    ELSE LET s == Advance(cptr, data) IN IF s = cptr.next_in THEN NULL ELSE s

WalkQueue(cptr, data) ==
  IF data = NULL
    THEN IF cptr.n_queued = 0 THEN NULL ELSE cptr.next_out
    ELSE LET s == Advance(cptr, data) IN IF s = cptr.next_in THEN NULL ELSE s

\* No walk is longer than the number of slots: more steps would be a loop.
Visited(cptr) ==
  LET walk[n \in 0 .. cptr.max_queue_depth + 1] ==
        IF n = 0 THEN <<WalkQueue(cptr, NULL)>>
        ELSE LET sofar == walk[n - 1]
                 last == sofar[Len(sofar)]
             IN  IF last = NULL THEN sofar
                 ELSE Append(sofar, WalkQueue(cptr, last))
  IN  walk[cptr.max_queue_depth + 1]

-----------------------------------------------------------------------------
(* Types.                                                                  *)

\* The shape of the controls, the results and the calls in progress.
TypeOK ==
  /\ queue_ctrls \in [Ctrls -> QUEUE_CTRL]
  /\ \A q \in Ctrls :
       DOMAIN queue_ctrls[q].queue_data = Slots(queue_ctrls[q].max_queue_depth)
  /\ queues_in_use \in Nat
  /\ ret \in [Ctrls -> [ok : BOOLEAN, data : Seq(Data)]]
  /\ reader \in [Readers -> Reading]
  /\ crashed \in BOOLEAN

-----------------------------------------------------------------------------
(* The ring.                                                               *)

\* next_in is n_queued slots past next_out, round the end of the data, and
\* the count never passes the depth: with a pointer or the count off by one
\* the ring would overwrite a datum that is still queued.
RingConsistent(cptr) ==
  /\ cptr.n_queued <= cptr.max_queued
  /\ cptr.max_queued <= cptr.max_queue_depth
  /\ cptr.next_out = 0 \/ cptr.next_out < cptr.max_queue_depth
  /\ cptr.next_in = SlotAt(cptr, cptr.n_queued)

\* No slot that counts as queued still holds what malloc left there.
QueuedIsWritten(cptr) ==
  \A i \in 0 .. cptr.n_queued - 1 :
    cptr.queue_data[SlotAt(cptr, i)] \in Data

\* A control that is not in use is all zero, so a stale id can do no more
\* than be refused.
FreeIsZero(cptr) == cptr.in_use = FREE => cptr = FreeCtrl

\* enqueue_data, dequeue_data, clear_queue and destroy_queue keep every ring
\* consistent, whatever the order of the calls, and a datum is written
\* before it counts as queued.
RingInv ==
  \A q \in Ctrls :
    /\ RingConsistent(queue_ctrls[q])
    /\ QueuedIsWritten(queue_ctrls[q])
    /\ FreeIsZero(queue_ctrls[q])

\* A walk of a queue at rest visits what a dump copies, in the same order,
\* and then ends: also when the queue is full, where next_in = next_out.
WalkAgreesWithDump ==
  \A q \in Ctrls :
    LET cptr == queue_ctrls[q]
        n == cptr.n_queued
    IN  /\ Len(Visited(cptr)) = n + 1
        /\ Visited(cptr)[n + 1] = NULL
        /\ \A i \in 1 .. n : cptr.queue_data[Visited(cptr)[i]] = Dump(cptr)[i]

(***************************************************************************)
(* Each queue implements the bounded FIFO of BoundedFifo.                  *)
(***************************************************************************)
Fifo(q) == INSTANCE BoundedFifo WITH
  open     <- queue_ctrls[q].in_use = IN_USE,
  capacity <- queue_ctrls[q].max_queue_depth,
  items    <- Dump(queue_ctrls[q]),
  peak     <- queue_ctrls[q].max_queued,
  ret      <- ret[q]

\* Whatever the threads do, each queue hands out what was put into it, once
\* and in order, refuses only when full or empty, and reports its true depth
\* and peak.  (This is \A q \in Ctrls : Fifo(q)!Spec, in a form TLC takes.)
QueuesAreFifos ==
  /\ \A q \in Ctrls : Fifo(q)!Init
  /\ [][\A q \in Ctrls : [Fifo(q)!Next]_(Fifo(q)!vars)]_vars

-----------------------------------------------------------------------------
(* What the file says of itself and does not do.                           *)

\* read_queue_data: "Get next queue data from queue without dequeuing it.
\* Returns: TRUE if data enqueued, FALSE if queue is empty" (queues.c:312):
\* of a queue that still exists it hands out data somebody put there.
ReadsQueuedData ==
  \A t \in Readers :
    reader[t].pc = "done" /\ queue_ctrls[reader[t].queue].in_use = IN_USE
      => reader[t].data \in Data
=============================================================================
