--------------------------- MODULE Queues_proofs ---------------------------
(***************************************************************************)
(* Theorems about Queues.tla, for every number of controls, every set of   *)
(* depths and data and every set of reading threads.                       *)
(*                                                                         *)
(* The inductive invariant is one predicate, CtrlInv, on each control by   *)
(* itself: an operation touches one control only, so each lemma below is   *)
(* about the value of one control before and after one operation.          *)
(*                                                                         *)
(* WalkCorrect is about a recursive function. It is solved by a closed     *)
(* form, Stops, the slots from next_out on; the least place where another  *)
(* solution would differ shows that there is none.                         *)
(***************************************************************************)
EXTENDS Queues, SequenceTheorems, TLAPS, WellFoundedInduction

CtrlInv(cptr) ==
  /\ cptr \in QUEUE_CTRL
  /\ DOMAIN cptr.queue_data = Slots(cptr.max_queue_depth)
  /\ RingConsistent(cptr)
  /\ QueuedIsWritten(cptr)
  /\ FreeIsZero(cptr)

IInv == TypeOK /\ \A q \in Ctrls : CtrlInv(queue_ctrls[q])

-----------------------------------------------------------------------------
\* A new control, and a zeroed one, is a consistent empty ring.
LEMMA NewCtrlInv ==
  /\ CtrlInv(FreeCtrl)
  /\ \A n \in Depths : CtrlInv(NewCtrl(IN_USE, n))
<1>1. ASSUME NEW n \in Depths \union {0}, NEW b \in {FREE, IN_USE}, b = IN_USE \/ n = 0
      PROVE  CtrlInv(NewCtrl(b, n))
  <2> DEFINE c == NewCtrl(b, n)
  <2>1. n \in Nat
    BY QueuesAssumption
  <2>2. c.queue_data \in [Slots(n) -> Data \union {Junk}]
    BY DEF NewCtrl
  <2>3. c \in QUEUE_CTRL
    BY <2>1, <2>2 DEF NewCtrl, QUEUE_CTRL, Blocks
  <2>4. DOMAIN c.queue_data = Slots(c.max_queue_depth)
    BY <2>2 DEF NewCtrl
  <2>5. RingConsistent(c) /\ QueuedIsWritten(c)
    BY <2>1 DEF NewCtrl, RingConsistent, QueuedIsWritten, SlotAt
  <2>6. FreeIsZero(c)
    BY <1>1 DEF NewCtrl, FreeIsZero, FreeCtrl, FREE, IN_USE
  <2>7. QED
    BY <2>3, <2>4, <2>5, <2>6 DEF CtrlInv
<1>2. QED
  BY <1>1 DEF FreeCtrl

\* What CtrlInv says of the fields, in the form the arithmetic below needs.
LEMMA CtrlFields ==
  ASSUME NEW c, CtrlInv(c)
  PROVE  /\ c.max_queue_depth \in Nat
         /\ c.max_queue_depth \in Depths \union {0}
         /\ c.next_in \in Nat
         /\ c.next_out \in Nat
         /\ c.n_queued \in Nat
         /\ c.max_queued \in Nat
         /\ c.in_use \in {FREE, IN_USE}
         /\ c.queue_data \in [Slots(c.max_queue_depth) -> Data \union {Junk}]
<1>1. c \in QUEUE_CTRL
  BY DEF CtrlInv
<1>2. PICK n \in Depths \union {0} : c.queue_data \in [Slots(n) -> Data \union {Junk}]
  BY <1>1 DEF QUEUE_CTRL, Blocks
<1>3. DOMAIN c.queue_data = Slots(c.max_queue_depth)
  BY DEF CtrlInv
<1>4. c.queue_data \in [Slots(c.max_queue_depth) -> Data \union {Junk}]
  BY <1>2, <1>3
<1>5. c.max_queue_depth \in Depths \union {0}
  BY <1>1 DEF QUEUE_CTRL
<1>6. c.max_queue_depth \in Nat
  <2>1. CASE c.max_queue_depth \in Depths
    BY <2>1, QueuesAssumption
  <2>2. CASE c.max_queue_depth = 0
    BY <2>2
  <2>3. QED
    BY <1>5, <2>1, <2>2
<1>7. c.in_use \in {FREE, IN_USE}
  BY <1>1 DEF QUEUE_CTRL
<1>8. /\ c.next_in \in Nat /\ c.next_out \in Nat
      /\ c.n_queued \in Nat /\ c.max_queued \in Nat
  BY <1>1 DEF QUEUE_CTRL
<1>9. QED
  BY <1>4, <1>5, <1>6, <1>7, <1>8

\* The slots of the queued data and of the next free one are slots of the ring.
LEMMA SlotInRing ==
  ASSUME NEW c, CtrlInv(c), NEW i \in Nat, i < c.max_queue_depth
  PROVE  SlotAt(c, i) \in Slots(c.max_queue_depth)
BY CtrlFields DEF CtrlInv, RingConsistent, SlotAt, Slots

\* What is queued is a sequence of data.
LEMMA DumpIsData ==
  ASSUME NEW c, CtrlInv(c)
  PROVE  /\ Dump(c) \in Seq(Data)
         /\ Len(Dump(c)) = c.n_queued
         /\ \A i \in 1 .. c.n_queued : Dump(c)[i] = c.queue_data[SlotAt(c, i - 1)]
<1>1. c.n_queued \in Nat
  BY CtrlFields
<1>2. \A i \in 1 .. c.n_queued : c.queue_data[SlotAt(c, i - 1)] \in Data
  BY <1>1 DEF CtrlInv, QueuedIsWritten
<1>3. QED
  BY <1>1, <1>2 DEF Dump

-----------------------------------------------------------------------------
\* enqueue_data with room keeps the ring and appends the datum.
LEMMA EnqueuedInv ==
  ASSUME NEW c, CtrlInv(c), NEW d \in Data, c.n_queued < c.max_queue_depth
  PROVE  /\ CtrlInv(Enqueued(c, d))
         /\ Dump(Enqueued(c, d)) = Append(Dump(c), d)
<1> DEFINE e == Enqueued(c, d)
           n == c.max_queue_depth
<1>1. /\ n \in Nat /\ n \in Depths \union {0}
      /\ c.next_in \in Nat /\ c.next_out \in Nat
      /\ c.n_queued \in Nat /\ c.max_queued \in Nat
      /\ c.in_use \in {FREE, IN_USE}
      /\ c.queue_data \in [Slots(n) -> Data \union {Junk}]
  BY CtrlFields
<1>2. RingConsistent(c) /\ QueuedIsWritten(c) /\ FreeIsZero(c)
  BY DEF CtrlInv
<1>3. c.next_in = SlotAt(c, c.n_queued) /\ c.next_in \in Slots(n)
  BY <1>1, <1>2, SlotInRing DEF RingConsistent
<1>5. /\ e.in_use = c.in_use
      /\ e.queue_data = [c.queue_data EXCEPT ![c.next_in] = d]
      /\ e.next_in = Advance(c, c.next_in)
      /\ e.next_out = c.next_out
      /\ e.n_queued = c.n_queued + 1
      /\ e.max_queued = IF c.n_queued + 1 > c.max_queued THEN c.n_queued + 1
                                                         ELSE c.max_queued
      /\ e.max_queue_depth = n
  BY DEF Enqueued
<1>6. e.queue_data \in [Slots(n) -> Data \union {Junk}]
  BY <1>1, <1>5
<1>7. e \in QUEUE_CTRL
  <2>2. e.next_in \in Nat /\ e.n_queued \in Nat /\ e.max_queued \in Nat
    BY <1>1, <1>5 DEF Advance
  <2>3. e.queue_data \in Blocks
    BY <1>1, <1>6 DEF Blocks
  <2>4. QED
    BY <2>2, <2>3, <1>1, <1>5 DEF QUEUE_CTRL, Enqueued
<1>8. \A i \in Nat : SlotAt(e, i) = SlotAt(c, i)
  BY <1>5 DEF SlotAt
<1>9. \A i \in 0 .. c.n_queued - 1 : SlotAt(c, i) # c.next_in
  BY <1>1, <1>2, <1>3 DEF SlotAt, RingConsistent
<1>10. \A i \in 0 .. c.n_queued - 1 : e.queue_data[SlotAt(e, i)] = c.queue_data[SlotAt(c, i)]
  BY <1>1, <1>5, <1>8, <1>9, SlotInRing
<1>11. e.queue_data[SlotAt(e, c.n_queued)] = d
  BY <1>1, <1>3, <1>5, <1>8
<1>12. RingConsistent(e)
  BY <1>1, <1>2, <1>5 DEF RingConsistent, SlotAt, Advance
<1>13. QueuedIsWritten(e)
  BY <1>1, <1>2, <1>5, <1>10, <1>11 DEF QueuedIsWritten
<1>14. FreeIsZero(e)
  BY <1>2, <1>1, <1>5 DEF FreeIsZero, FreeCtrl, NewCtrl
<1>15. CtrlInv(e)
  BY <1>1, <1>5, <1>6, <1>7, <1>12, <1>13, <1>14 DEF CtrlInv
<1>16. Dump(e) = Append(Dump(c), d)
  <2>1. /\ Dump(c) \in Seq(Data)
        /\ Len(Dump(c)) = c.n_queued
        /\ \A i \in 1 .. c.n_queued : Dump(c)[i] = c.queue_data[SlotAt(c, i - 1)]
    BY DumpIsData
  <2>2. /\ Dump(e) \in Seq(Data)
        /\ Len(Dump(e)) = c.n_queued + 1
        /\ \A i \in 1 .. c.n_queued + 1 : Dump(e)[i] = e.queue_data[SlotAt(e, i - 1)]
    BY <1>5, <1>15, DumpIsData
  <2>3. ASSUME NEW i \in 1 .. c.n_queued PROVE Dump(e)[i] = Dump(c)[i]
    <3>1. i - 1 \in 0 .. c.n_queued - 1 /\ i \in 1 .. c.n_queued + 1
      BY <1>1
    <3>2. QED
      BY <3>1, <2>1, <2>2, <1>10
  <2>4. Dump(e)[c.n_queued + 1] = d
    BY <2>2, <1>1, <1>11
  <2>5. /\ Append(Dump(c), d) \in Seq(Data)
        /\ Len(Append(Dump(c), d)) = c.n_queued + 1
        /\ \A i \in 1 .. c.n_queued : Append(Dump(c), d)[i] = Dump(c)[i]
        /\ Append(Dump(c), d)[c.n_queued + 1] = d
    BY <2>1, <1>1, AppendProperties
  <2>6. \A i \in 1 .. c.n_queued + 1 : Dump(e)[i] = Append(Dump(c), d)[i]
    BY <2>3, <2>4, <2>5, <1>1
  <2>7. QED
    BY <2>2, <2>5, <2>6, SeqEqual
<1>17. QED
  BY <1>15, <1>16

\* dequeue_data from a queue that is not empty keeps the ring, hands out the
\* oldest datum and takes it off.
LEMMA DequeuedInv ==
  ASSUME NEW c, CtrlInv(c), c.n_queued # 0
  PROVE  /\ CtrlInv(Dequeued(c))
         /\ Dump(c) # <<>>
         /\ c.queue_data[c.next_out] = Head(Dump(c))
         /\ Dump(Dequeued(c)) = Tail(Dump(c))
<1> DEFINE e == Dequeued(c)
           n == c.max_queue_depth
           k == c.n_queued
<1>1. /\ n \in Nat /\ n \in Depths \union {0}
      /\ c.next_in \in Nat /\ c.next_out \in Nat
      /\ c.n_queued \in Nat /\ c.max_queued \in Nat
      /\ c.in_use \in {FREE, IN_USE}
      /\ c.queue_data \in [Slots(n) -> Data \union {Junk}]
  BY CtrlFields
<1>2. RingConsistent(c) /\ QueuedIsWritten(c) /\ FreeIsZero(c)
  BY DEF CtrlInv
<1>3. /\ e.in_use = c.in_use
      /\ e.queue_data = c.queue_data
      /\ e.next_in = c.next_in
      /\ e.next_out = Advance(c, c.next_out)
      /\ e.n_queued = k - 1
      /\ e.max_queued = c.max_queued
      /\ e.max_queue_depth = n
  BY DEF Dequeued, Repositioned
<1>4. e \in QUEUE_CTRL
  <2>1. e.next_out \in Nat /\ e.n_queued \in Nat
    BY <1>1, <1>3 DEF Advance
  <2>2. e.queue_data \in Blocks
    BY <1>1, <1>3 DEF Blocks
  <2>3. QED
    BY <2>1, <2>2, <1>1, <1>3 DEF QUEUE_CTRL, Dequeued, Repositioned
<1>5. ASSUME NEW i \in 0 .. k - 2
      PROVE  SlotAt(e, i) = SlotAt(c, i + 1)
  BY <1>1, <1>2, <1>3 DEF SlotAt, Advance, RingConsistent
<1>6. RingConsistent(e)
  BY <1>1, <1>2, <1>3 DEF RingConsistent, SlotAt, Advance
<1>7. QueuedIsWritten(e)
  <2>1. SUFFICES ASSUME NEW i \in 0 .. k - 2
                 PROVE  e.queue_data[SlotAt(e, i)] \in Data
    BY <1>1, <1>3 DEF QueuedIsWritten
  <2>2. i + 1 \in 0 .. k - 1
    BY <1>1
  <2>3. QED
    BY <2>2, <1>2, <1>3, <1>5 DEF QueuedIsWritten
<1>8. FreeIsZero(e)
  BY <1>2, <1>3 DEF FreeIsZero, FreeCtrl, NewCtrl
<1>9. CtrlInv(e)
  BY <1>1, <1>3, <1>4, <1>6, <1>7, <1>8 DEF CtrlInv
<1>10. /\ Dump(c) \in Seq(Data)
       /\ Len(Dump(c)) = k
       /\ \A i \in 1 .. k : Dump(c)[i] = c.queue_data[SlotAt(c, i - 1)]
  BY DumpIsData
<1>11. /\ Dump(e) \in Seq(Data)
       /\ Len(Dump(e)) = k - 1
       /\ \A i \in 1 .. k - 1 : Dump(e)[i] = c.queue_data[SlotAt(e, i - 1)]
  BY <1>3, <1>9, DumpIsData
<1>12. Dump(c) # <<>>
  BY <1>1, <1>10, EmptySeq
<1>13. c.queue_data[c.next_out] = Head(Dump(c))
  <2>1. SlotAt(c, 0) = c.next_out
    BY <1>1, <1>2 DEF SlotAt, RingConsistent
  <2>2. Dump(c)[1] = c.queue_data[c.next_out]
    BY <2>1, <1>1, <1>10
  <2>3. QED
    BY <2>2, <1>10, <1>12
<1>14. Dump(e) = Tail(Dump(c))
  <2>1. /\ Tail(Dump(c)) \in Seq(Data)
        /\ Len(Tail(Dump(c))) = k - 1
        /\ \A i \in 1 .. k - 1 : Tail(Dump(c))[i] = Dump(c)[i + 1]
    BY <1>10, <1>12, HeadTailProperties
  <2>2. ASSUME NEW i \in 1 .. k - 1 PROVE Dump(e)[i] = Tail(Dump(c))[i]
    <3>1. i - 1 \in 0 .. k - 2 /\ i + 1 \in 1 .. k
      BY <1>1
    <3>2. SlotAt(e, i - 1) = SlotAt(c, i)
      BY <3>1, <1>1, <1>5
    <3>3. Dump(c)[i + 1] = c.queue_data[SlotAt(c, i)]
      BY <3>1, <1>10
    <3>4. QED
      BY <3>2, <3>3, <2>1, <1>11
  <2>3. QED
    BY <2>1, <2>2, <1>11, SeqEqual
<1>15. QED
  BY <1>9, <1>12, <1>13, <1>14

\* clear_queue keeps the ring and leaves nothing queued.
LEMMA ClearedInv ==
  ASSUME NEW c, CtrlInv(c), c.in_use = IN_USE
  PROVE  /\ CtrlInv(Repositioned(c, 0, 0, 0))
         /\ Dump(Repositioned(c, 0, 0, 0)) = <<>>
<1> DEFINE e == Repositioned(c, 0, 0, 0)
           n == c.max_queue_depth
<1>1. /\ n \in Nat /\ n \in Depths \union {0}
      /\ c.n_queued \in Nat /\ c.max_queued \in Nat
      /\ c.queue_data \in [Slots(n) -> Data \union {Junk}]
  BY CtrlFields
<1>2. RingConsistent(c)
  BY DEF CtrlInv
<1>3. /\ e.in_use = IN_USE
      /\ e.queue_data = c.queue_data
      /\ e.next_in = 0
      /\ e.next_out = 0
      /\ e.n_queued = 0
      /\ e.max_queued = c.max_queued
      /\ e.max_queue_depth = n
  BY DEF Repositioned
<1>4. e \in QUEUE_CTRL
  <2>1. e.queue_data \in Blocks
    BY <1>1, <1>3 DEF Blocks
  <2>2. QED
    BY <2>1, <1>1, <1>3 DEF QUEUE_CTRL, Repositioned
<1>5. RingConsistent(e) /\ QueuedIsWritten(e)
  <2>1. 0 <= c.max_queued /\ c.max_queued <= n
    BY <1>1, <1>2 DEF RingConsistent
  <2>2. SlotAt(e, 0) = 0
    BY <1>1, <1>3 DEF SlotAt
  <2>3. RingConsistent(e)
    BY <2>1, <2>2, <1>3 DEF RingConsistent
  <2>4. QueuedIsWritten(e)
    BY <1>3 DEF QueuedIsWritten
  <2>5. QED
    BY <2>3, <2>4
<1>6. FreeIsZero(e)
  BY <1>3 DEF FreeIsZero, FREE, IN_USE
<1>7. CtrlInv(e)
  BY <1>1, <1>3, <1>4, <1>5, <1>6 DEF CtrlInv
<1>8. Dump(e) = <<>>
  <2>1. Dump(e) \in Seq(Data) /\ Len(Dump(e)) = 0
    BY <1>3, <1>7, DumpIsData
  <2>2. QED
    BY <2>1, EmptySeq
<1>9. QED
  BY <1>7, <1>8

-----------------------------------------------------------------------------
\* The initial state satisfies the invariant.
LEMMA InitIInv == Init => IInv
<1> SUFFICES ASSUME Init PROVE IInv
  OBVIOUS
<1>1. \A q \in Ctrls : CtrlInv(queue_ctrls[q])
  BY NewCtrlInv DEF Init
<1>2. queue_ctrls \in [Ctrls -> QUEUE_CTRL]
  BY NewCtrlInv DEF Init, CtrlInv
<1>3. ret \in [Ctrls -> [ok : BOOLEAN, data : Seq(Data)]]
  BY EmptySeq DEF Init, Result
<1>4. reader \in [Readers -> Reading]
  <2>1. 0 \in Ctrls
    BY QueuesAssumption DEF Ctrls
  <2>2. NotReading \in Reading
    BY <2>1 DEF NotReading, Reading
  <2>3. QED
    BY <2>2 DEF Init
<1>5. QED
  BY <1>1, <1>2, <1>3, <1>4 DEF IInv, TypeOK, CtrlInv, Init

\* A step that replaces one control by one that satisfies CtrlInv keeps the
\* part of the invariant that is about the controls.
LEMMA ReplaceCtrl ==
  ASSUME IInv, NEW q \in Ctrls, NEW c, CtrlInv(c),
         queue_ctrls' = [queue_ctrls EXCEPT ![q] = c]
  PROVE  /\ queue_ctrls' \in [Ctrls -> QUEUE_CTRL]
         /\ \A p \in Ctrls : CtrlInv(queue_ctrls'[p])
BY DEF IInv, TypeOK, CtrlInv

\* The result a call returns is of the type all results have.
LEMMA ReturnsType ==
  ASSUME IInv, NEW q \in Ctrls, NEW ok \in BOOLEAN, NEW data \in Seq(Data),
         Returns(q, ok, data)
  PROVE  ret' \in [Ctrls -> [ok : BOOLEAN, data : Seq(Data)]]
BY DEF IInv, TypeOK, Returns, Result

\* Every step of every thread keeps the invariant.
LEMMA NextIInv == IInv /\ [Next]_vars => IInv'
<1> SUFFICES ASSUME IInv, [Next]_vars PROVE IInv'
  OBVIOUS
<1> DEFINE CtrlsOK == /\ queue_ctrls' \in [Ctrls -> QUEUE_CTRL]
                      /\ \A p \in Ctrls : CtrlInv(queue_ctrls'[p])
           RetOK == ret' \in [Ctrls -> [ok : BOOLEAN, data : Seq(Data)]]
           ReaderOK == reader' \in [Readers -> Reading]
<1>0. ASSUME CtrlsOK, RetOK, ReaderOK, queues_in_use' \in Nat, crashed' \in BOOLEAN
      PROVE  IInv'
  BY <1>0 DEF IInv, TypeOK, CtrlInv
<1>1. ASSUME UNCHANGED queue_ctrls PROVE CtrlsOK
  BY <1>1 DEF IInv, TypeOK
<1>2. ASSUME UNCHANGED ret PROVE RetOK
  BY <1>2 DEF IInv, TypeOK
<1>3. ASSUME UNCHANGED reader PROVE ReaderOK
  BY <1>3 DEF IInv, TypeOK
<1>4. queues_in_use \in Nat /\ crashed \in BOOLEAN /\ <<>> \in Seq(Data)
  BY EmptySeq DEF IInv, TypeOK
<1>5. \A q \in Ctrls : CtrlInv(queue_ctrls[q])
  BY DEF IInv
<1>6. ASSUME NEW n_data \in Depths, CreateQueue(n_data) PROVE IInv'
  <2>1. PICK q \in Ctrls : queue_ctrls' = [queue_ctrls EXCEPT ![q] = NewCtrl(IN_USE, n_data)]
    BY <1>6 DEF CreateQueue
  <2>2. CtrlsOK
    BY <2>1, NewCtrlInv, ReplaceCtrl
  <2>3. QED
    BY <1>6, <2>2, <1>0, <1>2, <1>3, <1>4 DEF CreateQueue
<1>7. CASE CreateQueueExhausted
  BY <1>7, <1>0, <1>1, <1>2, <1>3, <1>4 DEF CreateQueueExhausted
<1>8. ASSUME NEW q \in Ctrls, ClearQueue(q) PROVE IInv'
  <2>1. CtrlsOK
    BY <1>8, <1>5, ClearedInv, ReplaceCtrl DEF ClearQueue
  <2>2. QED
    BY <1>8, <2>1, <1>0, <1>2, <1>3, <1>4 DEF ClearQueue
<1>9. ASSUME NEW q \in Ctrls, DestroyQueue(q) PROVE IInv'
  <2>1. CtrlsOK
    BY <1>9, NewCtrlInv, ReplaceCtrl DEF DestroyQueue
  <2>2. QED
    BY <1>9, <2>1, <1>0, <1>2, <1>3, <1>4 DEF DestroyQueue
<1>10. ASSUME NEW q \in Ctrls, NEW d \in Data, EnqueueData(q, d) PROVE IInv'
  <2>1. CtrlInv(Enqueued(queue_ctrls[q], d))
    BY <1>10, <1>5, EnqueuedInv DEF EnqueueData, HasRoom
  <2>2. CtrlsOK
    BY <1>10, <2>1, ReplaceCtrl DEF EnqueueData
  <2>3. RetOK
    BY <1>10, <1>4, ReturnsType DEF EnqueueData
  <2>4. QED
    BY <1>10, <2>2, <2>3, <1>0, <1>3, <1>4 DEF EnqueueData
<1>11. ASSUME NEW q \in Ctrls, EnqueueFull(q) PROVE IInv'
  <2>1. RetOK
    BY <1>11, <1>4, ReturnsType DEF EnqueueFull
  <2>2. QED
    BY <1>11, <2>1, <1>0, <1>1, <1>3, <1>4 DEF EnqueueFull
<1>12. ASSUME NEW q \in Ctrls, DequeueData(q) PROVE IInv'
  <2> DEFINE c == queue_ctrls[q]
  <2>1. /\ CtrlInv(Dequeued(c))
        /\ Dump(c) # <<>>
        /\ c.queue_data[c.next_out] = Head(Dump(c))
    BY <1>12, <1>5, DequeuedInv DEF DequeueData, IsEmpty
  <2>2. CtrlsOK
    BY <1>12, <2>1, ReplaceCtrl DEF DequeueData
  <2>3. c.queue_data[c.next_out] \in Data
    BY <2>1, <1>5, DumpIsData, HeadTailProperties
  <2>4. <<c.queue_data[c.next_out]>> \in Seq(Data)
    BY <2>3
  <2>5. RetOK
    BY <1>12, <2>4, ReturnsType DEF DequeueData
  <2>6. QED
    BY <1>12, <2>2, <2>5, <1>0, <1>3, <1>4 DEF DequeueData
<1>13. ASSUME NEW q \in Ctrls, DequeueEmpty(q) PROVE IInv'
  <2>1. RetOK
    BY <1>13, <1>4, ReturnsType DEF DequeueEmpty
  <2>2. QED
    BY <1>13, <2>1, <1>0, <1>1, <1>3, <1>4 DEF DequeueEmpty
<1>14. ASSUME NEW q \in Ctrls, DumpQueueData(q) PROVE IInv'
  <2>1. Dump(queue_ctrls[q]) \in Seq(Data)
    BY <1>5, DumpIsData
  <2>2. RetOK
    BY <1>14, <2>1, ReturnsType DEF DumpQueueData
  <2>3. QED
    BY <1>14, <2>2, <1>0, <1>1, <1>3, <1>4 DEF DumpQueueData
<1>15. ASSUME NEW t \in Readers, NEW q \in Ctrls, ReadCheck(t, q) PROVE IInv'
  <2>1. ReaderOK
    BY <1>15 DEF ReadCheck, Reading, IInv, TypeOK
  <2>2. QED
    BY <1>15, <2>1, <1>0, <1>1, <1>2, <1>4 DEF ReadCheck
<1>16. ASSUME NEW t \in Readers, ReadCopy(t) PROVE IInv'
  <2> DEFINE c == queue_ctrls[reader[t].queue]
             d == IF c.next_out \in DOMAIN c.queue_data
                    THEN c.queue_data[c.next_out] ELSE Junk
  <2>1. reader[t] \in Reading /\ reader[t].queue \in Ctrls
    BY DEF IInv, TypeOK, Reading
  <2>2. d \in Data \union {Junk}
    BY <2>1, <1>5, CtrlFields
  <2>3. [reader[t] EXCEPT !.pc = "done", !.data = d] \in Reading
    BY <2>1, <2>2 DEF Reading
  <2>4. reader' = [reader EXCEPT ![t] = [reader[t] EXCEPT !.pc = "done", !.data = d]]
    BY <1>16 DEF ReadCopy, IInv, TypeOK
  <2>5. ReaderOK
    BY <2>3, <2>4 DEF IInv, TypeOK
  <2>6. QED
    BY <1>16, <2>5, <1>0, <1>1, <1>2, <1>4 DEF ReadCopy
<1>17. ASSUME NEW t \in Readers, ReadReturn(t) PROVE IInv'
  <2>1. ReaderOK
    <3>1. 0 \in Ctrls
      BY QueuesAssumption DEF Ctrls
    <3>2. NotReading \in Reading
      BY <3>1 DEF NotReading, Reading
    <3>3. QED
      BY <1>17, <3>2 DEF ReadReturn, IInv, TypeOK
  <2>2. QED
    BY <1>17, <2>1, <1>0, <1>1, <1>2, <1>4 DEF ReadReturn
<1>18. CASE UNCHANGED vars
  BY <1>18, <1>0, <1>1, <1>2, <1>3, <1>4 DEF vars
<1>19. QED
  BY <1>6, <1>7, <1>8, <1>9, <1>10, <1>11, <1>12, <1>13, <1>14, <1>15, <1>16,
     <1>17, <1>18 DEF Next

-----------------------------------------------------------------------------
\* The types hold of every reachable state of queues.c.
THEOREM TypeCorrect == Spec => []TypeOK
<1>1. IInv => TypeOK
  BY DEF IInv
<1>2. QED
  BY InitIInv, NextIInv, <1>1, PTL DEF Spec

\* Whatever the order of the calls, every ring stays consistent: the
\* pointers agree with the count and only written slots count as queued.
THEOREM RingCorrect == Spec => []RingInv
<1>1. IInv => RingInv
  BY DEF IInv, RingInv, CtrlInv
<1>2. QED
  BY InitIInv, NextIInv, <1>1, PTL DEF Spec

-----------------------------------------------------------------------------
\* Every queue starts closed and empty.
LEMMA FifoInit == Init => \A q \in Ctrls : Fifo(q)!Init
<1> SUFFICES ASSUME Init, NEW q \in Ctrls PROVE Fifo(q)!Init
  OBVIOUS
<1>1. Dump(FreeCtrl) = <<>>
  <2>1. Dump(FreeCtrl) \in Seq(Data) /\ Len(Dump(FreeCtrl)) = 0
    BY NewCtrlInv, DumpIsData DEF FreeCtrl, NewCtrl
  <2>2. QED
    BY <2>1, EmptySeq
<1>2. QED
  BY <1>1 DEF Init, Fifo!Init, FreeCtrl, NewCtrl, FREE, IN_USE, Result, Fifo!Result

\* A step that leaves the control and the result of q alone is a stutter of q.
LEMMA FifoStutter ==
  ASSUME NEW q \in Ctrls, queue_ctrls'[q] = queue_ctrls[q], ret'[q] = ret[q]
  PROVE  UNCHANGED Fifo(q)!vars
BY DEF Fifo!vars, Dump, SlotAt

\* Every step is, for every queue, one step of the abstract FIFO or none.
LEMMA FifoStep ==
  IInv /\ [Next]_vars => \A p \in Ctrls : [Fifo(p)!Next]_(Fifo(p)!vars)
<1> SUFFICES ASSUME IInv, [Next]_vars, NEW p \in Ctrls
             PROVE  Fifo(p)!Next \/ UNCHANGED Fifo(p)!vars
  OBVIOUS
<1> DEFINE c == queue_ctrls[p]
           e == queue_ctrls'[p]
<1>0. /\ \A q \in Ctrls : CtrlInv(queue_ctrls[q])
      /\ DOMAIN queue_ctrls = Ctrls
      /\ DOMAIN ret = Ctrls
      /\ c.n_queued \in Nat
      /\ c.max_queue_depth \in Nat
  BY CtrlFields DEF IInv, TypeOK
<1>1. ASSUME NEW q \in Ctrls, q # p, NEW v,
             queue_ctrls' = [queue_ctrls EXCEPT ![q] = v] \/ UNCHANGED queue_ctrls,
             (\E r : ret' = [ret EXCEPT ![q] = r]) \/ UNCHANGED ret
      PROVE  UNCHANGED Fifo(p)!vars
  <2>1. queue_ctrls'[p] = queue_ctrls[p]
    BY <1>0, <1>1
  <2>2. ret'[p] = ret[p]
    BY <1>0, <1>1
  <2>3. QED
    BY <2>1, <2>2, FifoStutter
<1>2. ASSUME UNCHANGED <<queue_ctrls, ret>> PROVE UNCHANGED Fifo(p)!vars
  BY <1>2, FifoStutter
<1>3. Dump(c) \in Seq(Data) /\ Len(Dump(c)) = c.n_queued
  BY <1>0, DumpIsData
<1>4. Dump(FreeCtrl) = <<>> /\ \A n \in Depths : Dump(NewCtrl(IN_USE, n)) = <<>>
  <2>1. /\ Dump(FreeCtrl) \in Seq(Data) /\ Len(Dump(FreeCtrl)) = 0
        /\ \A n \in Depths : /\ Dump(NewCtrl(IN_USE, n)) \in Seq(Data)
                             /\ Len(Dump(NewCtrl(IN_USE, n))) = 0
    BY NewCtrlInv, DumpIsData DEF FreeCtrl, NewCtrl
  <2>2. QED
    BY <2>1, EmptySeq
<1>5. ASSUME NEW n_data \in Depths, CreateQueue(n_data)
      PROVE  Fifo(p)!Next \/ UNCHANGED Fifo(p)!vars
  <2>1. PICK q \in Ctrls :
          /\ IsFirstFree(q)
          /\ queue_ctrls' = [queue_ctrls EXCEPT ![q] = NewCtrl(IN_USE, n_data)]
    BY <1>5 DEF CreateQueue
  <2>2. UNCHANGED ret
    BY <1>5 DEF CreateQueue
  <2>3. CASE q = p
    <3>1. c.in_use = FREE /\ e = NewCtrl(IN_USE, n_data)
      BY <2>1, <2>3, <1>0 DEF IsFirstFree, FreeCtrls
    <3>2. Fifo(p)!Open
      BY <3>1, <2>2, <1>4, QueuesAssumption DEF Fifo!Open, NewCtrl, FREE, IN_USE
    <3>3. QED
      BY <3>2 DEF Fifo!Next
  <2>4. QED
    BY <2>1, <2>2, <2>3, <1>1
<1>6. CASE CreateQueueExhausted
  BY <1>6, <1>2 DEF CreateQueueExhausted
<1>7. ASSUME NEW q \in Ctrls, ClearQueue(q)
      PROVE  Fifo(p)!Next \/ UNCHANGED Fifo(p)!vars
  <2>1. CASE q = p
    <3>1. c.in_use = IN_USE /\ e = Repositioned(c, 0, 0, 0) /\ UNCHANGED ret
      BY <1>7, <2>1, <1>0 DEF ClearQueue
    <3>2. Dump(e) = <<>>
      BY <3>1, <1>0, ClearedInv
    <3>3. Fifo(p)!Clear
      BY <3>1, <3>2 DEF Fifo!Clear, Repositioned
    <3>4. QED
      BY <3>3 DEF Fifo!Next
  <2>2. QED
    BY <1>7, <2>1, <1>1 DEF ClearQueue
<1>8. ASSUME NEW q \in Ctrls, DestroyQueue(q)
      PROVE  Fifo(p)!Next \/ UNCHANGED Fifo(p)!vars
  <2>1. CASE q = p
    <3>1. c.in_use = IN_USE /\ e = FreeCtrl /\ UNCHANGED ret
      BY <1>8, <2>1, <1>0 DEF DestroyQueue
    <3>2. Fifo(p)!Close
      BY <3>1, <1>4 DEF Fifo!Close, FreeCtrl, NewCtrl, FREE, IN_USE
    <3>3. QED
      BY <3>2 DEF Fifo!Next
  <2>2. QED
    BY <1>8, <2>1, <1>1 DEF DestroyQueue
<1>9. ASSUME NEW q \in Ctrls, NEW d \in Data, EnqueueData(q, d)
      PROVE  Fifo(p)!Next \/ UNCHANGED Fifo(p)!vars
  <2>1. CASE q = p
    <3>1. /\ c.n_queued < c.max_queue_depth
          /\ e = Enqueued(c, d)
          /\ ret'[p] = Result(TRUE, <<>>)
      BY <1>9, <2>1, <1>0 DEF EnqueueData, HasRoom, Returns
    <3>2. Dump(e) = Append(Dump(c), d)
      BY <3>1, <1>0, EnqueuedInv
    <3>3. Len(Dump(e)) = c.n_queued + 1
      BY <3>2, <1>3, AppendProperties
    <3>4. /\ e.in_use = c.in_use
          /\ e.max_queue_depth = c.max_queue_depth
          /\ e.max_queued = IF c.n_queued + 1 > c.max_queued THEN c.n_queued + 1
                                                             ELSE c.max_queued
      BY <3>1 DEF Enqueued
    <3>5. c.max_queued \in Nat
      BY <1>0, CtrlFields
    <3>6. Fifo(p)!Put(d)
      BY <3>1, <3>2, <3>3, <3>4, <3>5, <1>0, <1>3 DEF Fifo!Put, Result, Fifo!Result
    <3>7. QED
      BY <3>6 DEF Fifo!Next
  <2>2. QED
    BY <1>9, <2>1, <1>1 DEF EnqueueData, Returns
<1>10. ASSUME NEW q \in Ctrls, EnqueueFull(q)
       PROVE  Fifo(p)!Next \/ UNCHANGED Fifo(p)!vars
  <2>1. CASE q = p
    <3>1. c.n_queued = c.max_queue_depth
      BY <1>10, <2>1, <1>0 DEF EnqueueFull, HasRoom, CtrlInv, RingConsistent, QUEUE_CTRL
    <3>2. e = c /\ ret'[p] = Result(FALSE, <<>>)
      BY <1>10, <2>1, <1>0 DEF EnqueueFull, Returns
    <3>3. Dump(e) = Dump(c)
      BY <3>2
    <3>4. Fifo(p)!Refuse
      BY <3>1, <3>2, <3>3, <1>3 DEF Fifo!Refuse, Result, Fifo!Result
    <3>5. QED
      BY <3>4 DEF Fifo!Next
  <2>2. QED
    BY <1>10, <2>1, <1>1 DEF EnqueueFull, Returns
<1>11. ASSUME NEW q \in Ctrls, DequeueData(q)
       PROVE  Fifo(p)!Next \/ UNCHANGED Fifo(p)!vars
  <2>1. CASE q = p
    <3>1. /\ c.n_queued # 0
          /\ e = Dequeued(c)
          /\ ret'[p] = Result(TRUE, <<c.queue_data[c.next_out]>>)
      BY <1>11, <2>1, <1>0 DEF DequeueData, IsEmpty, Returns
    <3>2. /\ Dump(c) # <<>>
          /\ c.queue_data[c.next_out] = Head(Dump(c))
          /\ Dump(e) = Tail(Dump(c))
      BY <3>1, <1>0, DequeuedInv
    <3>3. /\ e.in_use = c.in_use
          /\ e.max_queue_depth = c.max_queue_depth
          /\ e.max_queued = c.max_queued
      BY <3>1 DEF Dequeued, Repositioned
    <3>4. Fifo(p)!Get
      BY <3>1, <3>2, <3>3 DEF Fifo!Get, Result, Fifo!Result
    <3>5. QED
      BY <3>4 DEF Fifo!Next
  <2>2. QED
    BY <1>11, <2>1, <1>1 DEF DequeueData, Returns
<1>12. ASSUME NEW q \in Ctrls, DequeueEmpty(q)
       PROVE  Fifo(p)!Next \/ UNCHANGED Fifo(p)!vars
  <2>1. CASE q = p
    <3>1. Dump(c) = <<>>
      BY <1>12, <2>1, <1>3, EmptySeq DEF DequeueEmpty, IsEmpty
    <3>2. e = c /\ ret'[p] = Result(FALSE, <<>>)
      BY <1>12, <2>1, <1>0 DEF DequeueEmpty, Returns
    <3>3. Dump(e) = Dump(c)
      BY <3>2
    <3>4. Fifo(p)!Refuse
      BY <3>1, <3>2, <3>3 DEF Fifo!Refuse, Result, Fifo!Result
    <3>5. QED
      BY <3>4 DEF Fifo!Next
  <2>2. QED
    BY <1>12, <2>1, <1>1 DEF DequeueEmpty, Returns
<1>13. ASSUME NEW q \in Ctrls, DumpQueueData(q)
       PROVE  Fifo(p)!Next \/ UNCHANGED Fifo(p)!vars
  <2>1. CASE q = p
    <3>1. (c.n_queued = 0) <=> (Dump(c) = <<>>)
      BY <1>3, EmptySeq
    <3>2. e = c /\ ret'[p] = Result(Dump(c) # <<>>, Dump(c))
      BY <1>13, <2>1, <3>1, <1>0 DEF DumpQueueData, Returns, IsEmpty
    <3>3. Dump(e) = Dump(c)
      BY <3>2
    <3>4. Fifo(p)!Copy
      BY <3>2, <3>3 DEF Fifo!Copy, Result, Fifo!Result
    <3>5. QED
      BY <3>4 DEF Fifo!Next
  <2>2. QED
    BY <1>13, <2>1, <1>1 DEF DumpQueueData, Returns
<1>14. ASSUME NEW t \in Readers,
              ReadCopy(t) \/ ReadReturn(t) \/ \E q \in Ctrls : ReadCheck(t, q)
       PROVE  UNCHANGED Fifo(p)!vars
  BY <1>14, <1>2 DEF ReadCheck, ReadCopy, ReadReturn
<1>15. CASE UNCHANGED vars
  BY <1>15, <1>2 DEF vars
<1>16. QED
  BY <1>5, <1>6, <1>7, <1>8, <1>9, <1>10, <1>11, <1>12, <1>13, <1>14, <1>15 DEF Next

\* queues.c implements bounded FIFOs: every queue hands out what was put
\* into it, once and in order, and refuses only when full or empty.
THEOREM Refinement == Spec => QueuesAreFifos
<1>1. IInv /\ [Next]_vars => [\A q \in Ctrls : [Fifo(q)!Next]_(Fifo(q)!vars)]_vars
  BY FifoStep
<1>2. QED
  BY FifoInit, InitIInv, NextIInv, <1>1, PTL DEF Spec, QueuesAreFifos

-----------------------------------------------------------------------------
(* The walk.  walk_queue gives the slots of the queued data one after the   *)
(* other and then NULL: Visited, which runs it, is a recursive function, so *)
(* that it has a value at all is shown first, by giving it.                 *)

\* What the i-th call of walk_queue returns.
Stop(c, i) == IF i = c.n_queued + 1 THEN NULL ELSE SlotAt(c, i - 1)

\* What m + 1 calls return, none made after the one that returned NULL.
Calls(c, m) == IF m < c.n_queued THEN m + 1 ELSE c.n_queued + 1
Stops(c, m) == [i \in 1 .. Calls(c, m) |-> Stop(c, i)]

\* One more call, as Visited makes it.
Continued(c, sofar) ==
  LET last == sofar[Len(sofar)]
  IN  IF last = NULL THEN sofar ELSE Append(sofar, WalkQueue(c, last))

Further(c, w, n) == IF n = 0 THEN <<WalkQueue(c, NULL)>> ELSE Continued(c, w[n - 1])

\* Slots of the queued data, and the next free one, follow each other; only the
\* last one queued is followed by next_in.
LEMMA WalkStep ==
  ASSUME NEW c, CtrlInv(c)
  PROVE  /\ WalkQueue(c, NULL) = Stop(c, 1)
         /\ \A i \in 1 .. c.n_queued :
              Stop(c, i) \in Nat /\ WalkQueue(c, Stop(c, i)) = Stop(c, i + 1)
<1>1. /\ c.n_queued \in Nat /\ c.max_queue_depth \in Nat /\ c.next_out \in Nat
      /\ c.next_in \in Nat /\ c.max_queued \in Nat
  BY CtrlFields
<1>2. /\ c.n_queued <= c.max_queue_depth /\ c.next_in = SlotAt(c, c.n_queued)
      /\ c.next_out = 0 \/ c.next_out < c.max_queue_depth
  BY <1>1 DEF CtrlInv, RingConsistent
<1>3. WalkQueue(c, NULL) = Stop(c, 1)
  <2>1. WalkQueue(c, NULL) = IF c.n_queued = 0 THEN NULL ELSE c.next_out
    BY DEF WalkQueue
  <2>2. Stop(c, 1) = IF c.n_queued = 0 THEN NULL ELSE SlotAt(c, 0)
    <3>1. 1 = c.n_queued + 1 <=> c.n_queued = 0
      BY <1>1
    <3>2. 1 - 1 = 0
      OBVIOUS
    <3>3. QED
      BY <3>1, <3>2 DEF Stop
  <2>3. c.n_queued # 0 => SlotAt(c, 0) = c.next_out
    BY <1>1, <1>2 DEF SlotAt
  <2>4. QED
    BY <2>1, <2>2, <2>3
<1>4. ASSUME NEW i \in 1 .. c.n_queued
      PROVE  Stop(c, i) \in Nat /\ WalkQueue(c, Stop(c, i)) = Stop(c, i + 1)
  <2> DEFINE s == SlotAt(c, i - 1)
  <2>1. i # c.n_queued + 1 /\ i - 1 \in Nat /\ i \in Nat
    BY <1>1
  <2>2. Stop(c, i) = s /\ s \in Nat
    BY <1>1, <1>2, <2>1 DEF Stop, SlotAt
  <2>3. Advance(c, s) = SlotAt(c, i)
    BY <1>1, <1>2, <2>1 DEF Advance, SlotAt
  <2>4. SlotAt(c, i) = c.next_in <=> i = c.n_queued
    BY <1>1, <1>2, <2>1 DEF SlotAt
  <2>5. s # NULL
    BY <2>2 DEF NULL
  <2>6. WalkQueue(c, s) = IF SlotAt(c, i) = c.next_in THEN NULL ELSE SlotAt(c, i)
    BY <2>3, <2>5 DEF WalkQueue
  <2>7. Stop(c, i + 1) = IF i = c.n_queued THEN NULL ELSE SlotAt(c, i)
    BY <1>1, <2>1 DEF Stop
  <2>8. QED
    BY <2>2, <2>4, <2>6, <2>7
<1>5. QED
  BY <1>3, <1>4

LEMMA StopsType ==
  ASSUME NEW c, CtrlInv(c), NEW m \in Nat
  PROVE  /\ Calls(c, m) \in Nat \ {0}
         /\ Stops(c, m) \in Seq(Int) /\ Len(Stops(c, m)) = Calls(c, m)
         /\ \A i \in 1 .. Calls(c, m) : Stops(c, m)[i] = Stop(c, i)
<1>1. c.n_queued \in Nat
  BY CtrlFields
<1>2. Calls(c, m) \in Nat \ {0} /\ Calls(c, m) <= c.n_queued + 1
  BY <1>1 DEF Calls
<1>3. ASSUME NEW i \in 1 .. Calls(c, m) PROVE Stop(c, i) \in Int
  <2>1. CASE i = c.n_queued + 1
    BY <2>1 DEF Stop, NULL
  <2>2. CASE i # c.n_queued + 1
    <3>1. i \in 1 .. c.n_queued
      BY <1>1, <1>2, <2>2
    <3>2. QED
      BY <3>1, WalkStep
  <2>3. QED
    BY <2>1, <2>2
<1>4. QED
  BY <1>2, <1>3 DEF Stops

\* The closed form is what the recursion asks for.
LEMMA StopsFurther ==
  ASSUME NEW c, CtrlInv(c), NEW w, NEW n \in Nat, n # 0 => w[n - 1] = Stops(c, n - 1)
  PROVE  Further(c, w, n) = Stops(c, n)
<1>1. c.n_queued \in Nat
  BY CtrlFields
<1>2. CASE n = 0
  <2>1. Further(c, w, n) = <<Stop(c, 1)>>
    BY <1>2, WalkStep DEF Further
  <2>2. Calls(c, n) = 1
    BY <1>1, <1>2 DEF Calls
  <2>3. Stops(c, n) = [i \in 1 .. 1 |-> Stop(c, i)]
    BY <2>2 DEF Stops
  <2>4. [i \in 1 .. 1 |-> Stop(c, i)] = <<Stop(c, 1)>>
    OBVIOUS
  <2>5. QED
    BY <2>1, <2>3, <2>4
<1>3. CASE n # 0
  <2> DEFINE sofar == Stops(c, n - 1)
             last == sofar[Len(sofar)]
  <2>1. n - 1 \in Nat
    BY <1>3
  <2>2. /\ Len(sofar) = Calls(c, n - 1) /\ Calls(c, n - 1) \in Nat \ {0} /\ sofar \in Seq(Int)
        /\ last = Stop(c, Calls(c, n - 1))
        /\ \A i \in 1 .. Calls(c, n - 1) : sofar[i] = Stop(c, i)
    <3>1. /\ Len(sofar) = Calls(c, n - 1) /\ Calls(c, n - 1) \in Nat \ {0} /\ sofar \in Seq(Int)
          /\ \A i \in 1 .. Calls(c, n - 1) : sofar[i] = Stop(c, i)
      BY <2>1, StopsType
    <3> HIDE DEF sofar
    <3>2. Calls(c, n - 1) \in 1 .. Calls(c, n - 1)
      BY <3>1
    <3>3. QED
      BY <3>1, <3>2
  <2>3. Further(c, w, n) = IF last = NULL THEN sofar ELSE Append(sofar, WalkQueue(c, last))
    <3>1. Further(c, w, n) = Continued(c, sofar)
      BY <1>3 DEF Further
    <3>2. Continued(c, sofar) = IF last = NULL THEN sofar ELSE Append(sofar, WalkQueue(c, last))
      BY DEF Continued
    <3> HIDE DEF sofar
    <3>3. QED
      BY <3>1, <3>2
  <2>4. CASE n - 1 < c.n_queued
    <3>1. Calls(c, n - 1) = n /\ Calls(c, n) = n + 1 /\ n \in 1 .. c.n_queued
      BY <1>1, <1>3, <2>4 DEF Calls
    <3>2. last \in Nat /\ WalkQueue(c, last) = Stop(c, n + 1)
      BY <2>2, <3>1, WalkStep
    <3>3. Further(c, w, n) = Append(sofar, Stop(c, n + 1))
      BY <2>3, <3>2 DEF NULL
    <3>4. /\ Stops(c, n) \in Seq(Int) /\ Len(Stops(c, n)) = n + 1
          /\ \A i \in 1 .. n + 1 : Stops(c, n)[i] = Stop(c, i)
      BY <3>1, StopsType
    <3>5. Stop(c, n + 1) = Stops(c, n)[n + 1] /\ Stop(c, n + 1) \in Int
      BY <3>4
    <3>6. Append(sofar, Stop(c, n + 1)) \in Seq(Int)
          /\ Len(Append(sofar, Stop(c, n + 1))) = n + 1
          /\ \A i \in 1 .. n + 1 : Append(sofar, Stop(c, n + 1))[i] = Stop(c, i)
      <4> HIDE DEF sofar
      <4>1. QED
        BY <2>2, <3>1, <3>5
    <3> HIDE DEF sofar
    <3>7. Append(sofar, Stop(c, n + 1)) = Stops(c, n)
      BY <3>4, <3>6, SeqEqual
    <3>8. QED
      BY <3>3, <3>7
  <2>5. CASE ~ (n - 1 < c.n_queued)
    <3>1. Calls(c, n - 1) = c.n_queued + 1 /\ Calls(c, n) = c.n_queued + 1
      BY <1>1, <1>3, <2>5 DEF Calls
    <3>2. last = NULL
      BY <2>2, <3>1 DEF Stop
    <3>3. Stops(c, n) = Stops(c, n - 1)
      BY <3>1 DEF Stops
    <3>4. QED
      BY <2>3, <3>2, <3>3
  <2>6. QED
    BY <2>4, <2>5
<1>4. QED
  BY <1>2, <1>3

\* A recursive definition along the numbers up to d has one solution at most.
LEMMA WalkUnique ==
  ASSUME NEW c, CtrlInv(c), NEW d \in Nat,
         NEW w, w = [n \in 0 .. d |-> Further(c, w, n)], NEW m \in 0 .. d
  PROVE  w[m] = Stops(c, m)
<1> DEFINE Wrong == {n \in 0 .. d : w[n] # Stops(c, n)}
<1> SUFFICES ASSUME Wrong # {} PROVE FALSE
  OBVIOUS
<1>1. PICK x \in Wrong : \A y \in Wrong : ~ (<<y, x>> \in OpToRel(<, Nat))
  <2>1. Wrong \in SUBSET Nat
    OBVIOUS
  <2>2. QED
    BY <2>1, WFMin, NatLessThanWellFounded
<1>2. x \in Nat /\ x <= d /\ w[x] # Stops(c, x)
  OBVIOUS
<1>3. x # 0 => w[x - 1] = Stops(c, x - 1)
  <2>1. SUFFICES ASSUME x # 0 PROVE x - 1 \notin Wrong
    BY <1>2
  <2>2. <<x - 1, x>> \in OpToRel(<, Nat)
    BY <1>2, <2>1 DEF OpToRel
  <2>3. QED
    BY <1>1, <2>2
<1>4. Further(c, w, x) = Stops(c, x)
  BY <1>2, <1>3, StopsFurther
<1>5. w[x] = Further(c, w, x)
  BY <1>2
<1>6. QED
  BY <1>2, <1>4, <1>5

\* A walk of a consistent ring.
LEMMA VisitedIs ==
  ASSUME NEW c, CtrlInv(c) PROVE Visited(c) = Stops(c, c.max_queue_depth + 1)
<1> DEFINE d == c.max_queue_depth + 1
           Solves(w) == w = [n \in 0 .. d |-> Further(c, w, n)]
           walk == CHOOSE w : Solves(w)
           f == [n \in 0 .. d |-> Stops(c, n)]
<1>1. d \in Nat
  BY CtrlFields
<1>2. Visited(c) = walk[d]
  BY DEF Visited, Further, Continued
<1>3. Solves(f)
  <2>1. ASSUME NEW n \in 0 .. d PROVE Further(c, f, n) = Stops(c, n)
    <3>1. n \in Nat
      BY <1>1
    <3>2. n # 0 => n - 1 \in 0 .. d
      BY <1>1
    <3>3. n # 0 => f[n - 1] = Stops(c, n - 1)
      BY <3>2
    <3> HIDE DEF f
    <3>4. QED
      BY <3>1, <3>3, StopsFurther
  <2>2. QED
    BY <2>1
<1>4. Solves(walk)
  <2> HIDE DEF f, Solves
  <2>1. QED
    BY <1>3
<1>5. d \in 0 .. d
  BY <1>1
<1> HIDE DEF d, walk, f
<1>6. walk[d] = Stops(c, d)
  BY <1>1, <1>4, <1>5, WalkUnique
<1>7. QED
  BY <1>2, <1>6 DEF d

\* A walk of a queue at rest, in any state the calls can bring it to, empty and
\* full rings included, visits what a dump copies, in its order, and ends.
THEOREM WalkCorrect == Spec => []WalkAgreesWithDump
<1>1. IInv => WalkAgreesWithDump
  <2>1. ASSUME NEW c, CtrlInv(c)
        PROVE  /\ Len(Visited(c)) = c.n_queued + 1 /\ Visited(c)[c.n_queued + 1] = NULL
               /\ \A i \in 1 .. c.n_queued : c.queue_data[Visited(c)[i]] = Dump(c)[i]
    <3>1. /\ c.n_queued \in Nat /\ c.max_queue_depth \in Nat /\ c.n_queued <= c.max_queue_depth
          /\ c.max_queue_depth + 1 \in Nat
      BY <2>1, CtrlFields DEF CtrlInv, RingConsistent
    <3>2. Calls(c, c.max_queue_depth + 1) = c.n_queued + 1
      BY <3>1 DEF Calls
    <3>3. /\ Len(Visited(c)) = c.n_queued + 1
          /\ \A i \in 1 .. c.n_queued + 1 : Visited(c)[i] = Stop(c, i)
      BY <2>1, <3>1, <3>2, VisitedIs, StopsType
    <3>4. Stop(c, c.n_queued + 1) = NULL /\ \A i \in 1 .. c.n_queued : Stop(c, i) = SlotAt(c, i - 1)
      BY <3>1 DEF Stop
    <3>5. \A i \in 1 .. c.n_queued : i \in 1 .. c.n_queued + 1
      BY <3>1
    <3>6. c.n_queued + 1 \in 1 .. c.n_queued + 1
      BY <3>1
    <3>7. QED
      BY <2>1, <3>3, <3>4, <3>5, <3>6, DumpIsData
  <2>2. QED
    BY <2>1 DEF IInv, WalkAgreesWithDump
<1>2. QED
  BY InitIInv, NextIInv, <1>1, PTL DEF Spec

=============================================================================
