-------------------------- MODULE MsgQueue_proofs --------------------------
(***************************************************************************)
(* Theorems about MsgQueue.tla for a host that raises alarms from one      *)
(* thread, c, and for every capacity, every pair of delays, every set of   *)
(* alarms and any number of accepts.  (With two threads the properties are *)
(* false: see MsgQueue_two_callers.cfg.)                                   *)
(*                                                                         *)
(* The order of the start-up is the heart of the invariant: nothing can be *)
(* queued before both delays are read, although the run thread has been    *)
(* started by then.  The rest of it relates the time slept to what is left *)
(* on the timer at each point of the run thread's loop.                    *)
(***************************************************************************)
EXTENDS MsgQueue, SequenceTheorems, TLAPS

\* The stages of the start-up and what is so before each of them.
StartUp(c) ==
  /\ msg_queue = NULL => /\ add[c].pc \in {"idle", "create"}
                         /\ run[c].pc = "off"
                         /\ accepted = <<>>
                         /\ pushed = <<>>
                         /\ queue[c] = <<>>
  /\ add[c].pc \in {"create", "thread"} => run[c].pc = "off"
  /\ add[c].pc \in {"thread", "alert_delay", "accept_delay"} => accepted = <<>>
  /\ msg_queue # NULL /\ add[c].pc \in {"idle", "enqueue", "accept_delay"}
       => alert_delay = ALERT_DELAY
  /\ add[c].pc = "create" => msg_queue = NULL
  /\ add[c].pc \in {"thread", "alert_delay", "accept_delay", "enqueue"} => msg_queue = c
  /\ add[c].pc # "idle" => add[c].msg \in Messages
  /\ run[c].pc = "push" => run[c].qmsg \in Messages

\* The time the thread still sleeps, at least, before it looks at the queue.
TimeLeft(c) ==
  IF run[c].pc = "wait" THEN IF timer > 1 THEN timer ELSE 1
  ELSE IF run[c].pc = "pause" THEN IF timer > 1 THEN 1 + timer ELSE 2
  ELSE IF run[c].pc = "last" THEN 1
  ELSE 0

TimeKept(c) ==
  /\ interval <= ALERT_DELAY
  /\ run[c].pc = "arm" => pushed # <<>>
  /\ pushed # <<>> /\ run[c].pc # "arm"
       => sincePush + TimeLeft(c) >= AtLeastOne(interval)

IInv(c) == TypeOK /\ StartUp(c) /\ TimeKept(c) /\ NothingLostOrReordered

-----------------------------------------------------------------------------
\* What strncpy leaves in qmsg is a message.
LEMMA CopiedIsMessage ==
  ASSUME NEW a \in Alarms
  PROVE  Copied(a) \subseteq Messages
BY DEF Copied, Messages, DeptStates

\* The initial state satisfies the invariant.
LEMMA InitIInv ==
  ASSUME NEW c, Callers = {c}
  PROVE  Init => IInv(c)
<1> SUFFICES ASSUME Init PROVE IInv(c)
  OBVIOUS
<1>1. add[c] = NotAdding /\ run[c] = NotRunning /\ queue[c] = <<>>
  BY DEF Init
<1>2. TypeOK
  BY MsgQueueAssumption, EmptySeq DEF Init, TypeOK, NotAdding, NotRunning, NotSetting,
     Calls, Threads, AddPoints, RunPoints
<1>3. StartUp(c)
  BY <1>1 DEF Init, StartUp, NotAdding, NotRunning
<1>4. TimeKept(c)
  BY <1>1, MsgQueueAssumption DEF Init, TimeKept, NotRunning
<1>5. NothingLostOrReordered
  BY DEF Init, NothingLostOrReordered, Waiting
<1>6. QED
  BY <1>2, <1>3, <1>4, <1>5 DEF IInv

-----------------------------------------------------------------------------
(***************************************************************************)
(* The four conjuncts of the invariant, over one step each.  In all of     *)
(* them the only calling thread, and so the only run thread, is c.         *)
(***************************************************************************)

\* With one caller a step is one of these.
LEMMA OneCallerNext ==
  ASSUME NEW c, Callers = {c}, Next
  PROVE  \/ AddCall(c)
         \/ AddCreateQueue(c) \/ AddStartThread(c) \/ AddReadAlertDelay(c)
         \/ AddReadAcceptDelay(c) \/ AddEnqueue(c) \/ AddRefused(c)
         \/ RunDequeue(c) \/ RunNoMessage(c) \/ RunPush(c)
         \/ RunArmTimer(c) \/ RunTick(c) \/ RunSleep(c)
         \/ SetAccept \/ SetDelay
BY DEF Next, InsideAdd, RunThread

\* What TypeOK says of the two records of thread c and of the queue.
LEMMA Records ==
  ASSUME NEW c, Callers = {c}, TypeOK
  PROVE  /\ add[c] \in Calls
         /\ run[c] \in Threads
         /\ queue[c] \in Seq(Messages)
         /\ msg_queue \in {c, NULL}
         /\ c # NULL
BY MsgQueueAssumption DEF TypeOK

\* Moving a call, or the run thread, to another point changes its pc alone.
LEMMA AddGoesTo ==
  ASSUME NEW c, Callers = {c}, TypeOK, NEW pc \in AddPoints, AddGoes(c, pc)
  PROVE  /\ add'[c].pc = pc
         /\ add'[c].msg = add[c].msg
         /\ add' \in [Callers -> Calls]
<1>1. add[c] \in Calls
  BY Records
<1>2. add' = [add EXCEPT ![c] = [add[c] EXCEPT !.pc = pc]]
  BY DEF AddGoes, TypeOK
<1>3. add'[c] = [add[c] EXCEPT !.pc = pc]
  BY <1>2 DEF TypeOK
<1>4. [add[c] EXCEPT !.pc = pc] \in Calls
  BY <1>1 DEF Calls
<1>5. add'[c].pc = pc /\ add'[c].msg = add[c].msg
  BY <1>1, <1>3 DEF Calls
<1>6. add' \in [Callers -> Calls]
  BY <1>2, <1>4 DEF TypeOK
<1>7. QED
  BY <1>5, <1>6

LEMMA RunGoesTo ==
  ASSUME NEW c, Callers = {c}, TypeOK, NEW pc \in RunPoints, RunGoes(c, pc)
  PROVE  /\ run'[c].pc = pc
         /\ run'[c].qmsg = run[c].qmsg
         /\ run' \in [Callers -> Threads]
<1>1. run[c] \in Threads
  BY Records
<1>2. run' = [run EXCEPT ![c] = [run[c] EXCEPT !.pc = pc]]
  BY DEF RunGoes, TypeOK
<1>3. run'[c] = [run[c] EXCEPT !.pc = pc]
  BY <1>2 DEF TypeOK
<1>4. [run[c] EXCEPT !.pc = pc] \in Threads
  BY <1>1 DEF Threads
<1>5. run'[c].pc = pc /\ run'[c].qmsg = run[c].qmsg
  BY <1>1, <1>3 DEF Threads
<1>6. run' \in [Callers -> Threads]
  BY <1>2, <1>4 DEF TypeOK
<1>7. QED
  BY <1>5, <1>6

-----------------------------------------------------------------------------
\* Steps keep the types.
LEMMA TypeStep ==
  ASSUME NEW c, Callers = {c}, TypeOK, StartUp(c), Next
  PROVE  TypeOK'
<1> USE DEF history
<1>1. /\ add[c] \in Calls
      /\ run[c] \in Threads
      /\ queue[c] \in Seq(Messages)
      /\ msg_queue \in {c, NULL}
  BY Records
<1>2. /\ NULL \notin {c} /\ ALERT_DELAY \in Nat /\ ACCEPT_DELAY \in Nat /\ Horizon \in Nat
      /\ Horizon > 0
  BY MsgQueueAssumption
<1>3. "poll" \in RunPoints /\ "idle" \in RunPoints /\ "wait" \in RunPoints
  BY DEF RunPoints
<1>4. NotAdding \in Calls /\ \A m \in Messages : [pc |-> "push", qmsg |-> m] \in Threads
  BY DEF NotAdding, Calls, AddPoints, Threads, RunPoints
<1>5. CASE AddCall(c)
  <2> DEFINE pc == IF msg_queue = NULL THEN "create" ELSE "enqueue"
  <2>1. PICK a \in Alarms : \E m \in Copied(a) :
          add' = [add EXCEPT ![c] = [pc |-> pc, msg |-> m]]
    BY <1>5 DEF AddCall
  <2>2. \A m \in Copied(a) : [pc |-> pc, msg |-> m] \in Calls
    BY CopiedIsMessage DEF Calls, AddPoints
  <2>3. add' \in [Callers -> Calls]
    BY <2>1, <2>2 DEF TypeOK
  <2>4. QED
    BY <1>5, <2>3 DEF AddCall, TypeOK
<1>6. CASE AddCreateQueue(c)
  BY <1>6, AddGoesTo DEF AddCreateQueue, AddPoints, TypeOK
<1>7. CASE AddStartThread(c)
  BY <1>7, <1>3, AddGoesTo, RunGoesTo DEF AddStartThread, AddPoints, TypeOK
<1>8. CASE AddReadAlertDelay(c)
  BY <1>8, AddGoesTo DEF AddReadAlertDelay, AddPoints, TypeOK
<1>9. CASE AddReadAcceptDelay(c)
  BY <1>9, AddGoesTo DEF AddReadAcceptDelay, AddPoints, TypeOK
<1>10. CASE AddEnqueue(c)
  <2>1. msg_queue = c /\ add[c].msg \in Messages
    BY <1>10 DEF AddEnqueue, StartUp
  <2>2. queue' = [queue EXCEPT ![c] = Append(queue[c], add[c].msg)]
    BY <1>10, <2>1 DEF AddEnqueue
  <2>3. Append(queue[c], add[c].msg) \in Seq(Messages)
    BY <1>1, <2>1, AppendProperties
  <2>4. queue' \in [Callers -> Seq(Messages)]
    BY <2>2, <2>3 DEF TypeOK
  <2>5. accepted' \in Seq(Messages)
    BY <1>10, <2>1, AppendProperties DEF AddEnqueue, TypeOK
  <2>6. add' \in [Callers -> Calls]
    BY <1>10, <1>4 DEF AddEnqueue, TypeOK
  <2>7. QED
    BY <1>10, <2>4, <2>5, <2>6 DEF AddEnqueue, TypeOK
<1>11. CASE AddRefused(c)
  <2>1. add' \in [Callers -> Calls]
    BY <1>11, <1>4 DEF AddRefused, TypeOK
  <2>2. QED
    BY <1>11, <2>1 DEF AddRefused, TypeOK
<1>12. CASE RunDequeue(c)
  <2>1. msg_queue = c
    BY <1>1, <1>12 DEF RunDequeue, StartUp
  <2>2. queue[c] # <<>> /\ queue' = [queue EXCEPT ![c] = Tail(queue[c])]
    BY <1>12, <2>1 DEF RunDequeue
  <2>3. Tail(queue[c]) \in Seq(Messages) /\ Head(queue[c]) \in Messages
    BY <1>1, <2>2, HeadTailProperties
  <2>4. queue' \in [Callers -> Seq(Messages)]
    BY <2>2, <2>3 DEF TypeOK
  <2>5. run' \in [Callers -> Threads]
    BY <1>12, <1>4, <2>1, <2>3 DEF RunDequeue, TypeOK
  <2>6. QED
    BY <1>12, <2>4, <2>5 DEF RunDequeue, TypeOK
<1>13. CASE RunNoMessage(c)
  BY <1>13, <1>3, RunGoesTo DEF RunNoMessage, TypeOK
<1>14. CASE RunPush(c)
  <2>1. run[c].qmsg \in Messages
    BY <1>14 DEF RunPush, StartUp
  <2>2. pushed' \in Seq(Messages)
    BY <1>14, <2>1, AppendProperties DEF RunPush, TypeOK
  <2>3. [pc |-> "arm", qmsg |-> NULL] \in Threads
    BY DEF Threads, RunPoints
  <2>4. run' \in [Callers -> Threads]
    BY <1>14, <2>3 DEF RunPush, TypeOK
  <2>5. QED
    BY <1>14, <1>2, <2>2, <2>4 DEF RunPush, TypeOK
<1>15. CASE RunArmTimer(c)
  <2>1. run' \in [Callers -> Threads]
    BY <1>15, <1>3, RunGoesTo DEF RunArmTimer
  <2>2. timer' \in Int
    BY <1>15, <1>2 DEF RunArmTimer, TypeOK
  <2>3. QED
    BY <1>15, <2>1, <2>2 DEF RunArmTimer, TypeOK
<1>16. CASE RunTick(c)
  <2>1. run' \in [Callers -> Threads]
    BY <1>16, RunGoesTo DEF RunTick, RunPoints
  <2>2. timer' \in Int
    BY <1>16 DEF RunTick, TypeOK
  <2>3. QED
    BY <1>16, <2>1, <2>2 DEF RunTick, TypeOK
<1>17. CASE RunSleep(c)
  <2>1. run' \in [Callers -> Threads]
    BY <1>17, RunGoesTo DEF RunSleep, RunPoints
  <2>2. sincePush' \in 0 .. Horizon /\ sinceAccept' \in 0 .. Horizon
    BY <1>17, <1>2 DEF RunSleep, TypeOK, Later
  <2>3. QED
    BY <1>17, <2>1, <2>2 DEF RunSleep, TypeOK
<1>18. CASE SetAccept
  BY <1>18 DEF SetAccept, TypeOK
<1>19. CASE SetDelay
  <2>1. setting \in {0, ACCEPT_DELAY} /\ setting \in Int
    BY <1>19, <1>2 DEF SetDelay, TypeOK, NotSetting
  <2>2. interval' \in {0, ACCEPT_DELAY, ALERT_DELAY}
    BY <1>19, <2>1 DEF SetDelay, TypeOK
  <2>3. QED
    BY <1>19, <1>2, <2>1, <2>2 DEF SetDelay, TypeOK, NotSetting
<1>20. QED
  BY OneCallerNext, <1>5, <1>6, <1>7, <1>8, <1>9, <1>10, <1>11, <1>12, <1>13, <1>14,
     <1>15, <1>16, <1>17, <1>18, <1>19

\* Steps keep the order of the start-up.
LEMMA StartUpStep ==
  ASSUME NEW c, Callers = {c}, TypeOK, StartUp(c), Next
  PROVE  StartUp(c)'
<1> USE DEF history
<1>1. /\ add[c] \in Calls
      /\ run[c] \in Threads
      /\ msg_queue \in {c, NULL}
      /\ c # NULL
  BY Records
<1>2. "poll" \in RunPoints /\ "idle" \in RunPoints /\ "wait" \in RunPoints
  BY DEF RunPoints
<1>3. /\ queue \in [Callers -> Seq(Messages)]
      /\ add \in [Callers -> Calls] /\ run \in [Callers -> Threads]
  BY DEF TypeOK
<1>4. run[c].pc # "off" => msg_queue = c
  BY <1>1 DEF StartUp
<1>5. CASE AddCall(c)
  <2> DEFINE pc == IF msg_queue = NULL THEN "create" ELSE "enqueue"
  <2>1. PICK a \in Alarms : \E m \in Copied(a) :
          add' = [add EXCEPT ![c] = [pc |-> pc, msg |-> m]]
    BY <1>5 DEF AddCall
  <2>2. add'[c].pc = pc /\ add'[c].msg \in Messages
    BY <2>1, <1>3, CopiedIsMessage
  <2>3. UNCHANGED <<msg_queue, run, alert_delay, accepted, pushed, queue>>
    BY <1>5 DEF AddCall
  <2>4. add[c].pc = "idle"
    BY <1>5 DEF AddCall
  <2>5. QED
    BY <1>1, <1>4, <2>2, <2>3, <2>4 DEF StartUp
<1>6. CASE AddCreateQueue(c)
  <2>1. /\ add[c].pc = "create" /\ add'[c].pc = "thread" /\ add'[c].msg = add[c].msg
        /\ msg_queue' = c
    BY <1>6, AddGoesTo DEF AddCreateQueue, AddPoints
  <2>2. QED
    BY <1>1, <1>6, <2>1 DEF AddCreateQueue, StartUp
<1>7. CASE AddStartThread(c)
  <2>1. /\ add[c].pc = "thread" /\ add'[c].pc = "alert_delay" /\ add'[c].msg = add[c].msg
        /\ run'[c].pc = "poll"
    BY <1>2, <1>7, AddGoesTo, RunGoesTo DEF AddStartThread, AddPoints
  <2>2. QED
    BY <1>1, <1>7, <2>1 DEF AddStartThread, StartUp
<1>8. CASE AddReadAlertDelay(c)
  <2>1. /\ add[c].pc = "alert_delay" /\ add'[c].pc = "accept_delay"
        /\ add'[c].msg = add[c].msg
    BY <1>8, AddGoesTo DEF AddReadAlertDelay, AddPoints
  <2>2. QED
    BY <1>1, <1>8, <2>1 DEF AddReadAlertDelay, StartUp
<1>9. CASE AddReadAcceptDelay(c)
  <2>1. /\ add[c].pc = "accept_delay" /\ add'[c].pc = "enqueue"
        /\ add'[c].msg = add[c].msg
    BY <1>9, AddGoesTo DEF AddReadAcceptDelay, AddPoints
  <2>2. QED
    BY <1>1, <1>9, <2>1 DEF AddReadAcceptDelay, StartUp
<1>10. CASE AddEnqueue(c)
  <2>1. add[c].pc = "enqueue" /\ add'[c].pc = "idle" /\ msg_queue = c
    BY <1>3, <1>10 DEF AddEnqueue, NotAdding, StartUp
  <2>2. UNCHANGED <<msg_queue, run, alert_delay, pushed>>
    BY <1>10 DEF AddEnqueue
  <2>3. QED
    BY <1>1, <2>1, <2>2 DEF StartUp
<1>11. CASE AddRefused(c)
  <2>1. add[c].pc = "enqueue" /\ add'[c].pc = "idle" /\ msg_queue = c
    BY <1>3, <1>11 DEF AddRefused, NotAdding, StartUp
  <2>2. QED
    BY <1>1, <1>11, <2>1 DEF AddRefused, StartUp
<1>12. CASE RunDequeue(c)
  <2>1. run[c].pc = "poll" /\ msg_queue = c
    BY <1>4, <1>12 DEF RunDequeue
  <2>2. run'[c].pc = "push" /\ run'[c].qmsg \in Messages
    BY <1>1, <1>3, <1>12, <2>1, HeadTailProperties DEF RunDequeue
  <2>3. UNCHANGED <<msg_queue, add, alert_delay, accepted, pushed>>
    BY <1>12 DEF RunDequeue
  <2>4. QED
    BY <1>1, <2>1, <2>2, <2>3 DEF StartUp
<1>13. CASE RunNoMessage(c)
  <2>1. run[c].pc = "poll" /\ run'[c].pc = "idle"
    BY <1>2, <1>13, RunGoesTo DEF RunNoMessage
  <2>2. QED
    BY <1>1, <1>4, <1>13, <2>1 DEF RunNoMessage, StartUp
<1>14. CASE RunPush(c)
  <2>1. run[c].pc = "push" /\ run'[c].pc = "arm" /\ msg_queue = c
    BY <1>3, <1>4, <1>14 DEF RunPush
  <2>2. UNCHANGED <<msg_queue, add, alert_delay, accepted>>
    BY <1>14 DEF RunPush
  <2>3. QED
    BY <1>1, <2>1, <2>2 DEF StartUp
<1>15. CASE RunArmTimer(c)
  <2>1. run[c].pc = "arm" /\ run'[c].pc = "wait"
    BY <1>2, <1>15, RunGoesTo DEF RunArmTimer
  <2>2. QED
    BY <1>1, <1>4, <1>15, <2>1 DEF RunArmTimer, StartUp
<1>16. CASE RunTick(c)
  <2>1. run[c].pc = "wait" /\ run'[c].pc \in {"last", "pause"}
    BY <1>16, RunGoesTo DEF RunTick, RunPoints
  <2>2. QED
    BY <1>1, <1>4, <1>16, <2>1 DEF RunTick, StartUp
<1>17. CASE RunSleep(c)
  <2>1. run[c].pc # "off" /\ run[c].pc # "push" /\ run'[c].pc \in {"wait", "poll"}
    BY <1>17, RunGoesTo DEF RunSleep, RunPoints
  <2>2. QED
    BY <1>1, <1>4, <1>17, <2>1 DEF RunSleep, StartUp
<1>18. CASE SetAccept
  BY <1>18 DEF SetAccept, StartUp
<1>19. CASE SetDelay
  BY <1>19 DEF SetDelay, StartUp
<1>20. QED
  BY OneCallerNext, <1>5, <1>6, <1>7, <1>8, <1>9, <1>10, <1>11, <1>12, <1>13, <1>14,
     <1>15, <1>16, <1>17, <1>18, <1>19

\* Steps keep the equation between what was taken and what was pushed.
LEMMA NothingLostStep ==
  ASSUME NEW c, Callers = {c}, TypeOK, StartUp(c), NothingLostOrReordered, Next
  PROVE  NothingLostOrReordered'
<1> USE DEF history
<1>1. /\ add[c] \in Calls
      /\ run[c] \in Threads
      /\ queue[c] \in Seq(Messages)
      /\ msg_queue \in {c, NULL}
      /\ c # NULL
  BY Records
<1>2. /\ queue \in [Callers -> Seq(Messages)]
      /\ run \in [Callers -> Threads]
      /\ pushed \in Seq(Messages)
      /\ accepted \in Seq(Messages)
  BY DEF TypeOK
<1>3. "poll" \in RunPoints /\ "idle" \in RunPoints /\ "wait" \in RunPoints
  BY DEF RunPoints
<1>4. run[c].pc # "off" => msg_queue = c
  BY <1>1 DEF StartUp
<1>5. msg_queue = c => accepted = pushed \o (InHand(c) \o queue[c])
  BY <1>1 DEF NothingLostOrReordered, Waiting
<1>6. ASSUME UNCHANGED <<msg_queue, queue, accepted, pushed>>,
             \/ UNCHANGED run
             \/ run[c].pc # "push" /\ run'[c].pc # "push"
      PROVE  NothingLostOrReordered'
  <2>1. msg_queue = c => InHand(c)' = InHand(c)
    BY <1>6 DEF InHand
  <2>2. Waiting' = Waiting
    BY <1>1, <1>6, <2>1 DEF Waiting
  <2>3. QED
    BY <1>6, <2>2 DEF NothingLostOrReordered
<1>7. CASE AddCreateQueue(c)
  <2>1. msg_queue = NULL /\ run[c].pc = "off" /\ pushed = <<>> /\ accepted = <<>>
    BY <1>7 DEF AddCreateQueue, StartUp
  <2>2. queue[c] = <<>>
    BY <2>1 DEF StartUp
  <2>3. Waiting' = <<>>
    <3>1. msg_queue' = c /\ UNCHANGED <<queue, run>>
      BY <1>7 DEF AddCreateQueue
    <3>2. InHand(c)' = <<>>
      BY <2>1, <3>1 DEF InHand
    <3>3. <<>> \o <<>> = <<>>
      BY EmptySeq, ConcatEmptySeq
    <3>4. QED
      BY <1>1, <2>2, <3>1, <3>2, <3>3 DEF Waiting
  <2>4. QED
    BY <1>7, <2>1, <2>3 DEF AddCreateQueue, NothingLostOrReordered
<1>8. CASE AddEnqueue(c)
  <2> DEFINE m == add[c].msg
  <2>1. msg_queue = c /\ m \in Messages
    BY <1>8 DEF AddEnqueue, StartUp
  <2>2. InHand(c) \in Seq(Messages)
    BY EmptySeq DEF InHand, StartUp
  <2>3. queue'[c] = Append(queue[c], m)
    BY <1>2, <1>8, <2>1 DEF AddEnqueue
  <2>4. Waiting' = InHand(c) \o Append(queue[c], m)
    BY <1>1, <1>8, <2>1, <2>3 DEF AddEnqueue, Waiting, InHand
  <2>5. accepted' = Append(pushed \o (InHand(c) \o queue[c]), m)
    BY <1>5, <1>8, <2>1 DEF AddEnqueue
  <2>6. Append(pushed \o (InHand(c) \o queue[c]), m)
          = pushed \o (InHand(c) \o Append(queue[c], m))
    <3> HIDE DEF m
    <3>1. ASSUME NEW s \in Seq(Messages), NEW t \in Seq(Messages)
          PROVE  Append(s \o t, m) = s \o Append(t, m)
      BY <2>1
    <3>2. InHand(c) \o queue[c] \in Seq(Messages)
      BY <1>1, <2>2, ConcatProperties
    <3>3. Append(pushed \o (InHand(c) \o queue[c]), m)
            = pushed \o Append(InHand(c) \o queue[c], m)
      BY <1>2, <3>1, <3>2
    <3>4. Append(InHand(c) \o queue[c], m) = InHand(c) \o Append(queue[c], m)
      BY <1>1, <2>2, <3>1
    <3>5. QED
      BY <3>3, <3>4
  <2>7. pushed' = pushed
    BY <1>8 DEF AddEnqueue
  <2>8. QED
    BY <2>4, <2>5, <2>6, <2>7 DEF NothingLostOrReordered
<1>9. CASE RunDequeue(c)
  <2> DEFINE q == queue[c]
  <2>1. msg_queue = c /\ q # <<>>
    BY <1>4, <1>9 DEF RunDequeue
  <2>2. InHand(c) = <<>>
    BY <1>9 DEF RunDequeue, InHand
  <2>3. InHand(c)' = <<Head(q)>> /\ queue'[c] = Tail(q)
    BY <1>2, <1>9, <2>1 DEF RunDequeue, InHand
  <2>4. <<Head(q)>> \o Tail(q) = <<>> \o q
    BY <1>1, <2>1
  <2>5. Waiting' = <<Head(q)>> \o Tail(q)
    BY <1>1, <1>9, <2>1, <2>3 DEF RunDequeue, Waiting
  <2>6. Waiting = <<>> \o q
    BY <1>1, <2>1, <2>2 DEF Waiting
  <2>7. QED
    BY <1>9, <2>4, <2>5, <2>6 DEF RunDequeue, NothingLostOrReordered
<1>10. CASE RunPush(c)
  <2> DEFINE m == run[c].qmsg
  <2>1. msg_queue = c /\ m \in Messages
    BY <1>4, <1>10 DEF RunPush, StartUp
  <2>2. InHand(c) = <<m>>
    BY <1>10 DEF RunPush, InHand
  <2>3. InHand(c)' = <<>> /\ pushed' = Append(pushed, m)
    BY <1>2, <1>10 DEF RunPush, InHand
  <2>4. UNCHANGED <<msg_queue, queue, accepted>>
    BY <1>10 DEF RunPush
  <2>5. Waiting' = <<>> \o queue[c]
    BY <1>1, <2>1, <2>3, <2>4 DEF Waiting
  <2>6. pushed \o (<<m>> \o queue[c]) = Append(pushed, m) \o (<<>> \o queue[c])
    <3> HIDE DEF m
    <3>1. <<m>> \in Seq(Messages)
      BY <2>1
    <3>2. (pushed \o <<m>>) \o queue[c] = pushed \o (<<m>> \o queue[c])
      BY <1>1, <1>2, <3>1, ConcatAssociative
    <3>3. Append(pushed, m) = pushed \o <<m>>
      BY <1>2, <2>1, AppendIsConcat
    <3>4. <<>> \o queue[c] = queue[c]
      BY <1>1, ConcatEmptySeq
    <3>5. QED
      BY <3>2, <3>3, <3>4
  <2>7. QED
    BY <1>5, <2>1, <2>2, <2>3, <2>4, <2>5, <2>6 DEF NothingLostOrReordered
<1>11. CASE AddStartThread(c)
  <2>1. run[c].pc # "push" /\ run'[c].pc # "push"
    BY <1>3, <1>11, RunGoesTo DEF AddStartThread, StartUp
  <2>2. QED
    BY <1>6, <1>11, <2>1 DEF AddStartThread
<1>12. CASE RunNoMessage(c) \/ RunArmTimer(c) \/ RunTick(c) \/ RunSleep(c)
  <2>1. run[c].pc # "push" /\ run'[c].pc # "push"
    BY <1>12, RunGoesTo DEF RunNoMessage, RunArmTimer, RunTick, RunSleep, RunPoints
  <2>2. UNCHANGED <<msg_queue, queue, accepted, pushed>>
    BY <1>12 DEF RunNoMessage, RunArmTimer, RunTick, RunSleep
  <2>3. QED
    BY <1>6, <2>1, <2>2
<1>13. CASE \/ AddCall(c) \/ AddReadAlertDelay(c) \/ AddReadAcceptDelay(c)
            \/ AddRefused(c) \/ SetAccept \/ SetDelay
  <2>1. UNCHANGED <<msg_queue, queue, accepted, pushed, run>>
    BY <1>13 DEF AddCall, AddReadAlertDelay, AddReadAcceptDelay, AddRefused,
                 SetAccept, SetDelay
  <2>2. QED
    BY <1>6, <2>1
<1>14. QED
  BY OneCallerNext, <1>7, <1>8, <1>9, <1>10, <1>11, <1>12, <1>13

\* What has been pushed was taken before.
LEMMA PushedWasAccepted ==
  ASSUME NEW c, Callers = {c}, TypeOK, StartUp(c), NothingLostOrReordered, pushed # <<>>
  PROVE  accepted # <<>>
<1>1. queue[c] \in Seq(Messages) /\ msg_queue \in {c, NULL} /\ c # NULL
  BY Records
<1>2. <<>> \in Seq(Messages) /\ InHand(c) \in Seq(Messages)
  BY EmptySeq DEF InHand, StartUp
<1>3. Waiting \in Seq(Messages)
  BY <1>1, <1>2, ConcatProperties DEF Waiting
<1>4. pushed \in Seq(Messages) /\ Len(pushed) > 0
  BY EmptySeq DEF TypeOK
<1>5. Len(accepted) = Len(pushed) + Len(Waiting) /\ Len(Waiting) \in Nat
  BY <1>3, <1>4, ConcatProperties, LenProperties DEF NothingLostOrReordered
<1>6. QED
  BY <1>4, <1>5, EmptySeq

\* Steps keep the account of the time slept and the time left.
LEMMA TimeStep ==
  ASSUME NEW c, Callers = {c}, TypeOK, StartUp(c), TimeKept(c), NothingLostOrReordered, Next
  PROVE  TimeKept(c)'
<1> USE DEF history, AtLeastOne
<1>1. /\ add[c] \in Calls
      /\ run[c] \in Threads
      /\ run \in [Callers -> Threads]
      /\ timer \in Int
      /\ sincePush \in Nat /\ sincePush <= Horizon
      /\ interval \in Nat
      /\ pushed \in Seq(Messages)
      /\ ALERT_DELAY \in Nat /\ ACCEPT_DELAY \in Nat
      /\ Horizon \in Nat /\ Horizon > ALERT_DELAY
  BY MsgQueueAssumption, Records DEF TypeOK
<1>2. "poll" \in RunPoints /\ "idle" \in RunPoints /\ "wait" \in RunPoints
  BY DEF RunPoints
<1>3. interval <= ALERT_DELAY
  BY DEF TimeKept
<1>4. CASE \/ AddCall(c) \/ AddCreateQueue(c) \/ AddReadAlertDelay(c)
           \/ AddReadAcceptDelay(c) \/ AddEnqueue(c) \/ AddRefused(c) \/ SetAccept
  <2>1. UNCHANGED <<run, timer, pushed, sincePush, interval>>
    BY <1>4 DEF AddCall, AddCreateQueue, AddReadAlertDelay, AddReadAcceptDelay,
                AddEnqueue, AddRefused, SetAccept
  <2>2. QED
    BY <2>1 DEF TimeKept, TimeLeft
<1>5. CASE AddStartThread(c)
  <2>1. run[c].pc = "off" /\ run'[c].pc = "poll"
    BY <1>2, <1>5, RunGoesTo DEF AddStartThread, StartUp
  <2>2. UNCHANGED <<pushed, sincePush, interval, timer>>
    BY <1>5 DEF AddStartThread
  <2>3. QED
    BY <2>1, <2>2 DEF TimeKept, TimeLeft
<1>6. CASE RunDequeue(c)
  <2>1. run[c].pc = "poll" /\ run'[c].pc = "push"
    BY <1>1, <1>6 DEF RunDequeue
  <2>2. UNCHANGED <<pushed, sincePush, interval, timer>>
    BY <1>6 DEF RunDequeue
  <2>3. QED
    BY <2>1, <2>2 DEF TimeKept, TimeLeft
<1>7. CASE RunNoMessage(c)
  <2>1. run[c].pc = "poll" /\ run'[c].pc = "idle"
    BY <1>2, <1>7, RunGoesTo DEF RunNoMessage
  <2>2. UNCHANGED <<pushed, sincePush, interval, timer>>
    BY <1>7 DEF RunNoMessage
  <2>3. QED
    BY <2>1, <2>2 DEF TimeKept, TimeLeft
<1>8. CASE RunPush(c)
  <2>1. run[c].qmsg \in Messages
    BY <1>8 DEF RunPush, StartUp
  <2>2. pushed' # <<>>
    BY <1>1, <1>8, <2>1, AppendProperties DEF RunPush
  <2>3. run'[c].pc = "arm" /\ interval' = ALERT_DELAY
    BY <1>1, <1>8 DEF RunPush
  <2>4. QED
    BY <1>1, <2>2, <2>3 DEF TimeKept
<1>9. CASE RunArmTimer(c)
  <2>1. run[c].pc = "arm" /\ run'[c].pc = "wait"
    BY <1>2, <1>9, RunGoesTo DEF RunArmTimer
  <2>2. add[c].pc \notin {"create", "thread", "alert_delay"} /\ msg_queue # NULL
    <3>1. pushed # <<>>
      BY <2>1 DEF TimeKept
    <3>2. msg_queue # NULL
      BY <2>1 DEF StartUp
    <3>3. accepted # <<>>
      BY <3>1, PushedWasAccepted
    <3>4. QED
      BY <3>2, <3>3, <2>1 DEF StartUp
  <2>3. timer' = ALERT_DELAY
    BY <1>1, <1>9, <2>2 DEF RunArmTimer, StartUp, Calls, AddPoints
  <2>4. UNCHANGED <<pushed, sincePush, interval>>
    BY <1>9 DEF RunArmTimer
  <2>5. QED
    BY <1>1, <1>3, <2>1, <2>3, <2>4 DEF TimeKept, TimeLeft
<1>10. CASE RunTick(c)
  <2>1. /\ run[c].pc = "wait"
        /\ run'[c].pc = IF timer - 1 <= 0 THEN "last" ELSE "pause"
        /\ timer' = timer - 1
    BY <1>10, RunGoesTo DEF RunTick, RunPoints
  <2>2. UNCHANGED <<pushed, sincePush, interval>>
    BY <1>10 DEF RunTick
  <2>3. pushed # <<>> => sincePush + (IF timer > 1 THEN timer ELSE 1) >= AtLeastOne(interval)
    BY <2>1 DEF TimeKept, TimeLeft
  <2>4. CASE timer - 1 <= 0
    <3>1. run'[c].pc = "last" /\ TimeLeft(c)' = 1
      BY <2>1, <2>4 DEF TimeLeft
    <3>2. ~(timer > 1)
      BY <1>1, <2>4
    <3>3. pushed # <<>> => sincePush + 1 >= AtLeastOne(interval)
      BY <2>3, <3>2
    <3>4. QED
      BY <1>3, <2>2, <3>1, <3>3 DEF TimeKept
  <2>5. CASE timer - 1 > 0
    <3>1. run'[c].pc = "pause" /\ TimeLeft(c)' >= timer
      BY <1>1, <2>1, <2>5 DEF TimeLeft
    <3>2. TimeLeft(c)' \in Int
      BY <1>1, <2>1, <3>1 DEF TimeLeft
    <3>3. pushed # <<>> => sincePush + timer >= AtLeastOne(interval)
      BY <1>1, <2>3, <2>5
    <3>4. QED
      BY <1>1, <1>3, <2>2, <3>1, <3>2, <3>3 DEF TimeKept
  <2>6. QED
    BY <1>1, <2>4, <2>5
<1>11. CASE RunSleep(c)
  <2>1. /\ run[c].pc \in {"pause", "last", "idle"}
        /\ run'[c].pc = IF run[c].pc = "pause" THEN "wait" ELSE "poll"
    BY <1>11, RunGoesTo DEF RunSleep, RunPoints
  <2>2. sincePush' = IF sincePush < Horizon THEN sincePush + 1 ELSE sincePush
    BY <1>11 DEF RunSleep, Later
  <2>3. UNCHANGED <<pushed, timer, interval>>
    BY <1>11 DEF RunSleep
  <2>4. AtLeastOne(interval) <= Horizon
    BY <1>1, <1>3
  <2>5. CASE run[c].pc = "pause"
    <3>1. run'[c].pc = "wait" /\ TimeLeft(c)' = IF timer > 1 THEN timer ELSE 1
      BY <2>1, <2>3, <2>5 DEF TimeLeft
    <3>2. pushed # <<>>
            => sincePush + (IF timer > 1 THEN 1 + timer ELSE 2) >= AtLeastOne(interval)
      BY <2>5 DEF TimeKept, TimeLeft
    <3>3. pushed # <<>>
            => sincePush' + (IF timer > 1 THEN timer ELSE 1) >= AtLeastOne(interval)
      BY <1>1, <2>2, <2>4, <3>2
    <3>4. QED
      BY <1>3, <2>3, <3>1, <3>3 DEF TimeKept
  <2>6. CASE run[c].pc = "last"
    BY <1>1, <1>3, <2>1, <2>2, <2>3, <2>4, <2>6 DEF TimeKept, TimeLeft
  <2>7. CASE run[c].pc = "idle"
    BY <1>1, <1>3, <2>1, <2>2, <2>3, <2>4, <2>7 DEF TimeKept, TimeLeft
  <2>8. QED
    BY <2>1, <2>5, <2>6, <2>7
<1>12. CASE SetDelay
  <2>1. UNCHANGED <<run, pushed, sincePush>>
    BY <1>12 DEF SetDelay
  <2>2. /\ timer' = setting
        /\ interval' = IF setting < interval THEN setting ELSE interval
        /\ setting \in Nat
    BY <1>1, <1>12 DEF SetDelay, TypeOK, NotSetting
  <2>3. interval' <= interval /\ interval' <= setting /\ interval' \in Nat
    BY <1>1, <2>2
  <2>4. AtLeastOne(interval') <= AtLeastOne(interval)
    BY <1>1, <2>3
  <2>5. run[c].pc \in {"wait", "pause"} => TimeLeft(c)' >= AtLeastOne(interval')
    BY <1>1, <2>1, <2>2, <2>3 DEF TimeLeft
  <2>6. run[c].pc \notin {"wait", "pause"} => TimeLeft(c)' = TimeLeft(c) /\ TimeLeft(c) \in Nat
    BY <2>1 DEF TimeLeft
  <2>7. pushed # <<>> /\ run[c].pc # "arm"
          => sincePush + TimeLeft(c)' >= AtLeastOne(interval')
    <3>1. CASE run[c].pc \in {"wait", "pause"}
      <4>1. TimeLeft(c)' \in Int
        BY <1>1, <2>2, <3>1, <2>1 DEF TimeLeft
      <4>2. QED
        BY <1>1, <2>3, <2>5, <3>1, <4>1
    <3>2. CASE run[c].pc \notin {"wait", "pause"}
      BY <1>1, <2>3, <2>4, <2>6, <3>2 DEF TimeKept
    <3>3. QED
      BY <3>1, <3>2
  <2>8. QED
    BY <1>1, <1>3, <2>1, <2>3, <2>7 DEF TimeKept
<1>13. QED
  BY OneCallerNext, <1>4, <1>5, <1>6, <1>7, <1>8, <1>9, <1>10, <1>11, <1>12

\* Every step, and every stutter, keeps the invariant.
LEMMA NextIInv ==
  ASSUME NEW c, Callers = {c}
  PROVE  IInv(c) /\ [Next]_vars => IInv(c)'
<1>1. CASE Next
  BY <1>1, TypeStep, StartUpStep, TimeStep, NothingLostStep DEF IInv
<1>2. CASE UNCHANGED vars
  BY <1>2 DEF vars, IInv, TypeOK, StartUp, TimeKept, TimeLeft, NothingLostOrReordered,
              Waiting, InHand
<1>3. QED
  BY <1>1, <1>2

-----------------------------------------------------------------------------
\* The types hold of every reachable state of msgQueue.c.
THEOREM TypeCorrect ==
  ASSUME NEW CONSTANT c, Callers = {c}
  PROVE  Spec => []TypeOK
<1>1. IInv(c) => TypeOK
  BY DEF IInv
<1>2. QED
  BY InitIInv, NextIInv, <1>1, PTL DEF Spec

\* Every alarm taken is pushed, in hand or queued, once and in order.
THEOREM NothingLost ==
  ASSUME NEW CONSTANT c, Callers = {c}
  PROVE  Spec => []NothingLostOrReordered
<1>1. IInv(c) => NothingLostOrReordered
  BY DEF IInv
<1>2. QED
  BY InitIInv, NextIInv, <1>1, PTL DEF Spec

\* Pushes are never closer than the delays in force allow.
THEOREM PacingCorrect ==
  ASSUME NEW CONSTANT c, Callers = {c}
  PROVE  Spec => []Paced
<1>1. IInv(c) => Paced
  <2> SUFFICES ASSUME IInv(c), run[c].pc = "push", pushed # <<>>
               PROVE  sincePush >= AtLeastOne(interval)
    BY DEF Paced
  <2>1. sincePush + 0 >= AtLeastOne(interval)
    BY DEF IInv, TimeKept, TimeLeft
  <2>2. QED
    BY <2>1 DEF IInv, TypeOK
<1>2. QED
  BY InitIInv, NextIInv, <1>1, PTL DEF Spec

=============================================================================
