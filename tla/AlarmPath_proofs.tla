-------------------------- MODULE AlarmPath_proofs --------------------------
(***************************************************************************)
(* Theorems about AlarmPath.tla, for any number of phones and alarms, any  *)
(* capacity of the queue, any delays, and accepts, phones and templates    *)
(* that come, go and fail at any time.                                     *)
(*                                                                         *)
(* ServedCorrect has an argument of two halves.  msgQueue.c's timer,       *)
(* whoever has set it, keeps the run thread from the next alert for as     *)
(* long as the shortest delay that was asked for (Apart); when that is     *)
(* longer than a sender lives, the senders of the last alert are gone.     *)
(* And while no push begins with senders of another about that still read  *)
(* what it writes, each sender carries one page of those that are still to *)
(* be sent (Carrying).  Once a push has begun too early, or been disturbed *)
(* (Fine), only the first half goes on.                                    *)
(* AcceptHeededCorrect needs the start-up and the timer alone.             *)
(*                                                                         *)
(* The types (TypeCorrect): the queue's, the senders' and the handler's    *)
(* are invariants of their own, each of which needs little of the others.  *)
(***************************************************************************)
EXTENDS AlarmPath, TLAPS, WellFoundedInduction

\* What ServedCorrect assumes besides the constants' assumption: addresses none
\* of which begins another, and a table that fits msgs.
Calm ==
  /\ PrefixPairs = {}
  /\ NPhones <= MAX_SPPHONES

\* No push has been disturbed, and no alert has begun too early.
Fine == ~disturbed /\ ~hurried

-----------------------------------------------------------------------------
(* The start-up, and the run thread.                                       *)

Ready == alert_delay = ALERT_DELAY /\ accept_delay = ACCEPT_DELAY

\* The shape of what the steps of the queue change.
QueueShape ==
  /\ add = [c \in {Host} |-> [pc |-> add[Host].pc, msg |-> add[Host].msg]]
  /\ run = [c \in {Host} |-> [pc |-> run[Host].pc, qmsg |-> run[Host].qmsg]]
  /\ queue = [c \in {Host} |-> queue[Host]]
  /\ add[Host].pc \in Q!AddPoints /\ run[Host].pc \in Q!RunPoints
  /\ msg_queue \in {Host, NULL}
  /\ timer \in Int
  /\ sincePush \in 0 .. Horizon /\ sinceAccept \in 0 .. Horizon
  /\ interval \in Nat /\ interval <= ALERT_DELAY

\* Both delays have been read before anything is queued, and so before
\* anything is pushed, sent or accepted.
Started ==
  /\ add[Host].pc \in {"thread", "alert_delay", "accept_delay", "enqueue"} => msg_queue = Host
  /\ add[Host].pc = "create" => msg_queue = NULL
  /\ add[Host].pc \in {"create", "thread"} => run[Host].pc = "off"
  /\ run[Host].pc # "off" => msg_queue = Host
  /\ add[Host].pc = "accept_delay" => alert_delay = ALERT_DELAY
  /\ \/ Ready
     \/ /\ add[Host].pc # "enqueue"
        /\ add[Host].pc = "idle" => msg_queue = NULL
        /\ queue[Host] = <<>>
        /\ run[Host].pc \in {"off", "poll", "idle"}
        /\ handler.pc = "waiting"
        /\ caller[P!Runner].pc = "idle" /\ caller[P!Server].pc = "idle"
        /\ threads = {} /\ taken = {}
        /\ setting = Q!NotSetting
  /\ setting \in {Q!NotSetting, ACCEPT_DELAY}

QueueInv == QueueShape /\ Started

\* At start the delays are not read and nothing runs.
LEMMA InitQueue == Init => QueueInv
BY AlarmPathAssumption
DEF Init, Q!Init, P!Init, QueueInv, QueueShape, Started, Ready, Waiting,
   Q!NotAdding, Q!NotRunning, Q!NotSetting, Q!AddPoints, Q!RunPoints, P!Idle, P!Callers,
   P!Runner, P!Server

\* msgQueue_Add is called: the first call finds no queue, and creates it.
LEMMA RaiseQueue == ASSUME QueueInv, Raise PROVE QueueInv'
BY AlarmPathAssumption
DEF Raise, Q!AddCall, Q!history, QueueInv, QueueShape, Started, Ready, Q!AddPoints,
    sending, own

\* Inside the first msgQueue_Add both delays are read before its alarm is queued.
LEMMA InsideQueue == ASSUME QueueInv, InsideAdd PROVE QueueInv'
BY AlarmPathAssumption
DEF InsideAdd, Q!InsideAdd, Q!AddCreateQueue, Q!AddStartThread, Q!AddReadAlertDelay,
     Q!AddReadAcceptDelay, Q!AddEnqueue, Q!AddRefused, Q!AddGoes, Q!RunGoes,
     Q!history, QueueInv, QueueShape, Started, Ready, Q!AddPoints,
     Q!RunPoints, sending, own, Q!NotAdding

\* The two threads that push.
LEMMA PartsOfCallers ==
  P!Runner = "runner" /\ P!Server = "server" /\ P!Callers = {"runner", "server"}
BY DEF P!Runner, P!Server, P!Callers

\* Steps of the senders and the server leave the queue's state alone.
LEMMA ReadyStays == ASSUME QueueInv, Ready, UNCHANGED queueing PROVE QueueInv'
BY DEF queueing, QueueInv, QueueShape, Started, Ready

\* msgSend_PushAlert is called by a run thread, which has the delays.
LEMMA AlertQueue == ASSUME QueueInv, BeginAlert \/ InsideAlert PROVE QueueInv'
<1>1. UNCHANGED queueing
  BY DEF BeginAlert, InsideAlert
<1>2. Ready
  BY PartsOfCallers
  DEF BeginAlert, InsideAlert, P!MakeAlert, P!SetAlert, P!BuildMsg, P!NoTemplate,
      P!PushOne, QueueInv, Started
<1>3. QED
  BY <1>1, <1>2, ReadyStays

\* The run thread goes on when msgSend_PushAlert returns.
LEMMA EndAlertQueue == ASSUME QueueInv, EndAlert PROVE QueueInv'
<1>1. Ready
  BY DEF EndAlert, Q!RunPush, QueueInv, Started
<1>2. QueueShape'
  BY AlarmPathAssumption DEF EndAlert, Q!RunPush, Q!RunPoints, QueueInv, QueueShape
<1>3. Started'
  BY <1>1 DEF EndAlert, Q!RunPush, QueueInv, QueueShape, Started, Ready
<1>4. QED
  BY <1>2, <1>3 DEF QueueInv

\* The run thread takes a message, finds none, sets the timer or counts it down.
LEMMA BetweenQueue == ASSUME QueueInv, BetweenAlerts PROVE QueueInv'
BY AlarmPathAssumption, PartsOfCallers
DEF BetweenAlerts, Q!RunDequeue, Q!RunNoMessage, Q!RunArmTimer, Q!RunTick, Q!RunGoes,
    Q!history, Q!RunPoints, QueueInv, QueueShape, Started, Ready, sending, own

\* The run thread sleeps a tenth of a second.
LEMMA SleepQueue == ASSUME QueueInv, Sleep PROVE QueueInv'
<1>1. QueueShape'
  BY AlarmPathAssumption
  DEF Sleep, Q!RunSleep, Q!RunGoes, Q!Later, Q!RunPoints, QueueInv, QueueShape
<1>2. run'[Host].pc \in {"wait", "poll"} /\ (run'[Host].pc = "wait" => run[Host].pc = "pause")
  BY DEF Sleep, Q!RunSleep, Q!RunGoes, QueueInv, QueueShape
<1>3. UNCHANGED <<msg_queue, queue, alert_delay, accept_delay, add, setting, handler, caller, taken>>
  BY DEF Sleep, Q!RunSleep, P!Tick, P!ghosts, sending, own
<1>4. threads = {} => threads' = {}
  BY DEF Sleep, sending
<1>5. run[Host].pc \in {"pause", "last", "idle"}
  BY DEF Sleep, Q!RunSleep
<1>6. Started'
  BY <1>2, <1>3, <1>4, <1>5 DEF QueueInv, Started, Ready
<1>7. QED
  BY <1>1, <1>6 DEF QueueInv

\* The activate handler sets the timer with a delay that has been read, as there
\* is no alert to accept before.
LEMMA AcceptQueue ==
  ASSUME QueueInv, (\E a \in Alarms, ip \in IPs : BeginAccept(a, ip)) \/ Handling
  PROVE  QueueInv'
<1>1. CASE \E a \in Alarms, ip \in IPs : BeginAccept(a, ip)
  BY <1>1, ReadyStays DEF BeginAccept, P!PushAccept, QueueInv, Started
<1>2. CASE InsideAccept \/ EndAccept
  BY <1>2, ReadyStays, PartsOfCallers
  DEF InsideAccept, EndAccept, P!MakeAccept, P!SetAccept, P!BuildMsg, P!NoTemplate,
      P!PushOne,
      P!AcceptPushed, QueueInv, Started
<1>3. CASE ReadDelay \/ SetDelay
  <2>1. QueueShape'
    BY <1>3, AlarmPathAssumption
    DEF ReadDelay, SetDelay, Q!SetAccept, Q!SetDelay, Q!history, QueueInv, QueueShape,
        Started
  <2>2. setting' \in {Q!NotSetting, ACCEPT_DELAY}
    BY <1>3 DEF ReadDelay, SetDelay, Q!SetAccept, Q!SetDelay, QueueInv, Started, Ready
  <2>6. Ready
    BY <1>3 DEF ReadDelay, SetDelay, Q!SetDelay, QueueInv, Started
  <2>3. UNCHANGED <<msg_queue, queue, alert_delay, accept_delay, add, run, caller, threads, taken>>
    BY <1>3 DEF ReadDelay, SetDelay, Q!SetAccept, Q!SetDelay, Q!history, sending
  <2>4. Started'
    BY <2>2, <2>3, <2>6 DEF QueueInv, Started, Ready
  <2>5. QED
    BY <2>1, <2>4 DEF QueueInv
<1>4. CASE Ack
  BY <1>4, ReadyStays DEF Ack, QueueInv, Started
<1>5. QED
  BY <1>1, <1>2, <1>3, <1>4 DEF Handling

\* Threads send only what was pushed.
LEMMA SendingQueue == ASSUME QueueInv, SomeSending PROVE QueueInv'
BY ReadyStays DEF SomeSending, Sending, QueueInv, Started

\* Each step keeps the queue's part of the invariant.
LEMMA NextQueue == ASSUME QueueInv, [Next]_vars PROVE QueueInv'
<1>1. CASE UNCHANGED vars
  BY <1>1 DEF vars, queueing, sending, own, QueueInv, QueueShape, Started, Ready
<1>2. QED
  BY <1>1, RaiseQueue, InsideQueue, AlertQueue, EndAlertQueue, BetweenQueue,
     SleepQueue, AcceptQueue, SendingQueue
  DEF Next, RunThread

-----------------------------------------------------------------------------
(* What the history remembers.                                             *)

LEMMA NextHistory == ASSUME P!HistoryOK, [Next]_vars PROVE P!HistoryOK'
<1>1. CASE UNCHANGED <<sent, taken, disturbed>>
  BY <1>1 DEF P!HistoryOK
<1>2. ASSUME NEW well \in BOOLEAN, P!Timed(well) PROVE P!HistoryOK'
  <2>1. disturbed' \in BOOLEAN
    BY <1>2 DEF P!Timed
  <2>2. QED
    BY <1>2, <2>1 DEF P!Timed, P!HistoryOK
<1>3. P!Alone \in BOOLEAN /\ (P!Alone /\ P!Settled) \in BOOLEAN
  BY DEF P!Alone, P!Settled
<1>4. CASE BeginAlert \/ \E a \in Alarms, ip \in IPs : BeginAccept(a, ip)
  BY <1>2, <1>3, <1>4 DEF BeginAlert, BeginAccept, P!PushAlert, P!PushAccept
<1>5. CASE P!MakeAlert \/ P!MakeAccept
  BY <1>1, <1>2, <1>5
  DEF P!MakeAlert, P!MakeAccept, P!SetAlert, P!SetAccept, P!BuildMsg, P!NoTemplate, P!ghosts
<1>6. CASE SomeSending
  BY <1>1, <1>6
  DEF SomeSending, Sending, P!ReadAddress, P!ReadMessage, P!Post, P!ghosts, P!HistoryOK
<1>7. CASE \/ P!PushOne(P!Runner) \/ P!PushOne(P!Server) \/ P!AlertPushed \/ P!AcceptPushed
           \/ Sleep \/ UNCHANGED sending
  BY <1>1, <1>7
  DEF P!PushOne, P!AlertPushed, P!AcceptPushed, Sleep, P!Tick, P!ghosts, sending
<1>8. QED
  BY <1>4, <1>5, <1>6, <1>7
  DEF Next, RunThread, Handling, Raise, InsideAdd, InsideAlert, EndAlert, BetweenAlerts,
      InsideAccept, EndAccept, ReadDelay, SetDelay, Ack, vars

\* What has been disturbed remains so, as has what came too early.
LEMMA FineBefore ==
  ASSUME [Next]_vars, Fine'
  PROVE  /\ Fine
         /\ BeginAlert => P!Alone /\ (pushed = <<>> \/ ~ (interval <= TIMEOUT))
         /\ \A a \in Alarms, ip \in IPs : BeginAccept(a, ip) => P!Alone /\ P!Settled
         /\ \A c, from, to : ~P!NoTemplate(c, from, to)
<1>1. ~hurried /\ (BeginAlert => pushed = <<>> \/ ~ (interval <= TIMEOUT))
  <2>1. CASE BeginAlert
    <3>1. hurried' <=> (hurried \/ (pushed # <<>> /\ interval <= TIMEOUT))
      BY <2>1 DEF BeginAlert
    <3>2. QED
      BY <3>1 DEF Fine
  <2>2. CASE ~BeginAlert
    <3>1. hurried' = hurried
      BY <2>2 DEF Next, Raise, InsideAdd, RunThread, InsideAlert, EndAlert, BetweenAlerts, Sleep,
         BeginAccept, Handling, InsideAccept, EndAccept, ReadDelay, SetDelay, Ack, SomeSending,
         Sending, vars, own
    <3>2. QED
      BY <2>2, <3>1 DEF Fine
  <2>3. QED
    BY <2>1, <2>2
<1>2. ASSUME NEW well, P!Timed(well) PROVE ~disturbed /\ well
  BY <1>2 DEF P!Timed, Fine
<1>3. BeginAlert => P!Alone
  BY <1>2 DEF BeginAlert, P!PushAlert
<1>4. \A a \in Alarms, ip \in IPs : BeginAccept(a, ip) => P!Alone /\ P!Settled
  BY <1>2 DEF BeginAccept, P!PushAccept
<1>5. \A c, from, to : ~P!NoTemplate(c, from, to)
  BY <1>2 DEF P!NoTemplate
<1>6. ~disturbed
  <2>1. disturbed' = disturbed \/ \E well : P!Timed(well)
    BY DEF Next, Raise, InsideAdd, RunThread, BeginAlert, InsideAlert, EndAlert, BetweenAlerts,
       Sleep, BeginAccept, Handling, InsideAccept, EndAccept, ReadDelay, SetDelay, Ack, SomeSending,
       Sending, vars, sending, P!PushAlert, P!PushAccept, P!MakeAlert, P!MakeAccept, P!SetAlert,
       P!SetAccept, P!BuildMsg, P!NoTemplate, P!PushOne, P!AlertPushed, P!AcceptPushed,
       P!ReadAddress, P!ReadMessage, P!Post, P!Tick, P!ghosts
  <2>2. QED
    BY <1>2, <2>1 DEF Fine
<1>7. QED
  BY <1>1, <1>3, <1>4, <1>5, <1>6 DEF Fine

-----------------------------------------------------------------------------
(* The shape of what the steps of the senders change.                      *)

CallerShape ==
  /\ caller = [c \in P!Callers |-> caller[c]]
  /\ \A c \in P!Callers :
       /\ caller[c] = [pc |-> caller[c].pc, alarm |-> caller[c].alarm,
                       special_ip |-> caller[c].special_ip,
                       sptr |-> caller[c].sptr, msgIndex |-> caller[c].msgIndex]
       /\ caller[c].sptr \in P!Slots \union {P!Start}
       /\ caller[c].msgIndex \in 0 .. caller[c].sptr + 1

ThreadShape ==
  \A t \in threads :
    /\ t = [by |-> t.by, index |-> t.index, pc |-> t.pc, ip |-> t.ip, msg |-> t.msg,
            age |-> t.age]
    /\ t.by \in P!Callers
    /\ t.pc \in {"created", "addressed", "posting"}
    /\ t.index \in DOMAIN msgs
    /\ t.age \in 0 .. TIMEOUT

BufferShape ==
  /\ msgs = [i \in 0 .. MAX_SPPHONES - 1 |-> msgs[i]]
  /\ msgBuf = [b \in {"alert", "accept", "accept2"} |-> msgBuf[b]]

Shape == CallerShape /\ ThreadShape /\ BufferShape

\* The least element of a nonempty set of natural numbers.
LEMMA MinOf ==
  ASSUME NEW S \in SUBSET Nat, S # {}
  PROVE  P!Min(S) \in S /\ \A y \in S : P!Min(S) <= y
<1>1. PICK x \in S : \A y \in S : ~ (<<y, x>> \in OpToRel(<, Nat))
  BY WFMin, NatLessThanWellFounded
<1>2. ASSUME NEW y \in S PROVE x <= y
  <2>1. y < x => <<y, x>> \in OpToRel(<, Nat)
    BY DEF OpToRel
  <2>2. ~ (y < x)
    BY <1>1, <2>1
  <2>3. QED
    BY <2>2
<1>3. QED
  BY <1>2 DEF P!Min

\* spRec_GetNextRecord moves forward.
LEMMA NextRecord ==
  ASSUME NEW s \in P!Slots \union {P!Start}, P!GetNextRecord(s) # P!NoRecord
  PROVE  P!GetNextRecord(s) \in P!Slots /\ P!GetNextRecord(s) > s
<1> DEFINE ahead == {j \in P!Slots : j > s /\ P!Used(j)}
<1>1. ahead # {} /\ P!GetNextRecord(s) = P!Min(ahead)
  BY DEF P!GetNextRecord
<1>2. ahead \in SUBSET Nat
  BY AlarmPathAssumption DEF P!Slots
<1>3. P!GetNextRecord(s) \in ahead
  BY <1>1, <1>2, MinOf
<1>4. QED
  BY <1>3

\* At start nobody pushes or sends.
LEMMA InitShape == Init => Shape
BY AlarmPathAssumption
DEF Init, P!Init, P!Idle, P!Callers, P!Slots, P!Start, Shape, CallerShape,
    ThreadShape, BufferShape

\* A push begins at the start of the table and of msgs.
LEMMA AlertBegun ==
  ASSUME NEW pc, NEW a
  PROVE  [P!Idle EXCEPT !.pc = pc, !.alarm = a]
           = [pc |-> pc, alarm |-> a, special_ip |-> NULL, sptr |-> P!Start, msgIndex |-> 0]
<1> DEFINE u == [P!Idle EXCEPT !.pc = pc, !.alarm = a]
<1>1. u = [k \in {"pc", "alarm", "special_ip", "sptr", "msgIndex"} |-> u[k]]
  BY DEF P!Idle
<1>2. u.pc = pc /\ u.alarm = a /\ u.special_ip = NULL /\ u.sptr = P!Start /\ u.msgIndex = 0
  BY DEF P!Idle
<1> HIDE DEF u
<1>3. u = [pc |-> pc, alarm |-> a, special_ip |-> NULL, sptr |-> P!Start, msgIndex |-> 0]
  BY <1>1, <1>2
<1>4. QED
  BY <1>3 DEF u

\* The same of a push of an accept, which knows who accepted.
LEMMA AcceptBegun ==
  ASSUME NEW pc, NEW a, NEW ip
  PROVE  [P!Idle EXCEPT !.pc = pc, !.alarm = a, !.special_ip = ip]
           = [pc |-> pc, alarm |-> a, special_ip |-> ip, sptr |-> P!Start, msgIndex |-> 0]
<1> DEFINE u == [P!Idle EXCEPT !.pc = pc, !.alarm = a, !.special_ip = ip]
<1>1. u = [k \in {"pc", "alarm", "special_ip", "sptr", "msgIndex"} |-> u[k]]
  BY DEF P!Idle
<1>2. u.pc = pc /\ u.alarm = a /\ u.special_ip = ip /\ u.sptr = P!Start /\ u.msgIndex = 0
  BY DEF P!Idle
<1> HIDE DEF u
<1>3. u = [pc |-> pc, alarm |-> a, special_ip |-> ip, sptr |-> P!Start, msgIndex |-> 0]
  BY <1>1, <1>2
<1>4. QED
  BY <1>3 DEF u

\* What the beginning of a push changes.
LEMMA BeginStep ==
  ASSUME CallerShape
  PROVE  /\ BeginAlert =>
              /\ caller' = [d \in P!Callers |->
                              IF d = P!Runner
                                THEN [pc |-> "alert", alarm |-> run[Host].qmsg.alarm,
                                      special_ip |-> NULL, sptr |-> P!Start, msgIndex |-> 0]
                                ELSE caller[d]]
         /\ \A a, ip : BeginAccept(a, ip) =>
              /\ caller' = [d \in P!Callers |->
                              IF d = P!Server
                                THEN [pc |-> "accept", alarm |-> a,
                                      special_ip |-> ip, sptr |-> P!Start, msgIndex |-> 0]
                                ELSE caller[d]]
<1>1. ASSUME BeginAlert
      PROVE  caller' = [d \in P!Callers |->
                          IF d = P!Runner
                            THEN [pc |-> "alert", alarm |-> run[Host].qmsg.alarm,
                                  special_ip |-> NULL, sptr |-> P!Start, msgIndex |-> 0]
                            ELSE caller[d]]
  <2> DEFINE r == [P!Idle EXCEPT !.pc = "alert", !.alarm = run[Host].qmsg.alarm]
  <2>1. caller' = [caller EXCEPT ![P!Runner] = r]
    BY <1>1 DEF BeginAlert, P!PushAlert
  <2>2. r = [pc |-> "alert", alarm |-> run[Host].qmsg.alarm,
             special_ip |-> NULL, sptr |-> P!Start, msgIndex |-> 0]
    BY AlertBegun
  <2> HIDE DEF r
  <2>3. QED
    BY <2>1, <2>2, PartsOfCallers DEF CallerShape
<1>2. ASSUME NEW a, NEW ip, BeginAccept(a, ip)
      PROVE  caller' = [d \in P!Callers |->
                          IF d = P!Server
                            THEN [pc |-> "accept", alarm |-> a,
                                  special_ip |-> ip, sptr |-> P!Start, msgIndex |-> 0]
                            ELSE caller[d]]
  <2> DEFINE r == [P!Idle EXCEPT !.pc = "accept", !.alarm = a, !.special_ip = ip]
  <2>1. caller' = [caller EXCEPT ![P!Server] = r]
    BY <1>2 DEF BeginAccept, P!PushAccept
  <2>2. r = [pc |-> "accept", alarm |-> a,
             special_ip |-> ip, sptr |-> P!Start, msgIndex |-> 0]
    BY AcceptBegun
  <2> HIDE DEF r
  <2>3. QED
    BY <2>1, <2>2, PartsOfCallers DEF CallerShape
<1>3. QED
  BY <1>1, <1>2

\* Beginning a push keeps the shape of the state.
LEMMA BeginShape ==
  ASSUME Shape, BeginAlert \/ \E a \in Alarms, ip \in IPs : BeginAccept(a, ip)
  PROVE  Shape'
<1>1. \E c \in P!Callers : \E pc, a, ip :
        caller' = [d \in P!Callers |->
                     IF d = c THEN [pc |-> pc, alarm |-> a, special_ip |-> ip,
                                    sptr |-> P!Start, msgIndex |-> 0]
                     ELSE caller[d]]
  <2>1. CASE BeginAlert
    BY <2>1, BeginStep, PartsOfCallers DEF Shape
  <2>2. CASE \E a \in Alarms, ip \in IPs : BeginAccept(a, ip)
    BY <2>2, BeginStep, PartsOfCallers DEF Shape
  <2>3. QED
    BY <2>1, <2>2
<1>2. CallerShape'
  BY <1>1 DEF Shape, CallerShape, P!Start, P!Slots
<1>3. UNCHANGED <<msgs, msgBuf, threads>>
  BY DEF BeginAlert, BeginAccept, P!PushAlert, P!PushAccept
<1>4. QED
  BY <1>2, <1>3 DEF Shape, ThreadShape, BufferShape

\* Moving a caller on changes its pc alone.
LEMMA GoesTo ==
  ASSUME CallerShape, NEW c \in P!Callers, NEW pc, P!Goes(c, pc)
  PROVE  /\ CallerShape'
         /\ caller'[c].pc = pc
         /\ caller'[c].alarm = caller[c].alarm
         /\ caller'[c].special_ip = caller[c].special_ip
         /\ caller'[c].msgIndex = caller[c].msgIndex
         /\ caller'[c].sptr = caller[c].sptr
         /\ \A d \in P!Callers : d # c => caller'[d] = caller[d]
<1> DEFINE r == [pc |-> pc, alarm |-> caller[c].alarm, special_ip |-> caller[c].special_ip,
                 sptr |-> caller[c].sptr, msgIndex |-> caller[c].msgIndex]
<1>1. caller' = [caller EXCEPT ![c] = [caller[c] EXCEPT !.pc = pc]]
  BY DEF P!Goes, CallerShape
<1>2. [caller[c] EXCEPT !.pc = pc] = r
  BY DEF CallerShape
<1>3. caller' = [d \in P!Callers |-> IF d = c THEN r ELSE caller[d]]
  BY <1>1, <1>2 DEF CallerShape
<1>4. QED
  BY <1>3 DEF CallerShape

\* Building the pages keeps the shape of the state.
LEMMA MakeShape == ASSUME Shape, P!MakeAlert \/ P!MakeAccept PROVE Shape'
<1>1. CallerShape'
  BY GoesTo, PartsOfCallers
  DEF P!MakeAlert, P!MakeAccept, P!SetAlert, P!SetAccept, P!BuildMsg, P!NoTemplate,
      Shape
<1>2. UNCHANGED <<msgs, threads>>
  BY DEF P!MakeAlert, P!MakeAccept, P!SetAlert, P!SetAccept, P!BuildMsg, P!NoTemplate
<1>3. msgBuf' = msgBuf \/ \E b, page : msgBuf' = [msgBuf EXCEPT ![b] = page]
  BY DEF P!MakeAlert, P!MakeAccept, P!SetAlert, P!SetAccept, P!BuildMsg, P!NoTemplate
<1>4. ThreadShape' /\ BufferShape'
  BY <1>2, <1>3 DEF Shape, ThreadShape, BufferShape
<1>5. QED
  BY <1>1, <1>4 DEF Shape

\* A push goes on to the next phone in the table and the next element of msgs.
LEMMA OneOn ==
  ASSUME CallerShape, NEW c \in P!Callers, P!PushOne(c)
  PROVE  LET s == P!GetNextRecord(caller[c].sptr)
             i == caller[c].msgIndex
             r == [pc |-> "push", alarm |-> caller[c].alarm, special_ip |-> caller[c].special_ip,
                   sptr |-> s, msgIndex |-> i + 1]
         IN  /\ s \in P!Slots /\ s > caller[c].sptr
             /\ caller[c].pc = "push"
             /\ caller' = [d \in P!Callers |-> IF d = c THEN r ELSE caller[d]]
             /\ CallerShape'
<1> DEFINE s == P!GetNextRecord(caller[c].sptr)
           i == caller[c].msgIndex
           r == [pc |-> "push", alarm |-> caller[c].alarm, special_ip |-> caller[c].special_ip,
                 sptr |-> s, msgIndex |-> i + 1]
<1>1. s \in P!Slots /\ s > caller[c].sptr
  BY NextRecord DEF P!PushOne, CallerShape
<1>2. i + 1 \in 0 .. s + 1
  <2>1. caller[c].sptr \in P!Slots \union {P!Start} /\ i \in 0 .. caller[c].sptr + 1
    BY DEF CallerShape
  <2> HIDE DEF s, i
  <2>2. QED
    BY <1>1, <2>1, AlarmPathAssumption DEF P!Slots, P!Start
<1>3. caller[c].pc = "push" /\ caller' = [caller EXCEPT ![c].sptr = s, ![c].msgIndex = i + 1]
  BY DEF P!PushOne
<1>4. caller' = [d \in P!Callers |-> IF d = c THEN r ELSE caller[d]]
  <2> HIDE DEF s, i
  <2> DEFINE u == [caller EXCEPT ![c].sptr = s]
  <2>1. caller' = [u EXCEPT ![c].msgIndex = i + 1]
    BY <1>3
  <2>2. /\ u = [d \in P!Callers |-> u[d]]
        /\ u[c] = [pc |-> "push", alarm |-> caller[c].alarm, special_ip |-> caller[c].special_ip,
                   sptr |-> s, msgIndex |-> i]
        /\ \A d \in P!Callers : d # c => u[d] = caller[d]
    BY <1>3 DEF CallerShape, i
  <2> HIDE DEF u
  <2>3. QED
    BY <2>1, <2>2
<1>5. CallerShape'
  <2> HIDE DEF s, i
  <2>1. QED
    BY <1>1, <1>2, <1>4 DEF CallerShape
<1> HIDE DEF s, i
<1>6. QED
  BY <1>1, <1>3, <1>4, <1>5 DEF s, i

\* What a push of one page changes.
LEMMA OnePushed ==
  ASSUME Calm, Shape, NEW c \in P!Callers, P!PushOne(c)
  PROVE  LET s == P!GetNextRecord(caller[c].sptr)
             i == caller[c].msgIndex
             buffer == IF c = P!Runner THEN "alert"
                       ELSE IF SPphones[s].ip_addr = caller[c].special_ip THEN "accept2"
                       ELSE "accept"
             t == [by |-> c, index |-> i, pc |-> "created", ip |-> NULL, msg |-> NULL, age |-> 0]
         IN  /\ i \in 0 .. MAX_SPPHONES - 1
             /\ caller[c].pc = "push"
             /\ caller'[c].pc = "push" /\ caller'[c].msgIndex = i + 1
             /\ caller'[c].alarm = caller[c].alarm
             /\ caller'[c].special_ip = caller[c].special_ip
             /\ \A d \in P!Callers : d # c => caller'[d] = caller[d]
             /\ CallerShape'
             /\ msgs' = [j \in 0 .. MAX_SPPHONES - 1 |->
                           IF j = i THEN [ip_addr |-> s, msg |-> buffer] ELSE msgs[j]]
             /\ threads' = threads \union {t}
             /\ expected' = expected \union
                              {[ip |-> SPphones[s].ip_addr, page |-> P!Meant(c, SPphones[s].ip_addr)]}
             /\ UNCHANGED <<SPphones, msgBuf, deptName, levelStr, alarmStr, sent>>
<1> DEFINE s == P!GetNextRecord(caller[c].sptr)
           i == caller[c].msgIndex
           r == [pc |-> "push", alarm |-> caller[c].alarm, special_ip |-> caller[c].special_ip,
                 sptr |-> s, msgIndex |-> i + 1]
<1>1. s \in P!Slots /\ s > caller[c].sptr /\ caller[c].pc = "push"
  BY OneOn DEF Shape
<1>2. i \in 0 .. MAX_SPPHONES - 1
  <2>1. caller[c].sptr \in P!Slots \union {P!Start} /\ i \in 0 .. caller[c].sptr + 1
    BY DEF Shape, CallerShape
  <2> HIDE DEF s, i
  <2>2. QED
    BY <1>1, <2>1, AlarmPathAssumption DEF Calm, P!Slots, P!Start
<1>3. caller' = [d \in P!Callers |-> IF d = c THEN r ELSE caller[d]] /\ CallerShape'
  BY OneOn DEF Shape
<1>4. msgs' = [j \in 0 .. MAX_SPPHONES - 1 |->
                 IF j = i THEN msgs'[i] ELSE msgs[j]]
  BY <1>2 DEF P!PushOne, Shape, BufferShape
<1>5. msgs'[i] = [ip_addr |-> s, msg |->
                   IF c = P!Runner THEN "alert"
                   ELSE IF SPphones[s].ip_addr = caller[c].special_ip THEN "accept2"
                   ELSE "accept"]
  <2>1. i \in DOMAIN msgs
    BY <1>2 DEF Shape, BufferShape
  <2>2. P!IsSpecial(caller[c].special_ip, SPphones[s].ip_addr)
          <=> SPphones[s].ip_addr = caller[c].special_ip
    BY DEF Calm, P!IsSpecial
  <2> HIDE DEF s, i
  <2>3. QED
    BY <2>1, <2>2 DEF P!PushOne, s, i
<1>6. /\ threads' = threads \union {[by |-> c, index |-> i, pc |-> "created", ip |-> NULL,
                                     msg |-> NULL, age |-> 0]}
      /\ expected' = expected \union
                       {[ip |-> SPphones[s].ip_addr, page |-> P!Meant(c, SPphones[s].ip_addr)]}
      /\ UNCHANGED <<SPphones, msgBuf, deptName, levelStr, alarmStr, sent>>
  BY DEF P!PushOne, P!build
<1> HIDE DEF s, i
<1>7. QED
  BY <1>1, <1>2, <1>3, <1>4, <1>5, <1>6 DEF s, i

\* Pushing to one phone keeps the shape of the state.
LEMMA PushOneShape == ASSUME Calm, Shape, NEW c \in P!Callers, P!PushOne(c) PROVE Shape'
<1>1. ThreadShape' /\ BufferShape'
  BY OnePushed, AlarmPathAssumption DEF Shape, ThreadShape, BufferShape
<1>2. QED
  BY OnePushed, <1>1 DEF Shape

\* The end of a push keeps the shape of the state.
LEMMA PushedShape == ASSUME Shape, P!AlertPushed \/ P!AcceptPushed PROVE Shape'
BY AlarmPathAssumption, PartsOfCallers
DEF P!AlertPushed, P!AcceptPushed, P!Idle, P!Start, Shape, CallerShape, ThreadShape,
    BufferShape

\* A thread that has read its address.
LEMMA Addressed ==
  ASSUME NEW t, NEW pc, NEW x,
         t = [by |-> t.by, index |-> t.index, pc |-> t.pc, ip |-> t.ip, msg |-> t.msg,
              age |-> t.age]
  PROVE  [t EXCEPT !.pc = pc, !.ip = x]
           = [by |-> t.by, index |-> t.index, pc |-> pc, ip |-> x, msg |-> t.msg, age |-> t.age]
<1> DEFINE u == [t EXCEPT !.pc = pc, !.ip = x]
<1>1. u = [k \in {"by", "index", "pc", "ip", "msg", "age"} |-> u[k]]
  OBVIOUS
<1>2. /\ u.by = t.by /\ u.index = t.index /\ u.pc = pc
      /\ u.ip = x /\ u.msg = t.msg /\ u.age = t.age
  OBVIOUS
<1> HIDE DEF u
<1>3. u = [by |-> t.by, index |-> t.index, pc |-> pc, ip |-> x, msg |-> t.msg, age |-> t.age]
  BY <1>1, <1>2
<1>4. QED
  BY <1>3 DEF u

\* A thread that has read its message.
LEMMA Posting ==
  ASSUME NEW t, NEW pc, NEW x,
         t = [by |-> t.by, index |-> t.index, pc |-> t.pc, ip |-> t.ip, msg |-> t.msg,
              age |-> t.age]
  PROVE  [t EXCEPT !.pc = pc, !.msg = x]
           = [by |-> t.by, index |-> t.index, pc |-> pc, ip |-> t.ip, msg |-> x, age |-> t.age]
<1> DEFINE u == [t EXCEPT !.pc = pc, !.msg = x]
<1>1. u = [k \in {"by", "index", "pc", "ip", "msg", "age"} |-> u[k]]
  OBVIOUS
<1>2. /\ u.by = t.by /\ u.index = t.index /\ u.pc = pc
      /\ u.ip = t.ip /\ u.msg = x /\ u.age = t.age
  OBVIOUS
<1> HIDE DEF u
<1>3. u = [by |-> t.by, index |-> t.index, pc |-> pc, ip |-> t.ip, msg |-> x, age |-> t.age]
  BY <1>1, <1>2
<1>4. QED
  BY <1>3 DEF u

\* What a step of a sender changes.
LEMMA SenderStep ==
  ASSUME Shape, NEW t \in threads, Sending(t)
  PROVE  /\ UNCHANGED <<SPphones, msgs, msgBuf, deptName, levelStr, alarmStr, caller, expected>>
         /\ \/ /\ t.pc = "created"
               /\ threads' = (threads \ {t}) \union
                    {[by |-> t.by, index |-> t.index, pc |-> "addressed",
                      ip |-> SPphones[msgs[t.index].ip_addr].ip_addr, msg |-> t.msg, age |-> t.age]}
               /\ sent' = sent
            \/ /\ t.pc = "addressed"
               /\ threads' = (threads \ {t}) \union
                    {[by |-> t.by, index |-> t.index, pc |-> "posting",
                      ip |-> t.ip, msg |-> msgs[t.index].msg, age |-> t.age]}
               /\ sent' = sent
            \/ /\ t.pc = "posting"
               /\ threads' = threads \ {t}
               /\ sent' = sent \union {[ip |-> t.ip, page |-> msgBuf[t.msg]]}
<1>1. t = [by |-> t.by, index |-> t.index, pc |-> t.pc, ip |-> t.ip, msg |-> t.msg,
           age |-> t.age]
  BY DEF Shape, ThreadShape
<1>2. CASE P!ReadAddress(t)
  <2> DEFINE x == SPphones[msgs[t.index].ip_addr].ip_addr
             u == [t EXCEPT !.pc = "addressed", !.ip = x]
             r == [by |-> t.by, index |-> t.index, pc |-> "addressed", ip |-> x, msg |-> t.msg,
                   age |-> t.age]
  <2>1. u = r
    <3> HIDE DEF x
    <3>1. QED
      BY <1>1, Addressed
  <2> HIDE DEF u, r
  <2>2. QED
    BY <1>2, <2>1 DEF P!ReadAddress, P!Becomes, P!ghosts, P!build, u, r
<1>3. CASE P!ReadMessage(t)
  <2> DEFINE x == msgs[t.index].msg
             u == [t EXCEPT !.pc = "posting", !.msg = x]
             r == [by |-> t.by, index |-> t.index, pc |-> "posting", ip |-> t.ip, msg |-> x,
                   age |-> t.age]
  <2>1. u = r
    <3> HIDE DEF x
    <3>1. QED
      BY <1>1, Posting
  <2> HIDE DEF u, r
  <2>2. QED
    BY <1>3, <2>1 DEF P!ReadMessage, P!Becomes, P!ghosts, P!build, u, r
<1>4. CASE P!Post(t)
  BY <1>4 DEF P!Post, P!build
<1>5. QED
  BY <1>2, <1>3, <1>4 DEF Sending

\* A thread that sends keeps the shape of the state.
LEMMA SendingShape == ASSUME Shape, NEW t \in threads, Sending(t) PROVE Shape'
<1>1. CallerShape' /\ BufferShape'
  BY SenderStep DEF Shape, CallerShape, BufferShape
<1>2. ThreadShape'
  <2>1. t.by \in P!Callers /\ t.index \in DOMAIN msgs /\ t.age \in 0 .. TIMEOUT
    BY DEF Shape, ThreadShape
  <2>2. msgs' = msgs
    BY SenderStep
  <2>3. QED
    BY <2>1, <2>2, SenderStep DEF Shape, ThreadShape
<1>3. QED
  BY <1>1, <1>2 DEF Shape

\* A sender that is older and otherwise the same.
Older(t) ==
  [by |-> t.by, index |-> t.index, pc |-> t.pc, ip |-> t.ip, msg |-> t.msg, age |-> t.age + 1]

\* Time ages every thread by one, and none beyond the time curl gives it.
LEMMA Aged ==
  ASSUME Shape, P!Tick
  PROVE  /\ \A u \in threads' : \E t \in threads : u = Older(t)
         /\ \A t \in threads : Older(t) \in threads'
         /\ \A t \in threads : t.age + 1 \in 0 .. TIMEOUT
<1>1. ASSUME NEW t \in threads PROVE [t EXCEPT !.age = @ + 1] = Older(t)
  BY DEF Shape, ThreadShape, Older
<1>2. \A t \in threads : t.age + 1 \in 0 .. TIMEOUT
  BY AlarmPathAssumption DEF P!Tick, Shape, ThreadShape
<1>3. threads' = {[t EXCEPT !.age = @ + 1] : t \in threads}
  BY DEF P!Tick
<1>4. QED
  BY <1>1, <1>2, <1>3

\* Time that passes keeps the shape of the state.
LEMMA SleepShape == ASSUME Shape, Sleep PROVE Shape'
<1>1. CASE UNCHANGED sending
  BY <1>1 DEF sending, Shape, CallerShape, ThreadShape, BufferShape
<1>2. CASE P!Tick
  <2>1. ThreadShape'
    BY <1>2, Aged DEF P!Tick, Shape, ThreadShape, Older
  <2>2. QED
    BY <1>2, <2>1 DEF P!Tick, Shape, CallerShape, BufferShape
<1>3. QED
  BY <1>1, <1>2 DEF Sleep

\* What leaves the senders alone keeps the shape of their state.
LEMMA RestShape == ASSUME Shape, UNCHANGED sending PROVE Shape'
BY DEF sending, Shape, CallerShape, ThreadShape, BufferShape

-----------------------------------------------------------------------------
(* The two pushes of an alert are kept apart.                              *)

\* The time the run thread still sleeps, at least, before the next push.
TimeLeft ==
  IF run[Host].pc = "wait" THEN IF timer > 1 THEN timer ELSE 1
  ELSE IF run[Host].pc = "pause" THEN IF timer > 1 THEN 1 + timer ELSE 2
  ELSE IF run[Host].pc = "last" THEN 1
  ELSE 0

\* The next push begins no sooner than was asked for since the last.
Late == run[Host].pc # "arm" => sincePush + TimeLeft >= interval

Apart ==
  caller[P!Runner].pc = "idle" =>
    \A t \in threads : t.by = P!Runner => t.age >= sincePush /\ Late /\ pushed # <<>>

\* Late is about the run thread and its timer.
LEMMA LateStays ==
  ASSUME QueueInv, Late, UNCHANGED <<run, timer, sincePush, interval>> PROVE Late'
BY DEF Late, TimeLeft

\* msgQueue_Add does not touch the timer of a thread that runs.
LEMMA LateRaise == ASSUME QueueInv, Late, Raise \/ InsideAdd PROVE Late'
<1>1. UNCHANGED <<timer, sincePush, interval>>
  BY DEF Raise, InsideAdd, Q!AddCall, Q!InsideAdd, Q!AddCreateQueue, Q!AddStartThread,
     Q!AddReadAlertDelay, Q!AddReadAcceptDelay, Q!AddEnqueue, Q!AddRefused, Q!history
<1>2. UNCHANGED run \/ (run[Host].pc = "off" /\ run'[Host].pc = "poll")
  BY DEF Raise, InsideAdd, Q!AddCall, Q!InsideAdd, Q!AddCreateQueue, Q!AddStartThread,
     Q!AddReadAlertDelay, Q!AddReadAcceptDelay, Q!AddEnqueue, Q!AddRefused, Q!RunGoes,
     QueueInv, QueueShape, Started
<1>3. QED
  BY <1>1, <1>2 DEF Late, TimeLeft

\* Moving the run thread on.
LEMMA RunGoesTo ==
  ASSUME QueueInv, NEW pc, Q!RunGoes(Host, pc) PROVE run'[Host].pc = pc
BY DEF Q!RunGoes, QueueInv, QueueShape

\* The timer is set to the alert delay, and what is taken from it has been slept.
LEMMA LateBetween == ASSUME QueueInv, Late, BetweenAlerts PROVE Late'
<1>0. /\ ALERT_DELAY \in Nat /\ timer \in Int /\ sincePush \in Nat
      /\ interval \in Nat /\ interval <= ALERT_DELAY /\ interval' = interval
  BY AlarmPathAssumption
  DEF QueueInv, QueueShape, BetweenAlerts, Q!RunDequeue, Q!RunNoMessage, Q!RunArmTimer, Q!RunTick,
      Q!history
<1>1. CASE Q!RunDequeue(Host)
  BY <1>0, <1>1 DEF Q!RunDequeue, Q!history, Late, TimeLeft, QueueInv, QueueShape
<1>2. CASE Q!RunNoMessage(Host)
  BY <1>0, <1>2, RunGoesTo DEF Q!RunNoMessage, Q!history, Late, TimeLeft
<1>3. CASE Q!RunArmTimer(Host)
  <2>1. timer' = ALERT_DELAY /\ run'[Host].pc = "wait" /\ sincePush' = sincePush
    BY <1>3, RunGoesTo DEF Q!RunArmTimer, Q!history, QueueInv, Started, Ready
  <2>2. QED
    BY <1>0, <2>1 DEF Late, TimeLeft
<1>4. CASE Q!RunTick(Host)
  <2>1. /\ run[Host].pc = "wait" /\ timer' = timer - 1 /\ sincePush' = sincePush
        /\ run'[Host].pc = IF timer - 1 <= 0 THEN "last" ELSE "pause"
    BY <1>4, RunGoesTo DEF Q!RunTick, Q!history
  <2>2. QED
    BY <1>0, <2>1 DEF Late, TimeLeft
<1>5. QED
  BY <1>1, <1>2, <1>3, <1>4 DEF BetweenAlerts, Q!RunTick

\* A tenth of a second less is left, and one more has passed.
LEMMA LateSleep == ASSUME QueueInv, Late, Sleep PROVE Late'
<1>1. /\ run[Host].pc \in {"pause", "last", "idle"} /\ timer' = timer
      /\ run'[Host].pc = IF run[Host].pc = "pause" THEN "wait" ELSE "poll"
      /\ sincePush' = IF sincePush < Horizon THEN sincePush + 1 ELSE sincePush
  BY RunGoesTo DEF Sleep, Q!RunSleep, Q!Later
<1>2. /\ Horizon \in Nat /\ timer \in Int /\ sincePush \in 0 .. Horizon /\ interval \in Nat
      /\ Horizon > interval /\ interval' = interval
  <2>1. interval' = interval
    BY DEF Sleep, Q!RunSleep
  <2>2. QED
    BY <2>1, AlarmPathAssumption DEF QueueInv, QueueShape
<1>3. QED
  BY <1>1, <1>2 DEF Late, TimeLeft

\* An accept sets the timer anew, and asks for the delay it sets.
LEMMA LateSet == ASSUME QueueInv, Late, SetDelay PROVE Late'
<1>1. /\ timer' = ACCEPT_DELAY /\ UNCHANGED <<run, sincePush>>
      /\ interval' = IF ACCEPT_DELAY < interval THEN ACCEPT_DELAY ELSE interval
  BY DEF SetDelay, Q!SetDelay, QueueInv, Started
<1>2. ACCEPT_DELAY \in Nat /\ timer \in Int /\ sincePush \in Nat /\ interval \in Nat
  BY AlarmPathAssumption DEF QueueInv, QueueShape
<1>3. QED
  BY <1>1, <1>2 DEF Late, TimeLeft

\* Nobody sends the page of an earlier alert when the next begins, after a delay
\* longer than a thread lives.
LEMMA NoneLeft ==
  ASSUME QueueInv, Shape, Apart, BeginAlert, pushed = <<>> \/ ~ (interval <= TIMEOUT)
  PROVE  \A t \in threads : t.by # P!Runner
<1> SUFFICES ASSUME NEW t \in threads, t.by = P!Runner PROVE FALSE
  OBVIOUS
<1>1. caller[P!Runner].pc = "idle" /\ run[Host].pc = "push"
  BY DEF BeginAlert, P!PushAlert
<1>2. t.age >= sincePush /\ sincePush + 0 >= interval /\ ~ (interval <= TIMEOUT)
  BY <1>1 DEF Apart, Late, TimeLeft
<1>3. t.age \in 0 .. TIMEOUT /\ sincePush \in Int /\ interval \in Nat
  BY DEF Shape, ThreadShape, QueueInv, QueueShape
<1>4. QED
  BY <1>2, <1>3, AlarmPathAssumption

\* What leaves the run thread, the timer and the ages alone keeps alerts apart.
LEMMA ApartStays ==
  ASSUME QueueInv, Apart, UNCHANGED <<run, timer, sincePush, interval, pushed>>,
         caller'[P!Runner].pc = "idle" => caller[P!Runner].pc = "idle",
         \A u \in threads' : u.by = P!Runner =>
           \E t \in threads : t.by = P!Runner /\ t.age = u.age
  PROVE  Apart'
BY LateStays DEF Apart

\* The server's page building leaves the runner alone.
LEMMA MakeAcceptCaller ==
  ASSUME Shape, P!MakeAccept
  PROVE  caller'[P!Runner] = caller[P!Runner] /\ UNCHANGED <<threads, msgs, SPphones, sent, expected>>
BY GoesTo, PartsOfCallers
DEF P!MakeAccept, P!SetAccept, P!BuildMsg, P!NoTemplate, P!Timed, P!ghosts, Shape

\* The run thread's page building leaves the server alone.
LEMMA MakeAlertCaller ==
  ASSUME Shape, P!MakeAlert
  PROVE  /\ caller'[P!Server] = caller[P!Server]
         /\ caller[P!Runner].pc \in {"alert", "build"} /\ caller'[P!Runner].pc \in {"build", "push"}
         /\ UNCHANGED <<threads, msgs, SPphones, sent, expected>>
BY GoesTo, PartsOfCallers
DEF P!MakeAlert, P!SetAlert, P!BuildMsg, P!NoTemplate, P!Timed, P!ghosts, Shape

\* The end of msgSend_PushAlert.
LEMMA AlertPushedStep ==
  ASSUME Shape, P!AlertPushed
  PROVE  /\ caller[P!Runner].pc = "push" /\ caller'[P!Runner].pc = "idle"
         /\ caller'[P!Server] = caller[P!Server]
         /\ UNCHANGED <<threads, msgs, msgBuf, SPphones, sent, expected>>
BY PartsOfCallers DEF P!AlertPushed, P!Idle, P!ghosts, Shape, CallerShape

\* The end of msgSend_PushAccept.
LEMMA AcceptPushedStep ==
  ASSUME Shape, P!AcceptPushed
  PROVE  /\ caller[P!Server].pc = "push" /\ caller'[P!Server].pc = "idle"
         /\ caller'[P!Runner] = caller[P!Runner]
         /\ UNCHANGED <<threads, msgs, msgBuf, SPphones, sent, expected>>
BY PartsOfCallers DEF P!AcceptPushed, P!Idle, P!ghosts, Shape, CallerShape

\* Steps of the queue keep alerts apart.
LEMMA ApartQueue ==
  ASSUME QueueInv, Apart,
         Raise \/ InsideAdd \/ BetweenAlerts \/ ReadDelay \/ SetDelay \/ Ack
  PROVE  Apart'
<1>1. UNCHANGED sending /\ sincePush' = sincePush /\ pushed' = pushed
  BY DEF Raise, InsideAdd, BetweenAlerts, ReadDelay, SetDelay, Ack, Q!AddCall,
         Q!InsideAdd,
     Q!AddCreateQueue, Q!AddStartThread, Q!AddReadAlertDelay, Q!AddReadAcceptDelay,
     Q!AddEnqueue, Q!AddRefused, Q!RunDequeue, Q!RunNoMessage, Q!RunArmTimer, Q!RunTick,
     Q!SetAccept, Q!SetDelay, Q!history, queueing
<1>2. ASSUME Late PROVE Late'
  <2>1. CASE ReadDelay \/ Ack
    BY <1>2, <2>1, LateStays DEF ReadDelay, Ack, Q!SetAccept, Q!history, queueing
  <2>2. QED
    BY <1>2, <2>1, LateRaise, LateBetween, LateSet
<1>3. QED
  BY <1>1, <1>2 DEF sending, Apart

LEMMA AppendNonempty ==
  ASSUME NEW q, NEW x, Len(q) \in Nat PROVE Append(q, x) # <<>>
<1>1. DOMAIN Append(q, x) = 1 .. Len(q) + 1
  OBVIOUS
<1>2. Len(q) + 1 \in DOMAIN Append(q, x)
  BY <1>1
<1>3. QED
  BY <1>2

\* Pushes keep alerts apart: the timer starts when msgSend_PushAlert returns.
LEMMA ApartPush ==
  ASSUME Calm, QueueInv, Shape, Apart,
         BeginAlert \/ InsideAlert \/ EndAlert
           \/ (\E a \in Alarms, ip \in IPs : BeginAccept(a, ip)) \/ InsideAccept \/ EndAccept
  PROVE  Apart'
<1>1. CASE BeginAlert
  BY <1>1, BeginStep, PartsOfCallers DEF Apart, Shape
<1>2. CASE InsideAlert
  BY <1>2, MakeAlertCaller, OnePushed, PartsOfCallers DEF InsideAlert, Apart
<1>3. CASE EndAlert
  <2>1. run'[Host].pc = "arm" /\ sincePush' = 0 /\ UNCHANGED threads
    BY <1>3 DEF EndAlert, P!AlertPushed, Q!RunPush, QueueInv, QueueShape
  <2>2. \A t \in threads : t.age >= 0
    BY AlarmPathAssumption DEF Shape, ThreadShape
  <2>3. pushed' # <<>>
    BY <1>3, AppendNonempty DEF EndAlert, Q!RunPush
  <2>4. QED
    BY <2>1, <2>2, <2>3 DEF Apart, Late
<1>4. CASE \E a \in Alarms, ip \in IPs : BeginAccept(a, ip)
  <2>1. caller'[P!Runner] = caller[P!Runner]
    BY <1>4, BeginStep, PartsOfCallers DEF Shape
  <2>2. UNCHANGED <<run, timer, sincePush, interval, pushed, threads>>
    BY <1>4 DEF BeginAccept, P!PushAccept, queueing
  <2>3. QED
    BY <2>1, <2>2, ApartStays
<1>5. CASE InsideAccept
  <2>1. UNCHANGED <<run, timer, sincePush, interval, pushed>>
    BY <1>5 DEF InsideAccept, queueing
  <2>2. CASE P!MakeAccept
    BY <2>1, <2>2, MakeAcceptCaller, ApartStays
  <2>3. CASE P!PushOne(P!Server)
    <3>1. /\ caller'[P!Runner] = caller[P!Runner]
          /\ \A u \in threads' : u.by = P!Runner => u \in threads
      BY <2>3, OnePushed, PartsOfCallers
    <3>2. QED
      BY <2>1, <3>1, ApartStays, PartsOfCallers
  <2>4. QED
    BY <1>5, <2>2, <2>3 DEF InsideAccept
<1>6. CASE EndAccept
  BY <1>6, AcceptPushedStep, ApartStays, PartsOfCallers DEF EndAccept, queueing
<1>7. QED
  BY <1>1, <1>2, <1>3, <1>4, <1>5, <1>6

\* Time that passes keeps alerts apart.
LEMMA ApartSleep == ASSUME QueueInv, Shape, Apart, Sleep PROVE Apart'
<1>1. caller' = caller /\ (Late => Late') /\ pushed' = pushed
  BY LateSleep DEF Sleep, Q!RunSleep, P!Tick, sending
<1>2. /\ sincePush' = IF sincePush < Horizon THEN sincePush + 1 ELSE sincePush
      /\ sincePush \in Int /\ Horizon \in Int
  BY AlarmPathAssumption DEF Sleep, Q!RunSleep, Q!Later, QueueInv, QueueShape
<1>3. ASSUME NEW u \in threads' PROVE \E t \in threads : u.by = t.by /\ u.age = t.age + 1
  BY <1>3, Aged DEF Sleep, sending, Older
<1>4. \A t \in threads : t.age \in Int
  BY AlarmPathAssumption DEF Shape, ThreadShape
<1>5. QED
  BY <1>1, <1>2, <1>3, <1>4 DEF Apart

\* A thread that sends keeps alerts apart.
LEMMA ApartSending ==
  ASSUME QueueInv, Shape, Apart, NEW t \in threads, Sending(t)
  PROVE  Apart'
<1>1. UNCHANGED <<run, timer, sincePush, interval, pushed, caller>>
  BY SenderStep DEF Sending, queueing
<1>2. \A u \in threads' : \E v \in threads : u.by = v.by /\ u.age = v.age
  BY SenderStep
<1>3. QED
  BY <1>1, <1>2, ApartStays

-----------------------------------------------------------------------------
(* Every sender carries a page that is still to be sent.                   *)

BufferOf(t) == IF t.pc = "posting" THEN t.msg ELSE msgs[t.index].msg
AddressOf(t) == IF t.pc = "created" THEN SPphones[msgs[t.index].ip_addr].ip_addr ELSE t.ip
Carried(t) == [ip |-> AddressOf(t), page |-> msgBuf[BufferOf(t)]]

\* One push at a time: while it goes on the elements of msgs below msgIndex are
\* its own, those above nobody's.
Order ==
  /\ caller[P!Runner].pc = "idle" \/ caller[P!Server].pc = "idle"
  /\ \A c \in P!Callers : caller[c].pc # "idle" =>
       \A t \in threads : t.pc # "posting" => t.by = c /\ t.index < caller[c].msgIndex
  /\ \A c \in P!Callers : caller[c].pc \notin {"idle", "push"} => \A t \in threads : t.by # c

Buffers ==
  \A t \in threads :
    BufferOf(t) \in IF t.by = P!Runner THEN {"alert"} ELSE {"accept", "accept2"}

\* What the steps of a push have made of the page so far.
Pages ==
  LET a == caller[P!Runner].alarm
      b == caller[P!Server].alarm
  IN
  /\ caller[P!Runner].pc = "build" => deptName = a /\ levelStr = a /\ alarmStr = a
  /\ caller[P!Runner].pc = "push" => msgBuf["alert"] = P!AlertPage(a)
  /\ caller[P!Server].pc = "build" => deptName = b /\ levelStr = P!Accepted
  /\ caller[P!Server].pc = "build2" => deptName = b /\ levelStr = P!YouAccepted
  /\ caller[P!Server].pc \in {"accept2", "build2", "push"}
       => msgBuf["accept"] = P!AcceptPage(b, P!Accepted)
  /\ caller[P!Server].pc = "push" => msgBuf["accept2"] = P!AcceptPage(b, P!YouAccepted)

Carrying == expected = sent \union {Carried(t) : t \in threads}

SendInv == Order /\ Buffers /\ Pages /\ Carrying

\* At start there is nothing to send.
LEMMA InitSend == Init => SendInv
BY PartsOfCallers DEF Init, P!Init, P!Idle, SendInv, Order, Buffers, Pages, Carrying

\* The senders carry what they did if what they look at stays.
LEMMA CarriedStays ==
  ASSUME Buffers, Carrying, UNCHANGED <<SPphones, msgs, threads, sent, expected>>,
         \A t \in threads : msgBuf'[BufferOf(t)] = msgBuf[BufferOf(t)]
  PROVE  Buffers' /\ Carrying'
<1>1. Buffers'
  BY DEF Buffers, BufferOf
<1>2. \A t \in threads : Carried(t)' = Carried(t)
  BY DEF Carried, BufferOf, AddressOf
<1>3. Carrying'
  BY <1>2 DEF Carrying
<1>4. QED
  BY <1>1, <1>3

\* A push that is not disturbed begins when no thread reads msgs and none of an
\* earlier push reads the buffer: for alerts the timer has seen to that.
LEMMA BeginSend ==
  ASSUME QueueInv, Shape, Apart, SendInv, [Next]_vars, Fine',
         BeginAlert \/ \E a \in Alarms, ip \in IPs : BeginAccept(a, ip)
  PROVE  SendInv'
<1>1. /\ UNCHANGED <<SPphones, msgs, msgBuf, threads, sent, expected>>
      /\ \A c \in P!Callers : caller[c].pc = "idle"
      /\ \A t \in threads : t.pc = "posting"
  BY FineBefore
  DEF BeginAlert, BeginAccept, P!PushAlert, P!PushAccept, P!Timed, P!Alone, P!NobodyPushes
<1>2. Buffers' /\ Carrying'
  BY <1>1, CarriedStays DEF SendInv
<1>3. CASE BeginAlert
  <2>1. /\ caller'[P!Runner].pc = "alert" /\ caller'[P!Server].pc = "idle"
    BY <1>1, <1>3, BeginStep, PartsOfCallers DEF Shape
  <2>2. Order' /\ Pages'
    BY <1>1, <1>3, <2>1, NoneLeft, FineBefore, PartsOfCallers DEF Order, Pages
  <2>3. QED
    BY <1>2, <2>2 DEF SendInv
<1>4. CASE \E a \in Alarms, ip \in IPs : BeginAccept(a, ip)
  <2>1. /\ caller'[P!Server].pc = "accept" /\ caller'[P!Runner].pc = "idle"
    BY <1>1, <1>4, BeginStep, PartsOfCallers DEF Shape
  <2>2. \A t \in threads : t.by = P!Runner
    BY <1>4, FineBefore DEF P!Settled
  <2>3. Order' /\ Pages'
    BY <1>1, <2>1, <2>2, PartsOfCallers DEF Order, Pages
  <2>4. QED
    BY <1>2, <2>3 DEF SendInv
<1>5. QED
  BY <1>3, <1>4

\* The alert's page is built while nobody sends an alert.
LEMMA MakeAlertSend ==
  ASSUME Shape, SendInv, P!MakeAlert, \A c, from, to : ~P!NoTemplate(c, from, to)
  PROVE  SendInv'
<1> DEFINE a == caller[P!Runner].alarm
<1>1. /\ caller[P!Runner].pc \in {"alert", "build"} /\ caller'[P!Runner].pc \in {"build", "push"}
      /\ caller'[P!Runner].alarm = a
      /\ caller'[P!Server] = caller[P!Server] /\ caller[P!Server].pc = "idle"
      /\ UNCHANGED <<SPphones, msgs, threads, sent, expected>>
  BY MakeAlertCaller, GoesTo, PartsOfCallers
  DEF P!MakeAlert, P!SetAlert, P!BuildMsg, P!NoTemplate, Shape, SendInv, Order
<1>2. \/ /\ deptName' = a /\ levelStr' = a /\ alarmStr' = a /\ msgBuf' = msgBuf
         /\ caller'[P!Runner].pc = "build"
      \/ /\ msgBuf' = [msgBuf EXCEPT !["alert"] = P!Page("alert", deptName, levelStr, alarmStr)]
         /\ caller[P!Runner].pc = "build" /\ caller'[P!Runner].pc = "push"
  BY GoesTo, PartsOfCallers
  DEF P!MakeAlert, P!SetAlert, P!BuildMsg, Shape
<1>3. \A t \in threads : t.by = P!Server /\ BufferOf(t) # "alert"
  BY <1>1, PartsOfCallers DEF SendInv, Order, Buffers, Shape, ThreadShape
<1>4. Buffers' /\ Carrying'
  <2>1. ASSUME NEW t \in threads PROVE msgBuf'[BufferOf(t)] = msgBuf[BufferOf(t)]
    <3>1. BufferOf(t) \in {"alert", "accept", "accept2"}
      BY DEF SendInv, Buffers
    <3>2. QED
      BY <1>2, <1>3, <3>1 DEF Shape, BufferShape
  <2>2. QED
    BY <1>1, <2>1, CarriedStays DEF SendInv
<1>5. Order'
  BY <1>1, <1>3, PartsOfCallers DEF SendInv, Order
<1>6. Pages'
  BY <1>1, <1>2 DEF SendInv, Pages, P!AlertPage, Shape, BufferShape
<1>7. QED
  BY <1>4, <1>5, <1>6 DEF SendInv

\* The pages of an accept are built while nobody sends one.
LEMMA MakeAcceptSend ==
  ASSUME Shape, SendInv, P!MakeAccept, \A c, from, to : ~P!NoTemplate(c, from, to)
  PROVE  SendInv'
<1> DEFINE b == caller[P!Server].alarm
<1>1. /\ caller[P!Server].pc \in {"accept", "build", "accept2", "build2"}
      /\ caller'[P!Server].pc \in {"build", "accept2", "build2", "push"}
      /\ caller'[P!Server].alarm = b
      /\ caller'[P!Runner] = caller[P!Runner] /\ caller[P!Runner].pc = "idle"
      /\ UNCHANGED <<SPphones, msgs, threads, sent, expected>>
  BY MakeAcceptCaller, GoesTo, PartsOfCallers
  DEF P!MakeAccept, P!SetAccept, P!BuildMsg, P!NoTemplate, Shape, SendInv, Order
<1>2. \/ /\ deptName' = b /\ levelStr' = P!Accepted /\ msgBuf' = msgBuf
         /\ caller[P!Server].pc = "accept" /\ caller'[P!Server].pc = "build"
      \/ /\ msgBuf' = [msgBuf EXCEPT !["accept"] = P!Page("accept", deptName, levelStr, NULL)]
         /\ caller[P!Server].pc = "build" /\ caller'[P!Server].pc = "accept2"
      \/ /\ deptName' = b /\ levelStr' = P!YouAccepted /\ msgBuf' = msgBuf
         /\ caller[P!Server].pc = "accept2" /\ caller'[P!Server].pc = "build2"
      \/ /\ msgBuf' = [msgBuf EXCEPT !["accept2"] = P!Page("accept", deptName, levelStr, NULL)]
         /\ caller[P!Server].pc = "build2" /\ caller'[P!Server].pc = "push"
  BY GoesTo, PartsOfCallers
  DEF P!MakeAccept, P!SetAccept, P!BuildMsg, Shape
<1>3. \A t \in threads : t.by = P!Runner /\ BufferOf(t) = "alert"
  BY <1>1, PartsOfCallers DEF SendInv, Order, Buffers, Shape, ThreadShape
<1>4. Buffers' /\ Carrying'
  <2>1. ASSUME NEW t \in threads PROVE msgBuf'[BufferOf(t)] = msgBuf[BufferOf(t)]
    <3>1. BufferOf(t) \in {"alert", "accept", "accept2"}
      BY DEF SendInv, Buffers
    <3>2. QED
      BY <1>2, <1>3, <3>1 DEF Shape, BufferShape
  <2>2. QED
    BY <1>1, <2>1, CarriedStays DEF SendInv
<1>5. Order'
  BY <1>1, <1>3, PartsOfCallers DEF SendInv, Order
<1>6. Pages'
  BY <1>1, <1>2 DEF SendInv, Pages, P!AcceptPage, Shape, BufferShape
<1>7. QED
  BY <1>4, <1>5, <1>6 DEF SendInv

\* Each phone's thread is given the page meant for it, in an element of msgs that
\* no other thread reads.
LEMMA PushOneSend ==
  ASSUME Calm, Shape, SendInv, NEW c \in P!Callers, P!PushOne(c) PROVE SendInv'
<1>a. PICK s : s = P!GetNextRecord(caller[c].sptr)
  OBVIOUS
<1>b. PICK i : i = caller[c].msgIndex
  OBVIOUS
<1>c. PICK ip : ip = SPphones[s].ip_addr
  OBVIOUS
<1>d. PICK buffer : buffer = IF c = P!Runner THEN "alert"
                             ELSE IF ip = caller[c].special_ip THEN "accept2" ELSE "accept"
  OBVIOUS
<1>e. PICK new : new = [by |-> c, index |-> i, pc |-> "created", ip |-> NULL, msg |-> NULL,
                        age |-> 0]
  OBVIOUS
<1>1. /\ ip = SPphones[s].ip_addr
      /\ buffer = IF c = P!Runner THEN "alert"
                  ELSE IF ip = caller[c].special_ip THEN "accept2" ELSE "accept"
      /\ new.by = c /\ new.index = i /\ new.pc = "created"
      /\ i \in 0 .. MAX_SPPHONES - 1
      /\ caller[c].pc = "push" /\ i = caller[c].msgIndex
      /\ caller'[c].pc = "push" /\ caller'[c].msgIndex = i + 1
      /\ caller'[c].alarm = caller[c].alarm
      /\ caller'[c].special_ip = caller[c].special_ip
      /\ \A d \in P!Callers : d # c => caller'[d] = caller[d]
      /\ msgs' = [j \in 0 .. MAX_SPPHONES - 1 |->
                    IF j = i THEN [ip_addr |-> s, msg |-> buffer] ELSE msgs[j]]
      /\ threads' = threads \union {new}
      /\ expected' = expected \union {[ip |-> ip, page |-> P!Meant(c, ip)]}
      /\ UNCHANGED <<SPphones, msgBuf, deptName, levelStr, alarmStr, sent>>
  BY <1>a, <1>b, <1>c, <1>d, <1>e, OnePushed
<1>2. \A d \in P!Callers : d # c => caller[d].pc = "idle"
  BY <1>1, PartsOfCallers DEF SendInv, Order
<1>3. \A t \in threads : t.pc # "posting" => t.by = c /\ t.index < i
  BY <1>1 DEF SendInv, Order
<1>4. \A t \in threads : t.index \in 0 .. MAX_SPPHONES - 1
  BY DEF Shape, ThreadShape, BufferShape
<1>5. \A t \in threads : BufferOf(t)' = BufferOf(t) /\ Carried(t)' = Carried(t)
  <2>1. ASSUME NEW t \in threads, t.pc # "posting" PROVE msgs'[t.index] = msgs[t.index]
    BY <1>1, <1>3, <1>4, <2>1
  <2>2. QED
    BY <1>1, <2>1 DEF BufferOf, AddressOf, Carried
<1>6. BufferOf(new)' = buffer /\ Carried(new)' = [ip |-> ip, page |-> msgBuf[buffer]]
  <2>1. msgs'[i] = [ip_addr |-> s, msg |-> buffer]
    BY <1>1
  <2>2. BufferOf(new)' = buffer /\ AddressOf(new)' = SPphones[s].ip_addr
    BY <1>1, <2>1 DEF BufferOf, AddressOf
  <2>3. QED
    BY <1>1, <2>2 DEF Carried
<1>7. msgBuf[buffer] = P!Meant(c, ip)
  BY <1>1, PartsOfCallers DEF SendInv, Pages, P!Meant
<1>8. Carrying'
  BY <1>1, <1>5, <1>6, <1>7 DEF SendInv, Carrying
<1>9. Buffers'
  BY <1>1, <1>5, <1>6 DEF SendInv, Buffers
<1>10. Order'
  <2>1. i \in Int /\ \A t \in threads : t.index \in Int
    BY <1>1, <1>4
  <2>2. QED
    BY <1>1, <1>2, <1>3, <2>1, PartsOfCallers DEF SendInv, Order
<1>11. Pages'
  BY <1>1, <1>2, PartsOfCallers DEF SendInv, Pages
<1>12. QED
  BY <1>8, <1>9, <1>10, <1>11 DEF SendInv

\* The end of a push leaves its threads their pages.
LEMMA PushedSend ==
  ASSUME Shape, SendInv, P!AlertPushed \/ P!AcceptPushed
  PROVE  SendInv'
<1>1. /\ UNCHANGED <<threads, msgs, msgBuf, SPphones, sent, expected>>
      /\ caller'[P!Runner].pc = "idle" /\ caller'[P!Server].pc = "idle"
  <2>1. CASE P!AlertPushed
    BY <2>1, AlertPushedStep, PartsOfCallers DEF SendInv, Order
  <2>2. CASE P!AcceptPushed
    BY <2>2, AcceptPushedStep, PartsOfCallers DEF SendInv, Order
  <2>3. QED
    BY <2>1, <2>2
<1>2. Buffers' /\ Carrying'
  BY <1>1, CarriedStays DEF SendInv
<1>3. Order' /\ Pages'
  BY <1>1, PartsOfCallers DEF Order, Pages
<1>4. QED
  BY <1>2, <1>3 DEF SendInv

\* A thread sends the page it carries, and reads it right until then.
LEMMA SendingSend == ASSUME Shape, SendInv, NEW t \in threads, Sending(t) PROVE SendInv'
<1>1. UNCHANGED <<SPphones, msgs, msgBuf, deptName, levelStr, alarmStr, caller, expected>>
  BY SenderStep
<1>2. \A u : BufferOf(u)' = BufferOf(u) /\ Carried(u)' = Carried(u)
  BY <1>1 DEF BufferOf, AddressOf, Carried
<1>3. CASE t.pc = "posting"
  <2>1. threads' = threads \ {t} /\ sent' = sent \union {Carried(t)}
    BY <1>3, SenderStep DEF Carried, AddressOf, BufferOf
  <2>2. Carrying'
    BY <1>1, <1>2, <2>1 DEF SendInv, Carrying
  <2>3. Order' /\ Buffers' /\ Pages'
    BY <1>1, <1>2, <2>1 DEF SendInv, Order, Buffers, Pages
  <2>4. QED
    BY <2>2, <2>3 DEF SendInv
<1>4. CASE t.pc # "posting"
  <2>1. PICK u : /\ threads' = (threads \ {t}) \union {u} /\ sent' = sent
                 /\ u.by = t.by /\ u.index = t.index
                 /\ BufferOf(u) = BufferOf(t) /\ Carried(u) = Carried(t)
    <3>1. CASE t.pc = "created"
      <4> DEFINE u == [by |-> t.by, index |-> t.index, pc |-> "addressed",
                       ip |-> SPphones[msgs[t.index].ip_addr].ip_addr, msg |-> t.msg,
                       age |-> t.age]
      <4>1. threads' = (threads \ {t}) \union {u} /\ sent' = sent
        BY <3>1, SenderStep
      <4>2. /\ u.by = t.by /\ u.index = t.index
            /\ BufferOf(u) = BufferOf(t) /\ Carried(u) = Carried(t)
        BY <3>1 DEF BufferOf, AddressOf, Carried
      <4> HIDE DEF u
      <4>3. QED
        BY <4>1, <4>2
    <3>2. CASE t.pc = "addressed"
      <4> DEFINE u == [by |-> t.by, index |-> t.index, pc |-> "posting",
                       ip |-> t.ip, msg |-> msgs[t.index].msg, age |-> t.age]
      <4>1. threads' = (threads \ {t}) \union {u} /\ sent' = sent
        BY <3>2, SenderStep
      <4>2. /\ u.by = t.by /\ u.index = t.index
            /\ BufferOf(u) = BufferOf(t) /\ Carried(u) = Carried(t)
        BY <3>2 DEF BufferOf, AddressOf, Carried
      <4> HIDE DEF u
      <4>3. QED
        BY <4>1, <4>2
    <3>3. QED
      BY <1>4, <3>1, <3>2 DEF Shape, ThreadShape
  <2>2. Carrying'
    BY <1>1, <1>2, <2>1 DEF SendInv, Carrying
  <2>3. Order'
    BY <1>1, <1>4, <2>1 DEF SendInv, Order
  <2>4. Buffers' /\ Pages'
    BY <1>1, <1>2, <2>1 DEF SendInv, Buffers, Pages
  <2>5. QED
    BY <2>2, <2>3, <2>4 DEF SendInv
<1>5. QED
  BY <1>3, <1>4

\* What leaves the senders alone keeps what they carry.
LEMMA RestSend == ASSUME SendInv, UNCHANGED sending PROVE SendInv'
<1>1. Buffers' /\ Carrying'
  BY CarriedStays DEF SendInv, sending
<1>2. Order' /\ Pages'
  BY DEF SendInv, sending, Order, Pages
<1>3. QED
  BY <1>1, <1>2 DEF SendInv

\* Time that passes keeps what threads carry.
LEMMA SleepSend == ASSUME Shape, SendInv, Sleep PROVE SendInv'
<1>1. CASE P!Tick
  <2>1. UNCHANGED <<SPphones, msgs, msgBuf, deptName, levelStr, alarmStr, caller, sent, expected>>
    BY <1>1 DEF P!Tick, P!ghosts, P!build
  <2>2. \A t : /\ BufferOf(Older(t))' = BufferOf(t) /\ Carried(Older(t))' = Carried(t)
               /\ Older(t).by = t.by /\ Older(t).pc = t.pc /\ Older(t).index = t.index
    BY <2>1 DEF BufferOf, AddressOf, Carried, Older
  <2>3. Carrying'
    BY <1>1, <2>1, <2>2, Aged DEF SendInv, Carrying
  <2>4. Order' /\ Buffers' /\ Pages'
    BY <1>1, <2>1, <2>2, Aged DEF SendInv, Order, Buffers, Pages
  <2>5. QED
    BY <2>3, <2>4 DEF SendInv
<1>2. QED
  BY <1>1, RestSend DEF Sleep

\* Each step keeps the shape of the state.
LEMMA NextShape ==
  ASSUME Calm, Shape, [Next]_vars PROVE Shape'
<1>1. CASE \/ Raise \/ InsideAdd \/ BetweenAlerts \/ ReadDelay \/ SetDelay \/ Ack
           \/ UNCHANGED vars
  BY <1>1, RestShape DEF Raise, InsideAdd, BetweenAlerts, ReadDelay, SetDelay, Ack, vars
<1>2. CASE BeginAlert \/ \E a \in Alarms, ip \in IPs : BeginAccept(a, ip)
  BY <1>2, BeginShape
<1>3. CASE P!MakeAlert \/ P!MakeAccept
  BY <1>3, MakeShape
<1>4. CASE P!PushOne(P!Runner) \/ P!PushOne(P!Server)
  BY <1>4, PushOneShape, PartsOfCallers
<1>5. CASE P!AlertPushed \/ P!AcceptPushed
  BY <1>5, PushedShape
<1>6. CASE Sleep
  BY <1>6, SleepShape
<1>7. CASE SomeSending
  BY <1>7, SendingShape DEF SomeSending
<1>8. QED
  BY <1>1, <1>2, <1>3, <1>4, <1>5, <1>6, <1>7
  DEF Next, RunThread, Handling, InsideAlert, EndAlert, InsideAccept, EndAccept

\* Each step keeps alerts apart.
LEMMA NextApart ==
  ASSUME Calm, QueueInv, Shape, Apart, [Next]_vars PROVE Apart'
<1>1. CASE Raise \/ InsideAdd \/ BetweenAlerts \/ ReadDelay \/ SetDelay \/ Ack
  BY <1>1, ApartQueue
<1>2. CASE \/ BeginAlert \/ InsideAlert \/ EndAlert \/ InsideAccept \/ EndAccept
           \/ \E a \in Alarms, ip \in IPs : BeginAccept(a, ip)
  BY <1>2, ApartPush
<1>3. CASE Sleep
  BY <1>3, ApartSleep
<1>4. CASE SomeSending
  BY <1>4, ApartSending DEF SomeSending
<1>5. CASE UNCHANGED vars
  BY <1>5, ApartStays DEF vars, queueing, sending
<1>6. QED
  BY <1>1, <1>2, <1>3, <1>4, <1>5 DEF Next, RunThread, Handling

\* Each step keeps what threads carry, and what is still to be sent, the same.
LEMMA NextSend ==
  ASSUME Calm, QueueInv, Shape, Apart, SendInv, [Next]_vars, Fine' PROVE SendInv'
<1>1. CASE \/ Raise \/ InsideAdd \/ BetweenAlerts \/ ReadDelay \/ SetDelay \/ Ack
           \/ UNCHANGED vars
  BY <1>1, RestSend DEF Raise, InsideAdd, BetweenAlerts, ReadDelay, SetDelay, Ack, vars
<1>2. CASE BeginAlert \/ \E a \in Alarms, ip \in IPs : BeginAccept(a, ip)
  BY <1>2, BeginSend
<1>3. CASE P!MakeAlert \/ P!MakeAccept
  BY <1>3, MakeAlertSend, MakeAcceptSend, FineBefore
<1>4. CASE P!PushOne(P!Runner) \/ P!PushOne(P!Server)
  BY <1>4, PushOneSend, PartsOfCallers
<1>5. CASE P!AlertPushed \/ P!AcceptPushed
  BY <1>5, PushedSend
<1>6. CASE Sleep
  BY <1>6, SleepSend
<1>7. CASE SomeSending
  BY <1>7, SendingSend DEF SomeSending
<1>8. QED
  BY <1>1, <1>2, <1>3, <1>4, <1>5, <1>6, <1>7
  DEF Next, RunThread, Handling, InsideAlert, EndAlert, InsideAccept, EndAccept

-----------------------------------------------------------------------------
\* The whole of it.
Inv == QueueInv /\ Shape /\ Apart /\ (Fine => SendInv)

\* The inductive invariant: the start-up, the shape of the state, alerts that the
\* timer keeps apart, and, until a push has been disturbed, threads that carry
\* what is still to be sent.
THEOREM InvCorrect == ASSUME Calm PROVE Spec => []Inv
<1>1. Init => Inv
  <2>1. Init => Apart
    BY DEF Init, P!Init, Apart
  <2>2. QED
    BY <2>1, InitQueue, InitShape, InitSend DEF Inv
<1>2. Inv /\ [Next]_vars => Inv'
  <2> SUFFICES ASSUME Inv, [Next]_vars PROVE Inv'
    OBVIOUS
  <2>1. QueueInv' /\ Shape' /\ Apart'
    BY NextQueue, NextShape, NextApart DEF Inv
  <2>2. ASSUME Fine' PROVE SendInv'
    BY <2>2, FineBefore, NextSend DEF Inv
  <2>3. QED
    BY <2>1, <2>2 DEF Inv
<1>3. QED
  BY <1>1, <1>2, PTL DEF Spec

\* As long as every alert but the first has come after a delay longer than curl's
\* timeout, whichever delay it was, and nothing has disturbed a push, each phone
\* has been sent the page meant for it when every thread is done, and nothing
\* else was sent: msgQueue.c's timer is all that msgSend.c's threads need.  For
\* any settings of the delays, and whatever may come at a bad time later.
THEOREM ServedCorrect == ASSUME Calm PROVE Spec => []ServedInTime
<1>1. Inv => ServedInTime
  BY DEF Inv, Fine, SendInv, Carrying, ServedInTime, AllServed, P!AllServed
<1>2. QED
  BY <1>1, InvCorrect, PTL

-----------------------------------------------------------------------------
(* The delay that an accept asks for.                                      *)

\* Once an accept has found the timer running, as much of its delay is left as
\* has not passed since.
HeedInv ==
  heeded =>
    /\ run[Host].pc \notin {"off", "arm"}
    /\ sinceAccept + TimeLeft >= ACCEPT_DELAY

\* HeedInv is about the run thread, its timer and the last accept.
LEMMA HeedStays ==
  ASSUME HeedInv, UNCHANGED <<run, timer, sinceAccept, heeded>> PROVE HeedInv'
BY DEF HeedInv, TimeLeft

\* msgQueue_Add does not touch the timer of a thread that runs.
LEMMA HeedRaise == ASSUME QueueInv, HeedInv, Raise \/ InsideAdd PROVE HeedInv'
<1>1. UNCHANGED <<timer, sinceAccept, heeded>>
  BY DEF Raise, InsideAdd, Q!AddCall, Q!InsideAdd, Q!AddCreateQueue, Q!AddStartThread,
     Q!AddReadAlertDelay, Q!AddReadAcceptDelay, Q!AddEnqueue, Q!AddRefused, Q!history, own
<1>2. UNCHANGED run \/ run[Host].pc = "off"
  BY DEF Raise, InsideAdd, Q!AddCall, Q!InsideAdd, Q!AddCreateQueue, Q!AddStartThread,
     Q!AddReadAlertDelay, Q!AddReadAcceptDelay, Q!AddEnqueue, Q!AddRefused, Q!RunGoes,
     QueueInv, QueueShape, Started
<1>3. QED
  BY <1>1, <1>2 DEF HeedInv, TimeLeft

\* What is taken from the timer has been slept.
LEMMA HeedBetween == ASSUME QueueInv, HeedInv, BetweenAlerts PROVE HeedInv'
<1>0. /\ ACCEPT_DELAY \in Nat /\ timer \in Int /\ sinceAccept \in Nat
      /\ UNCHANGED <<sinceAccept, heeded>>
  BY AlarmPathAssumption
  DEF QueueInv, QueueShape, BetweenAlerts, Q!RunDequeue, Q!RunNoMessage,
      Q!RunArmTimer, Q!RunTick,
      Q!history, own
<1>1. CASE Q!RunDequeue(Host)
  BY <1>0, <1>1 DEF Q!RunDequeue, Q!history, HeedInv, TimeLeft, QueueInv, QueueShape
<1>2. CASE Q!RunNoMessage(Host)
  BY <1>0, <1>2, RunGoesTo DEF Q!RunNoMessage, Q!history, HeedInv, TimeLeft
<1>3. CASE Q!RunArmTimer(Host)
  BY <1>0, <1>3 DEF Q!RunArmTimer, HeedInv
<1>4. CASE Q!RunTick(Host)
  <2>1. /\ run[Host].pc = "wait" /\ timer' = timer - 1
        /\ run'[Host].pc = IF timer - 1 <= 0 THEN "last" ELSE "pause"
    BY <1>4, RunGoesTo DEF Q!RunTick, Q!history
  <2>2. QED
    BY <1>0, <2>1 DEF HeedInv, TimeLeft
<1>5. QED
  BY <1>1, <1>2, <1>3, <1>4 DEF BetweenAlerts

\* A tenth of a second less is left, and one more has passed since the accept.
LEMMA HeedSleep == ASSUME QueueInv, HeedInv, Sleep PROVE HeedInv'
<1>1. /\ run[Host].pc \in {"pause", "last", "idle"} /\ timer' = timer /\ heeded' = heeded
      /\ run'[Host].pc = IF run[Host].pc = "pause" THEN "wait" ELSE "poll"
      /\ sinceAccept' = IF sinceAccept < Horizon THEN sinceAccept + 1 ELSE sinceAccept
  BY RunGoesTo DEF Sleep, Q!RunSleep, Q!Later, own
<1>2. /\ ACCEPT_DELAY \in Nat /\ Horizon \in Nat /\ timer \in Int
      /\ sinceAccept \in 0 .. Horizon /\ Horizon > ACCEPT_DELAY
  BY AlarmPathAssumption DEF QueueInv, QueueShape
<1>3. QED
  BY <1>1, <1>2 DEF HeedInv, TimeLeft

\* msgQueue_SetAccept sets the timer to the accept's delay.
LEMMA HeedSet == ASSUME QueueInv, SetDelay PROVE HeedInv'
<1>1. /\ timer' = ACCEPT_DELAY /\ run' = run /\ sinceAccept' = 0
      /\ heeded' => run[Host].pc \in {"wait", "pause"}
  BY DEF SetDelay, Q!SetDelay, TimerRuns, QueueInv, Started
<1>2. QED
  BY <1>1, AlarmPathAssumption DEF HeedInv, TimeLeft

\* Each step keeps the delay of the accept.
LEMMA NextHeed == ASSUME QueueInv, HeedInv, [Next]_vars PROVE HeedInv'
<1>1. CASE Raise \/ InsideAdd
  BY <1>1, HeedRaise
<1>2. CASE BetweenAlerts
  BY <1>2, HeedBetween
<1>3. CASE Sleep
  BY <1>3, HeedSleep
<1>4. CASE EndAlert
  BY <1>4 DEF EndAlert, HeedInv
<1>5. CASE SetDelay
  BY <1>5, HeedSet
<1>6. CASE \/ BeginAlert \/ InsideAlert \/ InsideAccept \/ EndAccept \/ ReadDelay \/ Ack
           \/ SomeSending \/ (\E a \in Alarms, ip \in IPs : BeginAccept(a, ip))
           \/ UNCHANGED vars
  BY <1>6, HeedStays
  DEF BeginAlert, InsideAlert, InsideAccept, EndAccept, ReadDelay, Ack, SomeSending,
      Sending,
      BeginAccept, Q!SetAccept, Q!history, vars, queueing, own
<1>7. QED
  BY <1>1, <1>2, <1>3, <1>4, <1>5, <1>6 DEF Next, RunThread, Handling

\* After an accept that found the timer running the next alert does not begin
\* before the accept delay is over, whatever else happens in between: further
\* alarms, accepts and hanging phones.  No assumption but those of the constants.
THEOREM AcceptHeededCorrect == Spec => []AcceptHeeded
<1>1. Init => QueueInv /\ HeedInv
  BY InitQueue DEF Init, HeedInv
<1>2. QueueInv /\ HeedInv /\ [Next]_vars => (QueueInv /\ HeedInv)'
  BY NextQueue, NextHeed
<1>3. QueueInv /\ HeedInv => AcceptHeeded
  BY AlarmPathAssumption DEF QueueInv, QueueShape, HeedInv, TimeLeft, AcceptHeeded
<1>4. QED
  BY <1>1, <1>2, <1>3, PTL DEF Spec

-----------------------------------------------------------------------------
(* The types, of the parts and of the whole, without Calm.                 *)

\* What QueueShape leaves open: a call of msgQueue_Add and a run thread that
\* pushes have a message.
QueueTyped ==
  /\ queue[Host] \in Seq(Q!Messages)
  /\ alert_delay \in {0, ALERT_DELAY} /\ accept_delay \in {0, ACCEPT_DELAY}
  /\ add[Host].msg \in Q!Messages \union {NULL}
  /\ add[Host].pc # "idle" => add[Host].msg \in Q!Messages
  /\ run[Host].qmsg \in Q!Messages \union {NULL}
  /\ run[Host].pc = "push" => run[Host].qmsg \in Q!Messages
  /\ accepted \in Seq(Q!Messages)
  /\ pushed \in Seq(Q!Messages)
  /\ interval \in {0, ACCEPT_DELAY, ALERT_DELAY}

LEMMA QueueTypeOK == ASSUME QueueInv, QueueTyped PROVE Q!TypeOK
<1>1. add[Host] \in Q!Calls /\ run[Host] \in Q!Threads
  BY DEF QueueInv, QueueShape, QueueTyped, Q!Calls, Q!Threads
<1>2. /\ add \in [{Host} -> Q!Calls]
      /\ run \in [{Host} -> Q!Threads]
      /\ queue \in [{Host} -> Seq(Q!Messages)]
  BY <1>1 DEF QueueInv, QueueShape, QueueTyped
<1>3. QED
  BY <1>2 DEF QueueInv, QueueShape, Started, QueueTyped, Q!TypeOK

LEMMA InitQueueTyped == Init => QueueTyped
BY DEF Init, Q!Init, QueueTyped, Q!NotAdding, Q!NotRunning

\* What strncpy leaves is a message.
LEMMA RaiseTyped == ASSUME QueueInv, QueueTyped, Raise PROVE QueueTyped'
<1>1. PICK a \in Alarms : \E m \in Q!Copied(a) :
        add' = [add EXCEPT ![Host] = [pc |-> IF msg_queue = NULL THEN "create" ELSE "enqueue",
                                      msg |-> m]]
  BY DEF Raise, Q!AddCall
<1>2. Q!Copied(a) \subseteq Q!Messages
  BY DEF Q!Copied, Q!Messages, Q!DeptStates
<1>3. add'[Host].msg \in Q!Messages
  BY <1>1, <1>2 DEF QueueInv, QueueShape
<1>4. UNCHANGED <<queue, alert_delay, accept_delay, run, accepted, pushed, interval>>
  BY DEF Raise, Q!AddCall, Q!history
<1>5. QED
  BY <1>3, <1>4 DEF QueueTyped

LEMMA InsideTyped == ASSUME QueueInv, QueueTyped, InsideAdd PROVE QueueTyped'
<1> USE DEF Q!history, Q!AddGoes, Q!RunGoes
<1>1. ASSUME \/ add[Host].pc # "idle" /\ \E pc : add' = [add EXCEPT ![Host].pc = pc]
             \/ add' = [add EXCEPT ![Host] = Q!NotAdding]
      PROVE  /\ add'[Host].pc # "idle" => add[Host].pc # "idle"
             /\ add'[Host].msg \in {add[Host].msg, NULL}
             /\ add'[Host].pc = "idle" \/ add'[Host].msg = add[Host].msg
  BY <1>1 DEF QueueInv, QueueShape, Q!NotAdding
<1>2. CASE Q!AddCreateQueue(Host) \/ Q!AddReadAlertDelay(Host) \/ Q!AddReadAcceptDelay(Host)
  <2>1. add[Host].pc # "idle" /\ \E pc : add' = [add EXCEPT ![Host].pc = pc]
    BY <1>2 DEF Q!AddCreateQueue, Q!AddReadAlertDelay, Q!AddReadAcceptDelay
  <2>2. UNCHANGED <<queue, run, accepted, pushed, interval>>
    BY <1>2 DEF Q!AddCreateQueue, Q!AddReadAlertDelay, Q!AddReadAcceptDelay
  <2>3. /\ alert_delay' \in {alert_delay, ALERT_DELAY}
        /\ accept_delay' \in {accept_delay, ACCEPT_DELAY}
    BY <1>2 DEF Q!AddCreateQueue, Q!AddReadAlertDelay, Q!AddReadAcceptDelay
  <2>4. QED
    BY <1>1, <2>1, <2>2, <2>3 DEF QueueTyped
<1>3. CASE Q!AddStartThread(Host)
  <2>1. add[Host].pc # "idle" /\ add' = [add EXCEPT ![Host].pc = "alert_delay"]
    BY <1>3 DEF Q!AddStartThread
  <2>2. run'[Host] = [run[Host] EXCEPT !.pc = "poll"]
    BY <1>3 DEF Q!AddStartThread, QueueInv, QueueShape
  <2>3. run'[Host].pc = "poll" /\ run'[Host].qmsg = run[Host].qmsg
    BY <2>2 DEF QueueInv, QueueShape
  <2>4. UNCHANGED <<queue, alert_delay, accept_delay, accepted, pushed, interval>>
    BY <1>3 DEF Q!AddStartThread
  <2>5. QED
    BY <1>1, <2>1, <2>3, <2>4 DEF QueueTyped
<1>4. CASE Q!AddEnqueue(Host)
  <2>1. msg_queue = Host /\ add[Host].msg \in Q!Messages
    BY <1>4 DEF Q!AddEnqueue, QueueInv, Started, QueueTyped
  <2>2. queue'[Host] = Append(queue[Host], add[Host].msg)
    BY <1>4, <2>1 DEF Q!AddEnqueue, QueueInv, QueueShape
  <2>3. accepted' = Append(accepted, add[Host].msg) /\ add'[Host] = Q!NotAdding
    BY <1>4 DEF Q!AddEnqueue, QueueInv, QueueShape
  <2>4. queue'[Host] \in Seq(Q!Messages) /\ accepted' \in Seq(Q!Messages)
    BY <2>1, <2>2, <2>3 DEF QueueTyped
  <2>5. UNCHANGED <<alert_delay, accept_delay, run, pushed, interval>>
    BY <1>4 DEF Q!AddEnqueue
  <2>6. QED
    BY <2>3, <2>4, <2>5 DEF QueueTyped, Q!NotAdding
<1>5. CASE Q!AddRefused(Host)
  BY <1>1, <1>5 DEF Q!AddRefused, QueueTyped
<1>6. QED
  BY <1>2, <1>3, <1>4, <1>5 DEF InsideAdd, Q!InsideAdd

\* The run thread takes a message of the queue, and lets go of it.
LEMMA RunTyped == ASSUME QueueInv, QueueTyped, EndAlert \/ BetweenAlerts \/ Sleep PROVE QueueTyped'
<1> USE DEF Q!history, Q!RunGoes
<1>1. CASE Q!RunDequeue(Host)
  <2>1. msg_queue = Host /\ run[Host].pc = "poll"
    BY <1>1 DEF Q!RunDequeue, QueueInv, Started
  <2>2. queue[Host] # <<>> /\ queue'[Host] = Tail(queue[Host])
    BY <1>1, <2>1 DEF Q!RunDequeue, QueueInv, QueueShape
  <2>3. run'[Host] = [pc |-> "push", qmsg |-> Head(queue[Host])]
    BY <1>1, <2>1 DEF Q!RunDequeue, QueueInv, QueueShape
  <2>4. Head(queue[Host]) \in Q!Messages /\ Tail(queue[Host]) \in Seq(Q!Messages)
    BY <2>2 DEF QueueTyped
  <2>5. UNCHANGED <<alert_delay, accept_delay, add, accepted, pushed, interval>>
    BY <1>1 DEF Q!RunDequeue
  <2>6. QED
    BY <2>2, <2>3, <2>4, <2>5 DEF QueueTyped
<1>2. CASE Q!RunPush(Host)
  <2>1. pushed' = Append(pushed, run[Host].qmsg) /\ run[Host].qmsg \in Q!Messages
    BY <1>2 DEF Q!RunPush, QueueTyped
  <2>2. pushed' \in Seq(Q!Messages)
    BY <2>1 DEF QueueTyped
  <2>3. run'[Host] = [pc |-> "arm", qmsg |-> NULL]
    BY <1>2 DEF Q!RunPush, QueueInv, QueueShape
  <2>4. UNCHANGED <<queue, alert_delay, accept_delay, add, accepted>> /\ interval' = ALERT_DELAY
    BY <1>2 DEF Q!RunPush
  <2>5. QED
    BY <2>2, <2>3, <2>4 DEF QueueTyped
<1>3. CASE Q!RunNoMessage(Host) \/ Q!RunArmTimer(Host) \/ Q!RunTick(Host) \/ Q!RunSleep(Host)
  <2>1. run'[Host].pc # "push" /\ run'[Host].qmsg = run[Host].qmsg
    BY <1>3 DEF Q!RunNoMessage, Q!RunArmTimer, Q!RunTick, Q!RunSleep, QueueInv, QueueShape
  <2>2. UNCHANGED <<queue, alert_delay, accept_delay, add, accepted, pushed, interval>>
    BY <1>3 DEF Q!RunNoMessage, Q!RunArmTimer, Q!RunTick, Q!RunSleep
  <2>3. QED
    BY <2>1, <2>2 DEF QueueTyped
<1>4. QED
  BY <1>1, <1>2, <1>3 DEF EndAlert, BetweenAlerts, Sleep

\* The server reads the delay, and sets the timer with it.
LEMMA SetTyped == ASSUME QueueInv, QueueTyped, ReadDelay \/ SetDelay PROVE QueueTyped'
BY DEF ReadDelay, SetDelay, Q!SetAccept, Q!SetDelay, Q!NotSetting, Q!history, QueueInv, Started,
       QueueTyped

LEMMA NextQueueTyped == ASSUME QueueInv, QueueTyped, [Next]_vars PROVE QueueTyped'
<1>1. ASSUME UNCHANGED queueing PROVE QueueTyped'
  BY <1>1 DEF queueing, QueueTyped
<1>2. CASE \/ BeginAlert \/ InsideAlert \/ InsideAccept \/ EndAccept \/ Ack \/ SomeSending
           \/ UNCHANGED vars \/ \E a \in Alarms, ip \in IPs : BeginAccept(a, ip)
  BY <1>1, <1>2 DEF BeginAlert, InsideAlert, InsideAccept, EndAccept, Ack, SomeSending, Sending,
     vars, BeginAccept
<1>3. QED
  BY <1>2, RaiseTyped, InsideTyped, RunTyped, SetTyped DEF Next, RunThread, Handling

-----------------------------------------------------------------------------
(* The same for the senders.                                               *)

BufferNames == {"alert", "accept", "accept2"}
Levels == Alarms \union {P!Accepted, P!YouAccepted}
CallerPoints == {"idle", "alert", "accept", "build", "accept2", "build2", "push"}
Records == [P!Slots -> [in_use : BOOLEAN, ip_addr : IPs]]
Elements == [0 .. MAX_SPPHONES - 1 ->
               [ip_addr : P!Slots \union {NULL}, msg : BufferNames \union {NULL}]]

\* A sender, whichever of its fields have been read.
Sender(t) ==
  /\ t = [by |-> t.by, index |-> t.index, pc |-> t.pc, ip |-> t.ip, msg |-> t.msg,
          age |-> t.age]
  /\ t.age \in 0 .. TIMEOUT

\* A caller that is building a page has set its values.
CallersTyped ==
  \A c \in P!Callers :
    /\ caller[c].pc \in CallerPoints
    /\ caller[c].pc # "idle" => caller[c].alarm \in Alarms
    /\ caller[c].pc \in {"build", "build2"} => deptName \in Alarms /\ levelStr \in Levels

SendTyped ==
  /\ CallerShape
  /\ CallersTyped
  /\ SPphones \in Records
  /\ msgs \in Elements
  /\ msgBuf \in [BufferNames -> P!Pages]
  /\ alarmStr \in Alarms \union {NULL}
  /\ \A t \in threads : Sender(t)
  /\ escalated \subseteq Alarms

LEMMA SendTypeOK == ASSUME SendTyped, P!HistoryOK PROVE P!TypeOK
<1>1. DOMAIN msgBuf = BufferNames /\ \A b \in DOMAIN msgBuf : msgBuf[b] \in P!Pages
  BY DEF SendTyped
<1>2. \A c \in P!Callers :
        /\ caller[c].pc \in {"idle", "alert", "accept", "build", "accept2", "build2", "push"}
        /\ caller[c].sptr \in P!Slots \union {P!Start}
  BY DEF SendTyped, CallersTyped, CallerPoints, CallerShape
<1>3. QED
  BY <1>1, <1>2 DEF SendTyped, Records, Elements, Sender, P!TypeOK

LEMMA InitSendTyped == Init => SendTyped
<1> SUFFICES ASSUME Init PROVE SendTyped
  OBVIOUS
<1>1. P!NoPage \in P!Pages
  BY DEF P!Pages
<1>2. CallerShape
  BY InitShape DEF Shape
<1>3. \A c \in P!Callers : caller[c].pc = "idle"
  BY DEF Init, P!Init, P!Idle
<1>4. CallersTyped
  BY <1>3 DEF CallersTyped, CallerPoints
<1>5. QED
  BY <1>1, <1>2, <1>4 DEF Init, P!Init, SendTyped, Records, Elements, BufferNames

\* A push begins with an alarm: that of the message, or that of the accept.
LEMMA BeginTyped ==
  ASSUME QueueTyped, SendTyped, BeginAlert \/ \E a \in Alarms, ip \in IPs : BeginAccept(a, ip)
  PROVE  SendTyped'
<1>1. \E c \in P!Callers : \E pc \in {"alert", "accept"}, a \in Alarms : \E ip :
        caller' = [d \in P!Callers |->
                     IF d = c THEN [pc |-> pc, alarm |-> a, special_ip |-> ip,
                                    sptr |-> P!Start, msgIndex |-> 0]
                     ELSE caller[d]]
  <2>1. CASE BeginAlert
    <3>1. run[Host].qmsg.alarm \in Alarms
      BY <2>1 DEF BeginAlert, QueueTyped, Q!Messages
    <3>2. QED
      BY <2>1, <3>1, BeginStep, PartsOfCallers DEF SendTyped
  <2>2. CASE \E a \in Alarms, ip \in IPs : BeginAccept(a, ip)
    BY <2>2, BeginStep, PartsOfCallers DEF SendTyped
  <2>3. QED
    BY <2>1, <2>2
<1>2. CallerShape'
  BY <1>1 DEF SendTyped, CallerShape, P!Start, P!Slots
<1>3. UNCHANGED <<SPphones, msgs, msgBuf, deptName, levelStr, alarmStr, threads, escalated>>
  BY DEF BeginAlert, BeginAccept, P!PushAlert, P!PushAccept, P!build
<1>4. CallersTyped'
  BY <1>1, <1>3 DEF SendTyped, CallersTyped, CallerPoints
<1>5. QED
  BY <1>2, <1>3, <1>4 DEF SendTyped, Sender

\* The values of a page are set, and then put together.
LEMMA MakeTyped == ASSUME SendTyped, P!MakeAlert \/ P!MakeAccept PROVE SendTyped'
<1>1. ASSUME NEW c \in P!Callers, NEW pc \in CallerPoints, P!Goes(c, pc), caller[c].pc # "idle",
             UNCHANGED <<SPphones, msgs, threads, escalated>>,
             msgBuf' \in [BufferNames -> P!Pages],
             alarmStr' \in Alarms \union {NULL},
             \/ deptName' = deptName /\ levelStr' = levelStr /\ pc \notin {"build", "build2"}
             \/ deptName' \in Alarms /\ levelStr' \in Levels
      PROVE  SendTyped'
  <2>1. /\ CallerShape' /\ caller'[c].pc = pc /\ caller'[c].alarm = caller[c].alarm
        /\ \A d \in P!Callers : d # c => caller'[d] = caller[d]
    BY <1>1, GoesTo DEF SendTyped
  <2>2. CallersTyped'
    BY <1>1, <2>1 DEF SendTyped, CallersTyped
  <2>3. QED
    BY <1>1, <2>1, <2>2 DEF SendTyped, Sender
<1>2. ASSUME NEW c \in P!Callers, NEW from, NEW to \in CallerPoints, P!NoTemplate(c, from, to),
             from # "idle", to \notin {"build", "build2"}
      PROVE  SendTyped'
  BY <1>1, <1>2 DEF P!NoTemplate, P!ghosts, P!build, SendTyped
<1>3. ASSUME NEW c \in P!Callers, NEW from, NEW b \in BufferNames, NEW page,
             NEW to \in CallerPoints,
             P!BuildMsg(c, from, b, page, to), from \in {"build", "build2"},
             deptName \in Alarms /\ levelStr \in Levels => page \in P!Pages,
             to \notin {"build", "build2"}
      PROVE  SendTyped'
  <2>1. caller[c].pc = from
    BY <1>3 DEF P!BuildMsg
  <2>2. page \in P!Pages
    BY <1>3, <2>1 DEF SendTyped, CallersTyped
  <2>3. msgBuf' \in [BufferNames -> P!Pages]
    BY <1>3, <2>2 DEF P!BuildMsg, SendTyped
  <2>4. QED
    BY <1>1, <1>3, <2>1, <2>3 DEF P!BuildMsg, P!ghosts, P!build, SendTyped
<1>4. ASSUME NEW from, NEW text \in {P!Accepted, P!YouAccepted}, NEW to \in CallerPoints,
             P!SetAccept(from, text, to), from # "idle"
      PROVE  SendTyped'
  <2>1. deptName' \in Alarms /\ levelStr' \in Levels
    BY <1>4, PartsOfCallers DEF P!SetAccept, SendTyped, CallersTyped, Levels
  <2>2. QED
    BY <1>1, <1>4, <2>1, PartsOfCallers DEF P!SetAccept, P!ghosts, SendTyped
<1>5. "build" \in CallerPoints /\ "accept2" \in CallerPoints /\ "build2" \in CallerPoints
      /\ "push" \in CallerPoints
  BY DEF CallerPoints
<1>6. CASE P!SetAlert
  <2>1. deptName' \in Alarms /\ levelStr' \in Levels /\ alarmStr' \in Alarms
    BY <1>6, PartsOfCallers DEF P!SetAlert, SendTyped, CallersTyped, Levels
  <2>2. QED
    BY <1>1, <1>5, <1>6, <2>1, PartsOfCallers DEF P!SetAlert, P!ghosts, SendTyped
<1>7. deptName \in Alarms /\ levelStr \in Levels
        => /\ P!Page("alert", deptName, levelStr, alarmStr) \in P!Pages
           /\ P!Page("accept", deptName, levelStr, NULL) \in P!Pages
  BY DEF P!Page, P!Pages, Levels, SendTyped
<1>8. CASE P!BuildMsg(P!Runner, "build", "alert",
                      P!Page("alert", deptName, levelStr, alarmStr), "push")
  BY <1>3, <1>5, <1>7, <1>8, PartsOfCallers DEF BufferNames
<1>9. CASE P!BuildMsg(P!Server, "build", "accept",
                      P!Page("accept", deptName, levelStr, NULL), "accept2")
  BY <1>3, <1>5, <1>7, <1>9, PartsOfCallers DEF BufferNames
<1>10. CASE P!BuildMsg(P!Server, "build2", "accept2",
                       P!Page("accept", deptName, levelStr, NULL), "push")
  BY <1>3, <1>5, <1>7, <1>10, PartsOfCallers DEF BufferNames
<1>11. QED
  BY <1>2, <1>4, <1>5, <1>6, <1>8, <1>9, <1>10, PartsOfCallers DEF P!MakeAlert, P!MakeAccept

\* An element of msgs is filled, or, past its end, nothing of it is.
LEMMA PushOneTyped == ASSUME SendTyped, NEW c \in P!Callers, P!PushOne(c) PROVE SendTyped'
<1> DEFINE s == P!GetNextRecord(caller[c].sptr)
           i == caller[c].msgIndex
           r == [pc |-> "push", alarm |-> caller[c].alarm, special_ip |-> caller[c].special_ip,
                 sptr |-> s, msgIndex |-> i + 1]
<1>1. /\ s \in P!Slots /\ caller[c].pc = "push"
      /\ caller' = [d \in P!Callers |-> IF d = c THEN r ELSE caller[d]]
      /\ CallerShape'
  BY OneOn DEF SendTyped
<1>2. PICK b \in BufferNames : msgs' = [msgs EXCEPT ![i] = [ip_addr |-> s, msg |-> b]]
  BY DEF P!PushOne, BufferNames
<1>3. threads' = threads \union {[by |-> c, index |-> i, pc |-> "created", ip |-> NULL,
                                  msg |-> NULL, age |-> 0]}
  BY DEF P!PushOne
<1>4. UNCHANGED <<SPphones, msgBuf, deptName, levelStr, alarmStr, escalated>>
  BY DEF P!PushOne, P!build
<1> HIDE DEF s, i
<1>5. msgs' \in Elements
  BY <1>1, <1>2 DEF SendTyped, Elements
<1>6. \A t \in threads' : Sender(t)
  BY <1>3, AlarmPathAssumption DEF SendTyped, Sender
<1>7. CallersTyped'
  BY <1>1, <1>4 DEF SendTyped, CallersTyped
<1>8. QED
  BY <1>1, <1>4, <1>5, <1>6, <1>7 DEF SendTyped

\* A push is over, and its alarm may be escalated.
LEMMA PushedTyped == ASSUME SendTyped, P!AlertPushed \/ P!AcceptPushed PROVE SendTyped'
<1>1. PICK c \in P!Callers :
        /\ caller[c].pc = "push"
        /\ caller' = [d \in P!Callers |-> IF d = c THEN P!Idle ELSE caller[d]]
  BY PartsOfCallers DEF P!AlertPushed, P!AcceptPushed, SendTyped, CallerShape
<1>2. UNCHANGED <<SPphones, msgs, msgBuf, deptName, levelStr, alarmStr, threads>>
  BY DEF P!AlertPushed, P!AcceptPushed, P!build
<1>3. escalated' \subseteq Alarms
  BY PartsOfCallers DEF P!AlertPushed, P!AcceptPushed, SendTyped, CallersTyped
<1>4. CallerShape'
  BY <1>1 DEF SendTyped, CallerShape, P!Idle, P!Start
<1>5. CallersTyped'
  BY <1>1, <1>2 DEF SendTyped, CallersTyped, CallerPoints, P!Idle
<1>6. QED
  BY <1>2, <1>3, <1>4, <1>5 DEF SendTyped, Sender

\* A sender goes on, or ends.
LEMMA SendingTyped == ASSUME SendTyped, NEW t \in threads, Sending(t) PROVE SendTyped'
<1>1. UNCHANGED <<SPphones, msgs, msgBuf, deptName, levelStr, alarmStr, caller, escalated>>
  BY DEF Sending, P!ReadAddress, P!ReadMessage, P!Post, P!build
<1>2. Sender(t)
  BY DEF SendTyped
<1>3. ASSUME NEW x PROVE /\ Sender([t EXCEPT !.pc = "addressed", !.ip = x])
                         /\ Sender([t EXCEPT !.pc = "posting", !.msg = x])
  <2> DEFINE r == [by |-> t.by, index |-> t.index, pc |-> "addressed", ip |-> x, msg |-> t.msg,
                   age |-> t.age]
             q == [by |-> t.by, index |-> t.index, pc |-> "posting", ip |-> t.ip, msg |-> x,
                   age |-> t.age]
  <2>1. Sender(r) /\ Sender(q)
    BY <1>2 DEF Sender
  <2>2. [t EXCEPT !.pc = "addressed", !.ip = x] = r /\ [t EXCEPT !.pc = "posting", !.msg = x] = q
    <3> HIDE DEF r, q
    <3>1. t = [by |-> t.by, index |-> t.index, pc |-> t.pc, ip |-> t.ip, msg |-> t.msg,
               age |-> t.age]
      BY <1>2 DEF Sender
    <3>2. QED
      BY <3>1, Addressed, Posting DEF r, q
  <2> HIDE DEF r, q
  <2>3. QED
    BY <2>1, <2>2
<1>4. CASE P!ReadAddress(t)
  <2>1. PICK x : threads' = (threads \ {t}) \union {[t EXCEPT !.pc = "addressed", !.ip = x]}
    BY <1>4 DEF P!ReadAddress, P!Becomes
  <2>2. QED
    BY <1>1, <1>3, <2>1 DEF SendTyped, CallerShape, CallersTyped
<1>5. CASE P!ReadMessage(t)
  <2>1. PICK x : threads' = (threads \ {t}) \union {[t EXCEPT !.pc = "posting", !.msg = x]}
    BY <1>5 DEF P!ReadMessage, P!Becomes
  <2>2. QED
    BY <1>1, <1>3, <2>1 DEF SendTyped, CallerShape, CallersTyped
<1>6. CASE P!Post(t)
  BY <1>1, <1>6 DEF P!Post, SendTyped, CallerShape, CallersTyped
<1>7. QED
  BY <1>4, <1>5, <1>6 DEF Sending

\* Time passes for every sender, and no longer than curl's timeout.
LEMMA SleepTyped == ASSUME SendTyped, Sleep PROVE SendTyped'
<1>1. CASE UNCHANGED sending
  BY <1>1 DEF sending, SendTyped, CallerShape, CallersTyped
<1>2. CASE P!Tick
  <2>1. ASSUME NEW u \in threads' PROVE Sender(u)
    <3>1. PICK t \in threads : u = [t EXCEPT !.age = @ + 1]
      BY <1>2, <2>1 DEF P!Tick
    <3>2. Sender(t) /\ t.age < TIMEOUT
      BY <1>2 DEF P!Tick, SendTyped
    <3>3. u = Older(t)
      BY <3>1, <3>2 DEF Sender, Older
    <3>4. t.age + 1 \in 0 .. TIMEOUT
      BY <3>2, AlarmPathAssumption DEF Sender
    <3>5. QED
      BY <3>3, <3>4 DEF Sender, Older
  <2>2. UNCHANGED <<SPphones, msgs, msgBuf, deptName, levelStr, alarmStr, caller, escalated>>
    BY <1>2 DEF P!Tick, P!build
  <2>3. QED
    BY <2>1, <2>2 DEF SendTyped, CallerShape, CallersTyped
<1>3. QED
  BY <1>1, <1>2 DEF Sleep

LEMMA NextSendTyped == ASSUME QueueTyped, SendTyped, [Next]_vars PROVE SendTyped'
<1>1. CASE \/ Raise \/ InsideAdd \/ BetweenAlerts \/ ReadDelay \/ SetDelay \/ Ack
           \/ UNCHANGED vars
  <2>1. UNCHANGED sending
    BY <1>1 DEF Raise, InsideAdd, BetweenAlerts, ReadDelay, SetDelay, Ack, vars
  <2>2. QED
    BY <2>1 DEF sending, SendTyped, CallerShape, CallersTyped
<1>2. CASE P!PushOne(P!Runner) \/ P!PushOne(P!Server)
  BY <1>2, PushOneTyped, PartsOfCallers
<1>3. CASE SomeSending
  BY <1>3, SendingTyped DEF SomeSending
<1>4. QED
  BY <1>1, <1>2, <1>3, BeginTyped, MakeTyped, PushedTyped, SleepTyped
  DEF Next, RunThread, Handling, InsideAlert, EndAlert, InsideAccept, EndAccept

-----------------------------------------------------------------------------
(* The handler of an accept, between the two.                              *)

HandlerTyped ==
  /\ handler = [pc |-> handler.pc, alarm |-> handler.alarm]
  /\ handler.pc \in {"waiting", "pushing", "delaying", "setting", "acking"}
  /\ handler.pc # "waiting" => handler.alarm \in Alarms
  /\ handler.pc = "pushing" <=> caller[P!Server].pc # "idle"
  /\ handler.pc = "setting" <=> setting # Q!NotSetting
  /\ caller[P!Runner].pc # "idle" => run[Host].pc = "push"
  /\ acked \subseteq Alarms

\* TypeOK's last lines are about three threads; what they need of their parts is
\* that a message has an alarm and a delay that was read is one.
TypeInv == QueueInv /\ QueueTyped /\ SendTyped /\ P!HistoryOK /\ HandlerTyped

LEMMA InitHandler == Init => HandlerTyped
BY PartsOfCallers DEF Init, Q!Init, P!Init, P!Idle, Waiting, HandlerTyped

\* The steps of the queue leave the handler alone, and a run thread that pushes.
LEMMA QueueHandler ==
  ASSUME TypeInv, Raise \/ InsideAdd \/ BetweenAlerts \/ Sleep PROVE HandlerTyped'
<1>1. UNCHANGED <<handler, acked>>
  BY DEF Raise, InsideAdd, BetweenAlerts, Sleep, own
<1>2. caller' = caller
  BY DEF Raise, InsideAdd, BetweenAlerts, Sleep, sending, P!Tick
<1>3. setting' = setting
  BY DEF Raise, InsideAdd, BetweenAlerts, Sleep, Q!AddCall, Q!InsideAdd, Q!AddCreateQueue,
     Q!AddStartThread, Q!AddReadAlertDelay, Q!AddReadAcceptDelay, Q!AddEnqueue, Q!AddRefused,
     Q!RunDequeue, Q!RunNoMessage, Q!RunArmTimer, Q!RunTick, Q!RunSleep
<1>4. run'[Host].pc = "push" \/ run[Host].pc # "push"
  <2>1. CASE Raise
    BY <2>1 DEF Raise, Q!AddCall
  <2>2. CASE InsideAdd
    <3>1. run' = run \/ add[Host].pc = "thread"
      BY <2>2 DEF InsideAdd, Q!InsideAdd, Q!AddCreateQueue, Q!AddStartThread,
         Q!AddReadAlertDelay, Q!AddReadAcceptDelay, Q!AddEnqueue, Q!AddRefused
    <3>2. QED
      BY <3>1 DEF TypeInv, QueueInv, Started
  <2>3. CASE BetweenAlerts \/ Sleep
    BY <2>3 DEF BetweenAlerts, Sleep, Q!RunDequeue, Q!RunNoMessage, Q!RunArmTimer, Q!RunTick,
       Q!RunSleep
  <2>4. QED
    BY <2>1, <2>2, <2>3
<1>5. QED
  BY <1>1, <1>2, <1>3, <1>4 DEF TypeInv, HandlerTyped

\* What the steps of an alert and of an accept do to the two callers.
LEMMA PushPoints ==
  ASSUME CallerShape
  PROVE  /\ P!MakeAlert \/ P!PushOne(P!Runner)
              => /\ caller[P!Runner].pc # "idle" /\ caller'[P!Runner].pc # "idle"
                 /\ caller'[P!Server] = caller[P!Server]
         /\ P!MakeAccept \/ P!PushOne(P!Server)
              => /\ caller[P!Server].pc # "idle" /\ caller'[P!Server].pc # "idle"
                 /\ caller'[P!Runner] = caller[P!Runner]
         /\ P!AlertPushed => /\ caller'[P!Runner].pc = "idle"
                             /\ caller'[P!Server] = caller[P!Server]
         /\ P!AcceptPushed => /\ caller[P!Server].pc # "idle" /\ caller'[P!Server].pc = "idle"
                              /\ caller'[P!Runner] = caller[P!Runner]
<1>1. ASSUME P!MakeAlert
      PROVE  /\ caller[P!Runner].pc # "idle" /\ caller'[P!Runner].pc # "idle"
             /\ caller'[P!Server] = caller[P!Server]
  BY <1>1, GoesTo, PartsOfCallers
  DEF P!MakeAlert, P!SetAlert, P!BuildMsg, P!NoTemplate, P!Timed
<1>2. ASSUME P!MakeAccept
      PROVE  /\ caller[P!Server].pc # "idle" /\ caller'[P!Server].pc # "idle"
             /\ caller'[P!Runner] = caller[P!Runner]
  BY <1>2, GoesTo, PartsOfCallers
  DEF P!MakeAccept, P!SetAccept, P!BuildMsg, P!NoTemplate, P!Timed
<1>3. ASSUME NEW c \in P!Callers, P!PushOne(c)
      PROVE  /\ caller[c].pc # "idle" /\ caller'[c].pc # "idle"
             /\ \A d \in P!Callers : d # c => caller'[d] = caller[d]
  BY <1>3, OneOn
<1>4. ASSUME P!AlertPushed
      PROVE  /\ caller'[P!Runner].pc = "idle"
             /\ caller'[P!Server] = caller[P!Server]
  BY <1>4, PartsOfCallers DEF P!AlertPushed, P!Idle, CallerShape
<1>5. ASSUME P!AcceptPushed
      PROVE  /\ caller[P!Server].pc # "idle" /\ caller'[P!Server].pc = "idle"
             /\ caller'[P!Runner] = caller[P!Runner]
  BY <1>5, PartsOfCallers DEF P!AcceptPushed, P!Idle, CallerShape
<1>6. P!Runner \in P!Callers /\ P!Server \in P!Callers /\ P!Runner # P!Server
  BY PartsOfCallers
<1>7. QED
  BY <1>1, <1>2, <1>3, <1>4, <1>5, <1>6

\* An alert begins and ends within the run thread's push.
LEMMA AlertHandler ==
  ASSUME TypeInv, BeginAlert \/ InsideAlert \/ EndAlert PROVE HandlerTyped'
<1>1. UNCHANGED <<handler, acked>> /\ setting' = setting
  BY DEF BeginAlert, InsideAlert, EndAlert, own, queueing, Q!RunPush
<1>2. /\ caller'[P!Server] = caller[P!Server]
      /\ caller'[P!Runner].pc # "idle" => run'[Host].pc = "push"
  <2>1. CASE BeginAlert
    BY <2>1, BeginStep, PartsOfCallers DEF BeginAlert, queueing, TypeInv, SendTyped
  <2>2. CASE InsideAlert
    BY <2>2, PushPoints DEF InsideAlert, queueing, TypeInv, SendTyped, HandlerTyped
  <2>3. CASE EndAlert
    BY <2>3, PushPoints DEF EndAlert, TypeInv, SendTyped
  <2>4. QED
    BY <2>1, <2>2, <2>3
<1>3. QED
  BY <1>1, <1>2 DEF TypeInv, HandlerTyped

\* The handler waits for its push, and reads the delay, sets it and acknowledges
\* in turn.
LEMMA AcceptHandler ==
  ASSUME TypeInv, (\E a \in Alarms, ip \in IPs : BeginAccept(a, ip)) \/ Handling
  PROVE  HandlerTyped'
<1> DEFINE Shaped == handler = [pc |-> handler.pc, alarm |-> handler.alarm]
<1>1. Shaped /\ CallerShape
  BY DEF TypeInv, HandlerTyped, SendTyped
<1>2. CASE \E a \in Alarms, ip \in IPs : BeginAccept(a, ip)
  <2>1. PICK a \in Alarms, ip \in IPs : BeginAccept(a, ip)
    BY <1>2
  <2>2. caller'[P!Server].pc = "accept" /\ caller'[P!Runner] = caller[P!Runner]
    BY <1>1, <2>1, BeginStep, PartsOfCallers
  <2>3. /\ handler.pc = "waiting" /\ handler' = [pc |-> "pushing", alarm |-> a]
        /\ UNCHANGED <<acked, setting, run>>
    BY <2>1 DEF BeginAccept, Waiting, queueing
  <2>4. QED
    BY <2>2, <2>3 DEF TypeInv, HandlerTyped
<1>3. CASE InsideAccept
  BY <1>1, <1>3, PushPoints DEF InsideAccept, queueing, own, TypeInv, HandlerTyped
<1>4. CASE EndAccept
  <2>1. handler'.pc = "delaying" /\ handler' = [pc |-> handler'.pc, alarm |-> handler'.alarm]
        /\ handler'.alarm = handler.alarm
    BY <1>1, <1>4 DEF EndAccept
  <2>2. UNCHANGED <<acked, setting, run>>
    BY <1>4 DEF EndAccept, queueing
  <2>3. QED
    BY <1>1, <1>4, <2>1, <2>2, PushPoints DEF EndAccept, TypeInv, HandlerTyped
<1>5. CASE ReadDelay
  <2>1. handler'.pc = "setting" /\ handler' = [pc |-> handler'.pc, alarm |-> handler'.alarm]
        /\ handler'.alarm = handler.alarm
    BY <1>1, <1>5 DEF ReadDelay
  <2>2. setting' # Q!NotSetting
    BY <1>5, AlarmPathAssumption DEF ReadDelay, Q!SetAccept, Q!NotSetting, TypeInv, QueueTyped
  <2>3. UNCHANGED <<acked, caller, run>> /\ handler.pc = "delaying"
    BY <1>5 DEF ReadDelay, Q!SetAccept, sending
  <2>4. QED
    BY <2>1, <2>2, <2>3 DEF TypeInv, HandlerTyped
<1>6. CASE SetDelay
  <2>1. handler'.pc = "acking" /\ handler' = [pc |-> handler'.pc, alarm |-> handler'.alarm]
        /\ handler'.alarm = handler.alarm
    BY <1>1, <1>6 DEF SetDelay
  <2>2. setting # Q!NotSetting /\ setting' = Q!NotSetting
    BY <1>6 DEF SetDelay, Q!SetDelay
  <2>3. UNCHANGED <<acked, caller, run>>
    BY <1>6 DEF SetDelay, Q!SetDelay, sending
  <2>4. QED
    BY <2>1, <2>2, <2>3 DEF TypeInv, HandlerTyped
<1>7. CASE Ack
  BY <1>7 DEF Ack, Waiting, queueing, sending, TypeInv, HandlerTyped
<1>8. QED
  BY <1>2, <1>3, <1>4, <1>5, <1>6, <1>7 DEF Handling

LEMMA NextHandler == ASSUME TypeInv, [Next]_vars PROVE HandlerTyped'
<1>1. CASE SomeSending
  BY <1>1 DEF SomeSending, Sending, P!ReadAddress, P!ReadMessage, P!Post, queueing, own,
     TypeInv, HandlerTyped
<1>2. CASE UNCHANGED vars
  BY <1>2 DEF vars, queueing, sending, own, TypeInv, HandlerTyped
<1>3. QED
  BY <1>1, <1>2, QueueHandler, AlertHandler, AcceptHandler DEF Next, RunThread

\* The parts keep their types in the whole, and the handler is where the calls it
\* has made and not finished say it is: it returns to the web server only when its
\* push is over, the delay is set and the alarm is acknowledged.  The run thread
\* stays in its push until msgSend_PushAlert returns.
THEOREM TypeCorrect == Spec => []TypeOK
<1>1. Init => TypeInv
  BY InitQueue, InitQueueTyped, InitSendTyped, InitHandler DEF TypeInv, Init, P!Init, P!HistoryOK
<1>2. TypeInv /\ [Next]_vars => TypeInv'
  BY NextQueue, NextQueueTyped, NextSendTyped, NextHistory, NextHandler DEF TypeInv
<1>3. TypeInv => TypeOK
  BY QueueTypeOK, SendTypeOK DEF TypeInv, HandlerTyped, TypeOK
<1>4. QED
  BY <1>1, <1>2, <1>3, PTL DEF Spec
=============================================================================
