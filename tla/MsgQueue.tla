------------------------------ MODULE MsgQueue ------------------------------
(***************************************************************************)
(* msgQueue.c: alarms queued by msgQueue_Add and pushed to the phones at   *)
(* timed intervals by _msgQueue_RunThread.                                 *)
(*                                                                         *)
(* The first call of msgQueue_Add creates the queue and its run thread,    *)
(* with no lock around the test of msg_queue, so the steps of a call are   *)
(* kept apart.  A queue and a run thread are named by the calling thread   *)
(* that creates them: there is one of each when the host calls from one    *)
(* thread.  Run threads read the global msg_queue whoever started them.    *)
(*                                                                         *)
(* A queue is the bounded FIFO that Queues.tla shows queues.c to be.  One  *)
(* unit of time is one usleep of 100 ms.                                   *)
(***************************************************************************)
EXTENDS Integers, Sequences, FiniteSets

CONSTANTS
  Callers,          \* threads of the host that call msgQueue_Add
  Alarms,           \* what they pass: department, alarm number, level
  NameLength,       \* [Alarms -> length of the department name]
  MAX_DEPT_NAME,
  MAX_MSGS,         \* capacity of the queue
  ALERT_DELAY,      \* "phones/alert_delay", in units of 100 ms
  ACCEPT_DELAY,     \* "phones/accept_delay", in units of 100 ms
  NULL,             \* no queue yet
  MaxAdds,          \* bound: alarms accepted in a run
  Horizon           \* bound: elapsed time is told apart up to here

ASSUME MsgQueueAssumption ==
  /\ NULL \notin Callers
  /\ NameLength \in [Alarms -> Nat]
  /\ MAX_DEPT_NAME \in Nat
  /\ MAX_MSGS \in Nat \ {0}
  /\ ALERT_DELAY \in Nat
  /\ ACCEPT_DELAY \in Nat
  /\ MaxAdds \in Nat
  /\ Horizon \in Nat
  /\ Horizon > ALERT_DELAY
  /\ Horizon > ACCEPT_DELAY

VARIABLES
  \* globals of msgQueue.c
  msg_queue,        \* which queue the module uses, or NULL
  queue,            \* [Callers -> contents of the queue it created]
  timer,            \* msgQueue_timer
  alert_delay,      \* msgQueue_alert_delay
  accept_delay,     \* msgQueue_accept_delay
  \* threads
  add,              \* [Callers -> its call of msgQueue_Add]
  run,              \* [Callers -> the run thread it started]
  setting,          \* the delay the web server's msgQueue_SetAccept carries
  \* history, read by no step
  accepted,         \* what msgQueue_Add has queued, in order
  pushed,           \* what msgSend_PushAlert has been given, in order
  sincePush,        \* time slept since the last push
  sinceAccept,      \* time slept since the last msgQueue_SetAccept
  interval          \* least delay asked for since the last push

vars == <<msg_queue, queue, timer, alert_delay, accept_delay, add, run, setting,
          accepted, pushed, sincePush, sinceAccept, interval>>
history == <<accepted, pushed, sincePush, sinceAccept, interval>>

-----------------------------------------------------------------------------
(***************************************************************************)
(* msg_queue_t.  strncpy copies at most MAX_DEPT_NAME characters and only  *)
(* a name longer than that is terminated by hand: a name of exactly that   *)
(* length leaves the last byte of the stack variable as it was.            *)
(***************************************************************************)
DeptStates == {"whole", "cut", "unterminated"}
Messages == [alarm : Alarms, dept : DeptStates]

Copied(a) ==
  {[alarm |-> a, dept |-> d] : d \in
     IF NameLength[a] > MAX_DEPT_NAME THEN {"cut"}
     ELSE IF NameLength[a] = MAX_DEPT_NAME THEN {"whole", "unterminated"}
     ELSE {"whole"}}

\* Where a call of msgQueue_Add and a run thread can be.
AddPoints == {"idle", "create", "thread", "alert_delay", "accept_delay", "enqueue"}
RunPoints == {"off", "poll", "push", "arm", "wait", "pause", "last", "idle"}
Calls == [pc : AddPoints, msg : Messages \union {NULL}]
Threads == [pc : RunPoints, qmsg : Messages \union {NULL}]

NotAdding == [pc |-> "idle", msg |-> NULL]
NotRunning == [pc |-> "off", qmsg |-> NULL]
NotSetting == -1

Init ==
  /\ msg_queue = NULL
  /\ queue = [c \in Callers |-> <<>>]
  /\ timer = 0
  /\ alert_delay = 0
  /\ accept_delay = 0
  /\ add = [c \in Callers |-> NotAdding]
  /\ run = [c \in Callers |-> NotRunning]
  /\ setting = NotSetting
  /\ accepted = <<>>
  /\ pushed = <<>>
  /\ sincePush = 0
  /\ sinceAccept = Horizon
  /\ interval = ALERT_DELAY

-----------------------------------------------------------------------------
\* A thread goes on to another point of its code.
AddGoes(c, pc) == add' = [add EXCEPT ![c].pc = pc]
RunGoes(r, pc) == run' = [run EXCEPT ![r].pc = pc]

-----------------------------------------------------------------------------
(* msgQueue_Add, and _msgQueue_Init inside it.                             *)

\* The test for "not initialized yet".
AddCall(c) ==
  /\ add[c].pc = "idle"
  /\ Len(accepted) < MaxAdds
  /\ \E a \in Alarms : \E m \in Copied(a) :
       add' = [add EXCEPT ![c] = [pc |-> IF msg_queue = NULL THEN "create" ELSE "enqueue",
                                  msg |-> m]]
  /\ UNCHANGED <<msg_queue, queue, timer, alert_delay, accept_delay, run, setting, history>>

AddCreateQueue(c) ==
  /\ add[c].pc = "create"
  /\ msg_queue' = c
  /\ AddGoes(c, "thread")
  /\ UNCHANGED <<queue, timer, alert_delay, accept_delay, run, setting, history>>

AddStartThread(c) ==
  /\ add[c].pc = "thread"
  /\ RunGoes(c, "poll")
  /\ AddGoes(c, "alert_delay")
  /\ UNCHANGED <<msg_queue, queue, timer, alert_delay, accept_delay, setting, history>>

\* Mutant: the other delay is read twice.
AddReadWrongDelay(c) ==
  /\ add[c].pc = "alert_delay"
  /\ alert_delay' = ACCEPT_DELAY
  /\ AddGoes(c, "accept_delay")
  /\ UNCHANGED <<msg_queue, queue, timer, accept_delay, run, setting, history>>

AddReadAlertDelay(c) ==
  /\ add[c].pc = "alert_delay"
  /\ alert_delay' = ALERT_DELAY
  /\ AddGoes(c, "accept_delay")
  /\ UNCHANGED <<msg_queue, queue, timer, accept_delay, run, setting, history>>

AddReadAcceptDelay(c) ==
  /\ add[c].pc = "accept_delay"
  /\ accept_delay' = ACCEPT_DELAY
  /\ AddGoes(c, "enqueue")
  /\ UNCHANGED <<msg_queue, queue, timer, alert_delay, run, setting, history>>

\* enqueue_data; a full queue makes msgQueue_Add return -1.
HasRoom == Len(queue[msg_queue]) < MAX_MSGS

AddEnqueue(c) ==
  /\ add[c].pc = "enqueue"
  /\ HasRoom
  /\ queue' = [queue EXCEPT ![msg_queue] = Append(@, add[c].msg)]
  /\ accepted' = Append(accepted, add[c].msg)
  /\ add' = [add EXCEPT ![c] = NotAdding]
  /\ UNCHANGED <<msg_queue, timer, alert_delay, accept_delay, run, setting,
                 pushed, sincePush, sinceAccept, interval>>

AddRefused(c) ==
  /\ add[c].pc = "enqueue"
  /\ ~HasRoom
  /\ add' = [add EXCEPT ![c] = NotAdding]
  /\ UNCHANGED <<msg_queue, queue, timer, alert_delay, accept_delay, run, setting, history>>

-----------------------------------------------------------------------------
(***************************************************************************)
(* msgQueue_SetAccept, called by the web server's thread when a phone      *)
(* accepts an alarm: at any time, as a phone may still show a page it was  *)
(* sent before a restart.  The delay is read before the mutex is taken.    *)
(***************************************************************************)
SetAccept ==
  /\ setting = NotSetting
  /\ setting' = accept_delay
  /\ UNCHANGED <<msg_queue, queue, timer, alert_delay, accept_delay, add, run, history>>

SetDelay ==
  /\ setting # NotSetting
  /\ timer' = setting
  /\ setting' = NotSetting
  /\ sinceAccept' = 0
  /\ interval' = IF setting < interval THEN setting ELSE interval
  /\ UNCHANGED <<msg_queue, queue, alert_delay, accept_delay, add, run,
                 accepted, pushed, sincePush>>

-----------------------------------------------------------------------------
(* _msgQueue_RunThread.                                                    *)

\* Mutant: read_queue_data in place of dequeue_data.
RunRead(r) ==
  /\ run[r].pc = "poll"
  /\ queue[msg_queue] # <<>>
  /\ run' = [run EXCEPT ![r] = [pc |-> "push", qmsg |-> Head(queue[msg_queue])]]
  /\ UNCHANGED <<msg_queue, queue, timer, alert_delay, accept_delay, add, setting, history>>

RunDequeue(r) ==
  /\ run[r].pc = "poll"
  /\ queue[msg_queue] # <<>>
  /\ run' = [run EXCEPT ![r] = [pc |-> "push", qmsg |-> Head(queue[msg_queue])]]
  /\ queue' = [queue EXCEPT ![msg_queue] = Tail(@)]
  /\ UNCHANGED <<msg_queue, timer, alert_delay, accept_delay, add, setting, history>>

\* Mutant: the thread returns when it finds the queue empty.
RunReturns(r) ==
  /\ run[r].pc = "poll"
  /\ queue[msg_queue] = <<>>
  /\ RunGoes(r, "off")
  /\ UNCHANGED <<msg_queue, queue, timer, alert_delay, accept_delay, add, setting, history>>

RunNoMessage(r) ==
  /\ run[r].pc = "poll"
  /\ queue[msg_queue] = <<>>
  /\ RunGoes(r, "idle")
  /\ UNCHANGED <<msg_queue, queue, timer, alert_delay, accept_delay, add, setting, history>>

\* msgSend_PushAlert.
RunPush(r) ==
  /\ run[r].pc = "push"
  /\ pushed' = Append(pushed, run[r].qmsg)
  /\ sincePush' = 0
  /\ interval' = ALERT_DELAY
  /\ run' = [run EXCEPT ![r] = [pc |-> "arm", qmsg |-> NULL]]
  /\ UNCHANGED <<msg_queue, queue, timer, alert_delay, accept_delay, add, setting,
                 accepted, sinceAccept>>

\* Mutant: counts down from the other delay.
RunArmWrongDelay(r) ==
  /\ run[r].pc = "arm"
  /\ timer' = accept_delay
  /\ RunGoes(r, "wait")
  /\ UNCHANGED <<msg_queue, queue, alert_delay, accept_delay, add, setting, history>>

\* Mutant: goes on with what is left in the timer.
RunKeepsTimer(r) ==
  /\ run[r].pc = "arm"
  /\ RunGoes(r, "wait")
  /\ UNCHANGED <<msg_queue, queue, timer, alert_delay, accept_delay, add, setting, history>>

RunArmTimer(r) ==
  /\ run[r].pc = "arm"
  /\ timer' = alert_delay
  /\ RunGoes(r, "wait")
  /\ UNCHANGED <<msg_queue, queue, alert_delay, accept_delay, add, setting, history>>

\* Mutant: the last tenth of a second is left out.
RunTickEarly(r) ==
  /\ run[r].pc = "wait"
  /\ timer' = timer - 1
  /\ RunGoes(r, IF timer' <= 1 THEN "last" ELSE "pause")
  /\ UNCHANGED <<msg_queue, queue, alert_delay, accept_delay, add, setting, history>>

\* --msgQueue_timer <= 0 sets next_msg, which is looked at after the sleep.
RunTick(r) ==
  /\ run[r].pc = "wait"
  /\ timer' = timer - 1
  /\ RunGoes(r, IF timer' <= 0 THEN "last" ELSE "pause")
  /\ UNCHANGED <<msg_queue, queue, alert_delay, accept_delay, add, setting, history>>

Later(t) == IF t < Horizon THEN t + 1 ELSE t

\* usleep( 100000 )
RunSleep(r) ==
  /\ run[r].pc \in {"pause", "last", "idle"}
  /\ RunGoes(r, IF run[r].pc = "pause" THEN "wait" ELSE "poll")
  /\ sincePush' = Later(sincePush)
  /\ sinceAccept' = Later(sinceAccept)
  /\ UNCHANGED <<msg_queue, queue, timer, alert_delay, accept_delay, add, setting,
                 accepted, pushed, interval>>

-----------------------------------------------------------------------------
InsideAdd(c) ==
  \/ AddCreateQueue(c) \/ AddStartThread(c) \/ AddReadAlertDelay(c)
  \/ AddReadAcceptDelay(c) \/ AddEnqueue(c) \/ AddRefused(c)

RunThread(r) ==
  \/ RunDequeue(r) \/ RunNoMessage(r) \/ RunPush(r)
  \/ RunArmTimer(r) \/ RunTick(r) \/ RunSleep(r)

Next ==
  \/ \E c \in Callers : AddCall(c) \/ InsideAdd(c) \/ RunThread(c)
  \/ SetAccept
  \/ SetDelay

Spec == Init /\ [][Next]_vars

\* A call once made and a thread once started are scheduled; nothing makes
\* the host raise an alarm or a user press a key.
Fairness == \A c \in Callers : WF_vars(InsideAdd(c)) /\ WF_vars(RunThread(c))

FairSpec == Spec /\ Fairness

-----------------------------------------------------------------------------
\* The shape of the globals, the threads and the history.
TypeOK ==
  /\ msg_queue \in Callers \union {NULL}
  /\ queue \in [Callers -> Seq(Messages)]
  /\ timer \in Int
  /\ alert_delay \in {0, ALERT_DELAY}
  /\ accept_delay \in {0, ACCEPT_DELAY}
  /\ add \in [Callers -> Calls]
  /\ run \in [Callers -> Threads]
  /\ setting \in {NotSetting, 0, ACCEPT_DELAY}
  /\ accepted \in Seq(Messages)
  /\ pushed \in Seq(Messages)
  /\ sincePush \in 0 .. Horizon
  /\ sinceAccept \in 0 .. Horizon
  /\ interval \in {0, ACCEPT_DELAY, ALERT_DELAY}

-----------------------------------------------------------------------------
(* Nothing is lost.                                                        *)

\* What the run thread of the queue in use has dequeued and not pushed.
InHand(r) == IF run[r].pc = "push" THEN <<run[r].qmsg>> ELSE <<>>

Waiting == IF msg_queue = NULL THEN <<>> ELSE InHand(msg_queue) \o queue[msg_queue]

\* Every alarm for which msgQueue_Add returned 0 has been pushed, is being
\* pushed or is queued, once, and in the order of the calls.
NothingLostOrReordered == accepted = pushed \o Waiting

\* An alarm msgQueue_Add took is pushed in the end, unless phones go on
\* accepting for ever: every accept starts the delay again.
AcceptsCease == <>[][~SetAccept]_vars

AcceptedIsPushed ==
  AcceptsCease => \A n \in 1 .. MaxAdds : (Len(accepted) >= n) ~> (Len(pushed) >= n)

-----------------------------------------------------------------------------
(* The intervals.                                                          *)

AtLeastOne(n) == IF n = 0 THEN 1 ELSE n

\* Between two pushes lies alert_delay, or the accept_delay of an accept that
\* came in between if that is shorter, never less: although the run thread
\* starts before the delays are read, and the web server writes at any moment
\* the one variable that both delays are counted down in.
Paced ==
  \A r \in Callers :
    run[r].pc = "push" /\ pushed # <<>> => sincePush >= AtLeastOne(interval)

-----------------------------------------------------------------------------
(* What the sources say and the code does not do.                          *)

\* "Delay after accept" (msgQueue.c:36), "delay before next alarm msg"
\* (server.c:215): the alarm after an accept is not pushed before accept_delay
\* is over.  (interval > 0 leaves out an accept that read the delay while it
\* was still 0.)
AcceptDelayHonoured ==
  [][ \A r \in Callers :
        RunDequeue(r) /\ pushed # <<>> /\ interval > 0
          => sinceAccept >= ACCEPT_DELAY ]_vars

\* The module "receives alarms from the system and queues them.  They are then
\* are output to the phones at timed intervals" (README.dox:30): an alarm taken
\* and not yet pushed is in a run thread's hands or in the queue they read.
AllAccountedFor ==
  msg_queue # NULL =>
    Len(accepted) = Len(pushed) + Len(queue[msg_queue])
                    + Cardinality({r \in Callers : run[r].pc = "push"})

\* A name of MAX_DEPT_NAME characters is not "too long" (msgQueue.c:85).
NamesTerminated == \A i \in DOMAIN pushed : pushed[i].dept # "unterminated"
=============================================================================
