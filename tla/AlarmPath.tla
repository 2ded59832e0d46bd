----------------------------- MODULE AlarmPath -----------------------------
(***************************************************************************)
(* The way of an alarm: from the host's call through the message queue to  *)
(* the phones, and back from the user who accepts it.  MsgQueue.tla's run  *)
(* thread calls msgSend_PushAlert of MsgSend.tla; the activate handler of  *)
(* server.c calls msgSend_PushAccept and then msgQueue_SetAccept.          *)
(*                                                                         *)
(* MsgSend.tla's threads need the buffers and msgs[ ] left alone until     *)
(* they are done, and nothing but MsgQueue.tla's timer sees to it.  Time   *)
(* passes as the run thread sleeps, and ages the threads that send.        *)
(***************************************************************************)
EXTENDS Integers, Sequences, FiniteSets

CONSTANTS
  Host,             \* the thread of the host that calls msgQueue_Add
  Alarms, NameLength, MAX_DEPT_NAME, MAX_MSGS, ALERT_DELAY, ACCEPT_DELAY, Horizon,
  NPhones, MAX_SPPHONES, IPs, PrefixPairs, TIMEOUT, Overlap, TemplateFails, MaxAccepts,
  MaxAdds, NULL

\* What the parts assume of their constants, as far as the whole needs it.
ASSUME AlarmPathAssumption ==
  /\ Host # NULL
  /\ NPhones \in Nat \ {0}
  /\ MAX_SPPHONES \in Nat
  /\ TIMEOUT \in Nat
  /\ ALERT_DELAY \in Nat /\ ACCEPT_DELAY \in Nat /\ Horizon \in Nat
  /\ Horizon > ALERT_DELAY /\ Horizon > ACCEPT_DELAY

VARIABLES
  msg_queue, queue, timer, alert_delay, accept_delay, add, run, setting,
  accepted, pushed, sincePush, sinceAccept, interval,
  SPphones, msgs, msgBuf, deptName, levelStr, alarmStr, caller, threads,
  accepts, escalated, sent, expected, taken, disturbed,
  handler,          \* where the server's thread is in _server_activate_handler
  acked,            \* alarms given to ack_alarm_num_no_verify
  \* history
  heeded,           \* did the last accept find the timer running?
  hurried           \* was a delay not longer than curl's timeout asked for?

Q == INSTANCE MsgQueue WITH Callers <- {Host}
P == INSTANCE MsgSend

queueing == <<msg_queue, queue, timer, alert_delay, accept_delay, add, run, setting,
              accepted, pushed, sincePush, sinceAccept, interval>>
sending == <<SPphones, msgs, msgBuf, deptName, levelStr, alarmStr, caller, threads,
             accepts, escalated, sent, expected, taken, disturbed>>
own == <<handler, acked, heeded, hurried>>

vars == <<queueing, sending, own>>

Waiting == [pc |-> "waiting", alarm |-> NULL]

Init ==
  /\ Q!Init
  /\ P!Init
  /\ handler = Waiting
  /\ acked = {}
  /\ heeded = FALSE
  /\ hurried = FALSE

-----------------------------------------------------------------------------
(* The host raises each alarm once.                                        *)

AlarmsOf(messages) == {messages[i].alarm : i \in DOMAIN messages}

Raise ==
  /\ Q!AddCall(Host)
  /\ add'[Host].msg.alarm \notin AlarmsOf(accepted)
  /\ UNCHANGED <<sending, own>>

InsideAdd == Q!InsideAdd(Host) /\ UNCHANGED <<sending, own>>

-----------------------------------------------------------------------------
(* The run thread.                                                         *)

BeginAlert ==
  /\ run[Host].pc = "push"
  /\ P!PushAlert(run[Host].qmsg.alarm)
  /\ hurried' = (hurried \/ (pushed # <<>> /\ interval <= TIMEOUT))
  /\ UNCHANGED <<queueing, handler, acked, heeded>>

InsideAlert ==
  /\ P!MakeAlert \/ P!PushOne(P!Runner)
  /\ UNCHANGED <<queueing, own>>

\* msgSend_PushAlert returns.
EndAlert ==
  /\ P!AlertPushed
  /\ Q!RunPush(Host)
  /\ heeded' = FALSE
  /\ UNCHANGED <<handler, acked, hurried>>

BetweenAlerts ==
  /\ Q!RunDequeue(Host) \/ Q!RunNoMessage(Host) \/ Q!RunArmTimer(Host) \/ Q!RunTick(Host)
  /\ UNCHANGED <<sending, own>>

\* usleep: no thread that sends outlives curl's timeout.
Sleep ==
  /\ Q!RunSleep(Host)
  /\ IF threads = {} THEN UNCHANGED sending ELSE P!Tick
  /\ UNCHANGED own

-----------------------------------------------------------------------------
(* _server_activate_handler, for a response with "ack" in it; it changes   *)
(* nothing for any other.                                                  *)

BeginAccept(a, ip) ==
  /\ handler = Waiting
  /\ P!PushAccept(a, ip)
  /\ handler' = [pc |-> "pushing", alarm |-> a]
  /\ UNCHANGED <<queueing, acked, heeded, hurried>>

InsideAccept ==
  /\ P!MakeAccept \/ P!PushOne(P!Server)
  /\ UNCHANGED <<queueing, own>>

EndAccept ==
  /\ P!AcceptPushed
  /\ handler' = [handler EXCEPT !.pc = "delaying"]
  /\ UNCHANGED <<queueing, acked, heeded, hurried>>

ReadDelay ==
  /\ handler.pc = "delaying"
  /\ Q!SetAccept
  /\ handler' = [handler EXCEPT !.pc = "setting"]
  /\ UNCHANGED <<sending, acked, heeded, hurried>>

TimerRuns == run[Host].pc \in {"wait", "pause"}

SetDelay ==
  /\ Q!SetDelay
  /\ handler' = [handler EXCEPT !.pc = "acking"]
  /\ heeded' = TimerRuns
  /\ UNCHANGED <<sending, acked, hurried>>

Ack ==
  /\ handler.pc = "acking"
  /\ acked' = acked \union {handler.alarm}
  /\ handler' = Waiting
  /\ UNCHANGED <<queueing, sending, heeded, hurried>>

-----------------------------------------------------------------------------
(* The threads that send.                                                  *)

Sending(t) ==
  /\ P!ReadAddress(t) \/ P!ReadMessage(t) \/ P!Post(t)
  /\ UNCHANGED <<queueing, own>>

-----------------------------------------------------------------------------
RunThread == BeginAlert \/ InsideAlert \/ EndAlert \/ BetweenAlerts \/ Sleep
Handling == InsideAccept \/ EndAccept \/ ReadDelay \/ SetDelay \/ Ack
SomeSending == \E t \in threads : Sending(t)

Next ==
  \/ Raise
  \/ InsideAdd
  \/ RunThread
  \/ \E a \in Alarms, ip \in IPs : BeginAccept(a, ip)
  \/ Handling
  \/ SomeSending

Spec == Init /\ [][Next]_vars

\* Threads that have something to do get to do it; hosts, phones and users
\* need not do anything.
Fairness ==
  /\ WF_vars(InsideAdd)
  /\ WF_vars(RunThread)
  /\ WF_vars(Handling)
  /\ WF_vars(SomeSending)

-----------------------------------------------------------------------------
\* The parts have their types, and the handler is where the calls it has made
\* and not finished say it is.
TypeOK ==
  /\ Q!TypeOK
  /\ P!TypeOK
  /\ handler.pc \in {"waiting", "pushing", "delaying", "setting", "acking"}
  /\ handler.pc = "pushing" <=> caller[P!Server].pc # "idle"
  /\ handler.pc = "setting" <=> setting # Q!NotSetting
  /\ caller[P!Runner].pc # "idle" => run[Host].pc = "push"
  /\ acked \subseteq Alarms

\* The pages sent are those that were meant, each to its phone ("uses libcurl
\* to send HTML pages to all available phones", README.dox:33).  Taken as it
\* stands it does not hold.
AllServed == P!AllServed

\* Once every alert but the first has come after a delay longer than curl's
\* timeout, and nothing has disturbed a push, that delay is enough to keep the
\* threads of each alert apart from the next, whatever the settings are.
ServedInTime == ~disturbed /\ ~hurried => AllServed

\* An accept that comes while the timer runs is the "delay before next alarm
\* msg" (server.c:215): at least that long until the next alert, whatever was
\* left of the old delay, and not that of the accept of an earlier alarm.
AcceptHeeded == run[Host].pc = "push" /\ heeded => sinceAccept >= ACCEPT_DELAY

\* An alarm that msgQueue_Add took has in the end been given to curl for some
\* phone, or been escalated: no phone that hangs or fails, and no user, keeps
\* the queue from moving on.  Whether any phone took it nobody finds out: what
\* curl_easy_perform returns is only logged (msgSend.c:215).  (The bound on
\* accepts ends them.)
Sent(a) == \E ip \in IPs : [ip |-> ip, page |-> P!AlertPage(a)] \in sent
=============================================================================
