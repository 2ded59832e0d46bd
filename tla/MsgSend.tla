------------------------------ MODULE MsgSend ------------------------------
(***************************************************************************)
(* msgSend.c and msgBuild.c: the pages sent to the phones, by the thread   *)
(* of the message queue (an alert) and by the web server's thread (an      *)
(* accept).                                                                *)
(*                                                                         *)
(* A push is one thread per phone in the table.  Such a thread is given    *)
(* the place of its data in msgs[ ], from which it reads, some time later, *)
(* a pointer to the address in the phone's record and a pointer to the     *)
(* page; the page is in a buffer that the next push of the kind fills      *)
(* again.  Nobody waits for the threads: only time keeps two pushes apart. *)
(* curl gives up after its timeout, which is here; the delay between two   *)
(* alerts is msgQueue.c's, and AlarmPath.tla puts the two together.        *)
(*                                                                         *)
(* A page is what tells pages apart: the template it is made from and the  *)
(* three values put into it.  They pass through variables that the alerts  *)
(* and the accepts share (deptName, levelStr, alarmStr).                   *)
(***************************************************************************)
EXTENDS Integers, FiniteSets, FiniteSetsExt

CONSTANTS
  NPhones,          \* records in the table, "phones/max_phones"
  MAX_SPPHONES,     \* elements of msgs[ ]
  IPs,              \* addresses phones have
  PrefixPairs,      \* <<i, j>>: the text of i starts the text of j, i # j
  Alarms,           \* each is pushed once
  TIMEOUT,          \* CURLOPT_TIMEOUT
  Overlap,          \* bound: what may come at a bad time (see MayPush); in the
                    \* program all of it may
  TemplateFails,    \* may reading a template fail?
  MaxAccepts,       \* bound: accepts pushed
  NULL              \* no address, no alarm

ASSUME MsgSendAssumption ==
  /\ NPhones \in Nat \ {0}
  /\ MAX_SPPHONES \in Nat
  /\ PrefixPairs \subseteq IPs \X IPs
  /\ TIMEOUT \in Nat
  /\ Overlap \subseteq {"calls", "accepts", "phones"} /\ TemplateFails \in BOOLEAN
  /\ MaxAccepts \in Nat
  /\ NULL \notin IPs \union Alarms

VARIABLES
  SPphones,         \* spRec.c's table: in_use and ip_addr of each record
  msgs,             \* [ip_addr: which record's, msg: which buffer]
  msgBuf,           \* the pages in the three buffers
  deptName, levelStr, alarmStr,     \* what the next page is made of
  caller,           \* the two threads that push
  threads,          \* the threads that send
  accepts,          \* accepts pushed
  escalated,        \* alarms given to escalate_alarm
  \* history; only an accept looks at it, for a page that a phone shows
  sent, expected,   \* pages given to curl_easy_perform, and pages meant to be
  taken,            \* alert pages sent that a phone has taken
  disturbed         \* has one of these come at a bad time, or a template failed?

vars == <<SPphones, msgs, msgBuf, deptName, levelStr, alarmStr, caller, threads,
          accepts, escalated, sent, expected, taken, disturbed>>

build == <<deptName, levelStr, alarmStr>>
ghosts == <<sent, expected, taken, disturbed>>

Slots == 0 .. NPhones - 1
Start == -1
NoRecord == NPhones
Used(s) == SPphones[s].in_use

GetNextRecord(s) ==
  LET ahead == {j \in Slots : j > s /\ Used(j)}
  IN  IF ahead = {} THEN NoRecord ELSE Min(ahead)

Page(template, dept, level, alarm) ==
  [template |-> template, dept |-> dept, level |-> level, alarm |-> alarm]
AlertPage(a) == Page("alert", a, a, a)
AcceptPage(a, text) == Page("accept", a, text, NULL)
NoPage == Page("none", NULL, NULL, NULL)

Accepted == "Request Accepted"
YouAccepted == "You've accepted"

Runner == "runner"
Server == "server"
Callers == {Runner, Server}
Idle == [pc |-> "idle", alarm |-> NULL, special_ip |-> NULL, sptr |-> Start, msgIndex |-> 0]

Init ==
  /\ SPphones \in [Slots -> [in_use : BOOLEAN, ip_addr : IPs]]
  /\ \A r, s \in Slots : r # s => SPphones[r].ip_addr # SPphones[s].ip_addr
  /\ msgs = [i \in 0 .. MAX_SPPHONES - 1 |-> [ip_addr |-> NULL, msg |-> NULL]]
  /\ msgBuf = [b \in {"alert", "accept", "accept2"} |-> NoPage]
  /\ deptName = NULL /\ levelStr = NULL /\ alarmStr = NULL
  /\ caller = [c \in Callers |-> Idle]
  /\ threads = {}
  /\ accepts = 0
  /\ escalated = {}
  /\ sent = {} /\ expected = {} /\ taken = {}
  /\ disturbed = FALSE

-----------------------------------------------------------------------------
Goes(c, pc) == caller' = [caller EXCEPT ![c].pc = pc]

(***************************************************************************)
(* What nothing in the code rules out: a push in the middle of another, or *)
(* before the threads of another have read their elements of msgs; an      *)
(* accept while pages of an earlier accept are under way; a change of the  *)
(* table while it is walked, or before a thread has read its address.      *)
(* Whichever comes is remembered in disturbed.                             *)
(***************************************************************************)
NobodyPushes == \A c \in Callers : caller[c].pc = "idle"
Alone == NobodyPushes /\ \A t \in threads : t.pc = "posting"
Settled == \A t \in threads : t.by = Runner
Still == NobodyPushes /\ \A t \in threads : t.pc # "created"

MayPush == "calls" \in Overlap \/ Alone
MayAccept == "accepts" \in Overlap \/ Settled
MayChangePhones == "phones" \in Overlap \/ Still

\* What a step that was well timed, or not, leaves in the history.
Timed(well) ==
  /\ disturbed' = (disturbed \/ ~well)
  /\ UNCHANGED <<sent, expected, taken>>

\* msgSend_PushAlert, called by _msgQueue_RunThread when the delay is over.
PushAlert(a) ==
  /\ caller[Runner].pc = "idle"
  /\ \A e \in expected : e.page # AlertPage(a)
  /\ a \notin escalated
  /\ MayPush
  /\ caller' = [caller EXCEPT ![Runner] = [Idle EXCEPT !.pc = "alert", !.alarm = a]]
  /\ Timed(Alone)
  /\ UNCHANGED <<SPphones, msgs, msgBuf, build, threads, accepts, escalated>>

\* msgSend_PushAccept, called by the handler of a softkey, which only a phone
\* that has taken the alert's page has.
PushAccept(a, ip) ==
  /\ caller[Server].pc = "idle"
  /\ accepts < MaxAccepts
  /\ MayPush /\ MayAccept
  /\ [ip |-> ip, page |-> AlertPage(a)] \in taken
  /\ accepts' = accepts + 1
  /\ caller' = [caller EXCEPT ![Server] = [Idle EXCEPT !.pc = "accept", !.alarm = a,
                                                       !.special_ip = ip]]
  /\ Timed(Alone /\ Settled)
  /\ UNCHANGED <<SPphones, msgs, msgBuf, build, threads, escalated>>

-----------------------------------------------------------------------------
(* msgBuild_makeAlertMsg and msgBuild_makeAcceptMsg.                       *)

\* Read the template and set the values of an alert page.
SetAlert ==
  LET a == caller[Runner].alarm IN
  /\ caller[Runner].pc = "alert"
  /\ deptName' = a /\ levelStr' = a /\ alarmStr' = a
  /\ Goes(Runner, "build")
  /\ UNCHANGED <<SPphones, msgs, msgBuf, threads, accepts, escalated, ghosts>>

\* The values of an accept page: the alarm's number is left as it is.
SetAccept(from, text, to) ==
  /\ caller[Server].pc = from
  /\ deptName' = caller[Server].alarm /\ levelStr' = text
  /\ Goes(Server, to)
  /\ UNCHANGED <<SPphones, msgs, msgBuf, alarmStr, threads, accepts, escalated, ghosts>>

\* _msgBuild_buildMsg: put the values into the template.
BuildMsg(c, from, buffer, page, to) ==
  /\ caller[c].pc = from
  /\ msgBuf' = [msgBuf EXCEPT ![buffer] = page]
  /\ Goes(c, to)
  /\ UNCHANGED <<SPphones, msgs, build, threads, accepts, escalated, ghosts>>

\* The template cannot be read: the buffer stays as it is, and is sent.
NoTemplate(c, from, to) ==
  /\ TemplateFails
  /\ caller[c].pc = from
  /\ Goes(c, to)
  /\ Timed(FALSE)
  /\ UNCHANGED <<SPphones, msgs, msgBuf, build, threads, accepts, escalated>>

MakeAlert ==
  \/ SetAlert
  \/ BuildMsg(Runner, "build", "alert", Page("alert", deptName, levelStr, alarmStr), "push")
  \/ NoTemplate(Runner, "alert", "push")

MakeAccept ==
  \/ SetAccept("accept", Accepted, "build")
  \/ BuildMsg(Server, "build", "accept", Page("accept", deptName, levelStr, NULL), "accept2")
  \/ SetAccept("accept2", YouAccepted, "build2")
  \/ BuildMsg(Server, "build2", "accept2", Page("accept", deptName, levelStr, NULL), "push")
  \/ NoTemplate(Server, "accept", "accept2")
  \/ NoTemplate(Server, "accept2", "push")

-----------------------------------------------------------------------------
(* _msgSend_PushMsgs.                                                      *)

\* strncmp( special_ip, ip_addr, strlen( ip_addr ) ) == 0
IsSpecial(special_ip, ip) == ip = special_ip \/ <<ip, special_ip>> \in PrefixPairs

\* The page the caller means for the phone.
Meant(c, ip) ==
  IF c = Runner THEN AlertPage(caller[c].alarm)
  ELSE AcceptPage(caller[c].alarm, IF ip = caller[c].special_ip THEN YouAccepted ELSE Accepted)

\* Mutant: the place in the table is not moved on.
PushOneStuck(c) ==
  LET s == GetNextRecord(caller[c].sptr)
      i == caller[c].msgIndex
  IN
  /\ caller[c].pc = "push"
  /\ s # NoRecord
  /\ caller' = [caller EXCEPT ![c].msgIndex = i + 1]
  /\ UNCHANGED <<SPphones, msgs, msgBuf, build, threads, accepts, escalated, ghosts>>

\* The next phone in the table: fill an element of msgs, start its thread.
PushOne(c) ==
  LET s == GetNextRecord(caller[c].sptr)
      i == caller[c].msgIndex
      ip == SPphones[s].ip_addr
      buffer == IF c = Runner THEN "alert"
                ELSE IF IsSpecial(caller[c].special_ip, ip) THEN "accept2" ELSE "accept"
  IN
  /\ caller[c].pc = "push"
  /\ s # NoRecord
  /\ msgs' = [msgs EXCEPT ![i] = [ip_addr |-> s, msg |-> buffer]]
  /\ threads' = threads \union {[by |-> c, index |-> i, pc |-> "created",
                                 ip |-> NULL, msg |-> NULL, age |-> 0]}
  /\ caller' = [caller EXCEPT ![c].sptr = s, ![c].msgIndex = i + 1]
  /\ expected' = expected \union {[ip |-> ip, page |-> Meant(c, ip)]}
  /\ UNCHANGED <<SPphones, msgBuf, build, accepts, escalated, sent, taken, disturbed>>

\* Mutant: an alert for one phone is escalated too.
AlertPushedToFew ==
  /\ caller[Runner].pc = "push"
  /\ GetNextRecord(caller[Runner].sptr) = NoRecord
  /\ escalated' = IF caller[Runner].msgIndex <= 1
                    THEN escalated \union {caller[Runner].alarm} ELSE escalated
  /\ caller' = [caller EXCEPT ![Runner] = Idle]
  /\ UNCHANGED <<SPphones, msgs, msgBuf, build, threads, accepts, ghosts>>

\* No more phones.  An alert that went to nobody is escalated at once.
AlertPushed ==
  /\ caller[Runner].pc = "push"
  /\ GetNextRecord(caller[Runner].sptr) = NoRecord
  /\ escalated' = IF caller[Runner].msgIndex = 0
                    THEN escalated \union {caller[Runner].alarm} ELSE escalated
  /\ caller' = [caller EXCEPT ![Runner] = Idle]
  /\ UNCHANGED <<SPphones, msgs, msgBuf, build, threads, accepts, ghosts>>

AcceptPushed ==
  /\ caller[Server].pc = "push"
  /\ GetNextRecord(caller[Server].sptr) = NoRecord
  /\ caller' = [caller EXCEPT ![Server] = Idle]
  /\ UNCHANGED <<SPphones, msgs, msgBuf, build, threads, accepts, escalated, ghosts>>

-----------------------------------------------------------------------------
(* _msgSend_PushMsgThread.                                                 *)

Becomes(t, new) == threads' = (threads \ {t}) \union {new}

\* sprintf of the address it finds through its element of msgs.
ReadAddress(t) ==
  /\ t.pc = "created"
  /\ Becomes(t, [t EXCEPT !.pc = "addressed", !.ip = SPphones[msgs[t.index].ip_addr].ip_addr])
  /\ UNCHANGED <<SPphones, msgs, msgBuf, build, caller, accepts, escalated, ghosts>>

\* CURLOPT_POSTFIELDS keeps the pointer only.
ReadMessage(t) ==
  /\ t.pc = "addressed"
  /\ Becomes(t, [t EXCEPT !.pc = "posting", !.msg = msgs[t.index].msg])
  /\ UNCHANGED <<SPphones, msgs, msgBuf, build, caller, accepts, escalated, ghosts>>

\* curl_easy_perform sends what the buffer holds at that time.  Whether it
\* fails, and what the phone answers, is logged and makes no difference here:
\* nothing is tried again.  An alert that the phone took can be accepted there.
Post(t) ==
  LET page == [ip |-> t.ip, page |-> msgBuf[t.msg]] IN
  /\ t.pc = "posting"
  /\ threads' = threads \ {t}
  /\ sent' = sent \union {page}
  /\ taken' \in {taken} \union {taken \union {p} : p \in {q \in {page} : q.page.template = "alert"}}
  /\ UNCHANGED <<SPphones, msgs, msgBuf, build, caller, accepts, escalated, expected, disturbed>>

-----------------------------------------------------------------------------
(* The table of phones, and time.                                          *)

Register(s, ip) ==
  /\ MayChangePhones
  /\ ~Used(s)
  /\ \A r \in Slots : Used(r) => SPphones[r].ip_addr # ip
  /\ SPphones' = [SPphones EXCEPT ![s] = [in_use |-> TRUE, ip_addr |-> ip]]
  /\ Timed(Still)
  /\ UNCHANGED <<msgs, msgBuf, build, caller, threads, accepts, escalated>>

\* Mutant: the address of a removed record is wiped out.
RemoveAll(s) ==
  /\ MayChangePhones
  /\ Used(s)
  /\ SPphones' = [SPphones EXCEPT ![s] = [in_use |-> FALSE, ip_addr |-> NULL]]
  /\ Timed(Still)
  /\ UNCHANGED <<msgs, msgBuf, build, caller, threads, accepts, escalated>>

\* The address of a removed record stays in its place.
Remove(s) ==
  /\ MayChangePhones
  /\ Used(s)
  /\ SPphones' = [SPphones EXCEPT ![s].in_use = FALSE]
  /\ Timed(Still)
  /\ UNCHANGED <<msgs, msgBuf, build, caller, threads, accepts, escalated>>

\* No thread outlives curl's timeout, which starting it is short of.
Tick ==
  /\ threads # {}
  /\ \A t \in threads : t.age < TIMEOUT
  /\ threads' = {[t EXCEPT !.age = @ + 1] : t \in threads}
  /\ UNCHANGED <<SPphones, msgs, msgBuf, build, caller, accepts, escalated, ghosts>>

-----------------------------------------------------------------------------
Next ==
  \/ \E a \in Alarms : PushAlert(a)
  \/ \E a \in Alarms, ip \in IPs : PushAccept(a, ip)
  \/ MakeAlert
  \/ MakeAccept
  \/ \E c \in Callers : PushOne(c)
  \/ AlertPushed
  \/ AcceptPushed
  \/ \E t \in threads : ReadAddress(t) \/ ReadMessage(t) \/ Post(t)
  \/ \E s \in Slots : Remove(s) \/ \E ip \in IPs : Register(s, ip)
  \/ Tick

Spec == Init /\ [][Next]_vars

-----------------------------------------------------------------------------
Pages ==
  {NoPage} \union
  [template : {"alert", "accept"}, dept : Alarms,
   level : Alarms \union {Accepted, YouAccepted}, alarm : Alarms \union {NULL}]

HistoryOK == taken \subseteq sent /\ disturbed \in BOOLEAN

\* The values of the variables.
TypeOK ==
  /\ SPphones \in [Slots -> [in_use : BOOLEAN, ip_addr : IPs]]
  /\ msgs \in [0 .. MAX_SPPHONES - 1 ->
                 [ip_addr : Slots \union {NULL}, msg : DOMAIN msgBuf \union {NULL}]]
  /\ \A b \in DOMAIN msgBuf : msgBuf[b] \in Pages
  /\ \A c \in Callers :
       /\ caller[c].pc \in {"idle", "alert", "accept", "build", "accept2", "build2", "push"}
       /\ caller[c].sptr \in Slots \union {Start}
  /\ \A t \in threads : t.age \in 0 .. TIMEOUT
  /\ escalated \subseteq Alarms
  /\ HistoryOK

\* The pages sent are those that were meant, each to its phone ("sends HTML
\* pages to all available phones in parallel", README.dox:33): no phone is
\* missed, and none is sent the page of another push or of another phone.
AllServed == threads = {} => sent = expected

\* "Make accept message for all phones except the one that accepted"
\* (msgSend.c:107): another phone is not told that it has accepted.
OnlyAccepterThanked == \A p \in sent : p.page.level = YouAccepted => p \in expected

\* An alarm is escalated at once exactly when its alert was for nobody, though
\* phones come and go while the table is walked (msgSend.c:86).
Told(a) == \E e \in expected : e.page = AlertPage(a)
EscalatedIffUntold ==
  [][ AlertPushed => (caller[Runner].alarm \in escalated' <=> ~Told(caller[Runner].alarm)) ]_vars

\* A push that is about to fill an element of msgs finds one, however phones
\* register behind its back, as long as the table is no larger than msgs.
MsgsSuffice ==
  \A c \in Callers :
    caller[c].pc = "push" /\ GetNextRecord(caller[c].sptr) # NoRecord
      => caller[c].msgIndex \in DOMAIN msgs
=============================================================================
