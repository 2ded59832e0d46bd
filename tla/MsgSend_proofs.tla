--------------------------- MODULE MsgSend_proofs ---------------------------
(***************************************************************************)
(* Theorems about MsgSend.tla, for any number of phones, addresses and     *)
(* alarms, with everything in Overlap or not.                              *)
(*                                                                         *)
(* A walk over the table has filled no more elements of msgs than it has   *)
(* passed records, whatever comes and goes behind it; and an alert has     *)
(* filled one if and only if somebody was meant to be told.                *)
(*                                                                         *)
(* The types (TypeCorrect) need the bound on what is pushed, and that a    *)
(* caller that builds a page has set the texts the page is built from.     *)
(***************************************************************************)
EXTENDS MsgSend, TLAPS, WellFoundedInduction

\* spRec_GetNextRecord and the searches of spRec.c return the first record of
\* those that fit: a nonempty set of natural numbers has a least element, and
\* Min is one.
LEMMA MinOf ==
  ASSUME NEW S \in SUBSET Nat, S # {}
  PROVE  Min(S) \in S /\ \A y \in S : Min(S) <= y
<1>1. PICK x \in S : \A y \in S : ~ (<<y, x>> \in OpToRel(<, Nat))
  BY WFMin, NatLessThanWellFounded
<1>2. ASSUME NEW y \in S PROVE x <= y
  <2>1. y < x => <<y, x>> \in OpToRel(<, Nat)
    BY DEF OpToRel
  <2>2. ~ (y < x)
    BY <1>1, <2>1
  <2>3. QED
    BY <2>2
<1>3. QED
  BY <1>2 DEF Min

CallerStates ==
  [pc : {"idle", "alert", "accept", "build", "accept2", "build2", "push"},
   alarm : Alarms \union {NULL}, special_ip : IPs \union {NULL},
   sptr : Slots \union {Start}, msgIndex : Nat]

Untold == \A e \in expected : e.page # AlertPage(caller[Runner].alarm)

\* What an alert under way has done so far.
AlertInv ==
  caller[Runner].pc # "idle" =>
    /\ caller[Runner].alarm \notin escalated
    /\ caller[Runner].msgIndex = 0 <=> Untold

PushInv ==
  /\ caller \in [Callers -> CallerStates]
  /\ \A c \in Callers : caller[c].msgIndex <= caller[c].sptr + 1
  /\ DOMAIN msgs = 0 .. MAX_SPPHONES - 1
  /\ AlertInv

LEMMA NextRecord ==
  ASSUME NEW s \in Slots \union {Start}, GetNextRecord(s) # NoRecord
  PROVE  GetNextRecord(s) \in Slots /\ GetNextRecord(s) > s
<1> DEFINE ahead == {j \in Slots : j > s /\ Used(j)}
<1>1. ahead # {} /\ GetNextRecord(s) = Min(ahead)
  BY DEF GetNextRecord
<1>2. ahead \in SUBSET Nat
  BY MsgSendAssumption DEF Slots
<1>3. GetNextRecord(s) \in ahead
  BY <1>1, <1>2, MinOf
<1>4. QED
  BY <1>3

LEMMA TwoCallers == Runner \in Callers /\ Server \in Callers /\ Runner # Server
BY DEF Callers, Runner, Server

LEMMA IdleState == Idle \in CallerStates /\ Idle.pc = "idle" /\ Idle.msgIndex <= Idle.sptr + 1
BY MsgSendAssumption DEF Idle, CallerStates, Start

\* A caller goes on; if it is the runner, what it knows is right.
LEMMA CallerStep ==
  ASSUME PushInv, NEW c \in Callers,
         caller' = [d \in Callers |-> IF d = c THEN caller'[c] ELSE caller[d]],
         caller'[c] \in CallerStates, caller'[c].msgIndex <= caller'[c].sptr + 1,
         DOMAIN msgs' = DOMAIN msgs,
         AlertInv'
  PROVE  PushInv'
<1>1. caller' \in [Callers -> CallerStates]
  BY DEF PushInv
<1>2. \A d \in Callers : caller'[d].msgIndex <= caller'[d].sptr + 1
  BY DEF PushInv
<1>3. QED
  BY <1>1, <1>2 DEF PushInv

\* The runner is not disturbed by what leaves it, the alerts meant and the
\* alarms escalated alone.
LEMMA AlertStays ==
  ASSUME PushInv, escalated' = escalated, expected' = expected,
         \/ caller'[Runner].pc = "idle"
         \/ /\ caller[Runner].pc # "idle"
            /\ caller'[Runner].alarm = caller[Runner].alarm
            /\ caller'[Runner].msgIndex = caller[Runner].msgIndex
         \/ caller'[Runner] = caller[Runner]
  PROVE  AlertInv'
BY DEF PushInv, AlertInv, Untold

\* The steps that only move a caller on, building its page.
LEMMA GoesStep ==
  ASSUME PushInv, NEW c \in Callers, NEW pc, Goes(c, pc),
         pc \in {"build", "accept2", "build2", "push"}, caller[c].pc # "idle",
         msgs' = msgs, escalated' = escalated, expected' = expected
  PROVE  PushInv'
<1>1. /\ caller' = [d \in Callers |-> IF d = c THEN caller'[c] ELSE caller[d]]
      /\ caller'[c] = [caller[c] EXCEPT !.pc = pc] /\ caller[c] \in CallerStates
  BY DEF Goes, PushInv
<1>2. /\ caller'[c] \in CallerStates
      /\ caller'[c].sptr = caller[c].sptr /\ caller'[c].msgIndex = caller[c].msgIndex
      /\ caller'[c].alarm = caller[c].alarm
  BY <1>1 DEF CallerStates
<1>3. AlertInv'
  BY <1>1, <1>2, AlertStays, TwoCallers
<1>4. QED
  BY <1>1, <1>2, <1>3, CallerStep DEF PushInv

LEMMA MakeStep == ASSUME PushInv, MakeAlert \/ MakeAccept PROVE PushInv'
<1>1. CASE MakeAlert
  BY <1>1, TwoCallers, GoesStep
  DEF MakeAlert, SetAlert, BuildMsg, NoTemplate, Timed, ghosts
<1>2. CASE MakeAccept
  BY <1>2, TwoCallers, GoesStep
  DEF MakeAccept, SetAccept, BuildMsg, NoTemplate, Timed, ghosts
<1>3. QED
  BY <1>1, <1>2

LEMMA BeginStep ==
  ASSUME PushInv, \/ \E a \in Alarms : PushAlert(a)
                  \/ \E a \in Alarms, ip \in IPs : PushAccept(a, ip)
  PROVE  PushInv'
<1>1. ASSUME NEW a \in Alarms, PushAlert(a) PROVE PushInv'
  <2> DEFINE c == [Idle EXCEPT !.pc = "alert", !.alarm = a]
  <2>1. /\ c \in CallerStates /\ c.msgIndex = 0 /\ c.alarm = a /\ c.msgIndex <= c.sptr + 1
    BY IdleState DEF CallerStates, Idle, Start
  <2>2. /\ caller' = [d \in Callers |-> IF d = Runner THEN caller'[Runner] ELSE caller[d]]
        /\ caller'[Runner] = c
    BY <1>1, TwoCallers DEF PushAlert, PushInv
  <2>3. a \notin escalated' /\ \A e \in expected' : e.page # AlertPage(a)
    BY <1>1 DEF PushAlert, Timed
  <2>4. AlertInv'
    <3> HIDE DEF c
    <3>1. QED
      BY <2>1, <2>2, <2>3 DEF AlertInv, Untold, AlertPage, Page
  <2>5. QED
    BY <1>1, <2>1, <2>2, <2>4, TwoCallers, CallerStep DEF PushAlert
<1>2. ASSUME NEW a \in Alarms, NEW ip \in IPs, PushAccept(a, ip) PROVE PushInv'
  <2> DEFINE c == [Idle EXCEPT !.pc = "accept", !.alarm = a, !.special_ip = ip]
  <2>1. c \in CallerStates /\ c.msgIndex <= c.sptr + 1
    BY IdleState DEF CallerStates, Idle, Start
  <2>2. /\ caller' = [d \in Callers |-> IF d = Server THEN caller'[Server] ELSE caller[d]]
        /\ caller'[Server] = c
    BY <1>2, TwoCallers DEF PushAccept, PushInv
  <2>3. AlertInv'
    BY <1>2, <2>2, TwoCallers, AlertStays DEF PushAccept, Timed
  <2>4. QED
    BY <1>2, <2>1, <2>2, <2>3, TwoCallers, CallerStep DEF PushAccept
<1>3. QED
  BY <1>1, <1>2

LEMMA PushOneStep == ASSUME PushInv, NEW c \in Callers, PushOne(c) PROVE PushInv'
<1> DEFINE s == GetNextRecord(caller[c].sptr)
           i == caller[c].msgIndex
<1>1. /\ caller[c] \in CallerStates /\ caller[c].sptr \in Slots \union {Start}
      /\ i \in Nat /\ i <= caller[c].sptr + 1
  BY DEF PushInv, CallerStates
<1>2. s \in Slots /\ s > caller[c].sptr
  BY <1>1, NextRecord DEF PushOne
<1>3. i + 1 \in Nat /\ i + 1 <= s + 1
  <2>1. s \in Int /\ caller[c].sptr \in Int
    BY <1>1, <1>2, MsgSendAssumption DEF Slots, Start
  <2> HIDE DEF s, i
  <2>2. QED
    BY <1>1, <1>2, <2>1
<1>4. /\ caller' = [d \in Callers |-> IF d = c THEN caller'[c] ELSE caller[d]]
      /\ caller'[c] \in CallerStates
      /\ caller'[c].sptr = s /\ caller'[c].msgIndex = i + 1
      /\ caller'[c].alarm = caller[c].alarm /\ caller'[c].pc = "push"
  <2>1. caller' = [caller EXCEPT ![c].sptr = s, ![c].msgIndex = i + 1] /\ caller[c].pc = "push"
    BY DEF PushOne
  <2> DEFINE e == [caller[c] EXCEPT !.sptr = s, !.msgIndex = i + 1]
  <2> HIDE DEF s, i
  <2>2. caller' = [caller EXCEPT ![c] = e]
    BY <2>1 DEF PushInv
  <2>3. e \in CallerStates /\ e.sptr = s /\ e.msgIndex = i + 1
        /\ e.alarm = caller[c].alarm /\ e.pc = "push"
    BY <1>1, <1>2, <1>3, <2>1 DEF CallerStates
  <2> HIDE DEF e
  <2>4. caller' = [d \in Callers |-> IF d = c THEN e ELSE caller[d]]
    BY <2>2 DEF PushInv
  <2>5. QED
    BY <2>3, <2>4
<1>5. DOMAIN msgs' = DOMAIN msgs
  BY DEF PushOne
<1>6. \E ip : expected' = expected \union {[ip |-> ip, page |-> Meant(c, ip)]}
  BY DEF PushOne
<1>7. AlertInv'
  <2>1. CASE c = Runner
    <3>1. ~Untold'
      <4>1. PICK ip : expected' = expected \union {[ip |-> ip, page |-> Meant(c, ip)]}
        BY <1>6
      <4> DEFINE e == [ip |-> ip, page |-> Meant(c, ip)]
      <4>2. e \in expected' /\ e.page = Meant(c, ip)
        BY <4>1
      <4>3. Meant(c, ip) = AlertPage(caller'[Runner].alarm)
        BY <1>4, <2>1 DEF Meant
      <4> HIDE DEF e
      <4>4. QED
        BY <4>2, <4>3 DEF Untold
    <3>2. i + 1 # 0
      BY <1>1
    <3>3. caller[Runner].alarm \notin escalated /\ escalated' = escalated
      BY <2>1 DEF PushInv, AlertInv, PushOne
    <3> HIDE DEF i
    <3>4. QED
      BY <1>4, <2>1, <3>1, <3>2, <3>3 DEF AlertInv
  <2>2. CASE c # Runner
    <3>1. caller'[Runner] = caller[Runner]
      BY <1>4, <2>2, TwoCallers
    <3>2. \A ip : Meant(c, ip) # AlertPage(caller[Runner].alarm)
      BY <2>2 DEF Meant, AlertPage, AcceptPage, Page
    <3>3. Untold' <=> Untold
      BY <1>6, <3>1, <3>2 DEF Untold
    <3>4. escalated' = escalated
      BY DEF PushOne
    <3>5. QED
      BY <3>1, <3>3, <3>4 DEF PushInv, AlertInv
  <2>3. QED
    BY <2>1, <2>2
<1>8. QED
  <2> HIDE DEF s, i
  <2>1. QED
    BY <1>3, <1>4, <1>5, <1>7, CallerStep

LEMMA PushedStep == ASSUME PushInv, AlertPushed \/ AcceptPushed PROVE PushInv'
<1>1. CASE AlertPushed
  <2>1. /\ caller' = [d \in Callers |-> IF d = Runner THEN caller'[Runner] ELSE caller[d]]
        /\ caller'[Runner] = Idle
    BY <1>1, TwoCallers DEF AlertPushed, PushInv
  <2>2. AlertInv'
    BY <2>1, IdleState DEF AlertInv
  <2>3. QED
    BY <1>1, <2>1, <2>2, TwoCallers, IdleState, CallerStep DEF AlertPushed
<1>2. CASE AcceptPushed
  <2>1. /\ caller' = [d \in Callers |-> IF d = Server THEN caller'[Server] ELSE caller[d]]
        /\ caller'[Server] = Idle
    BY <1>2, TwoCallers DEF AcceptPushed, PushInv
  <2>2. AlertInv'
    BY <1>2, <2>1, TwoCallers, AlertStays DEF AcceptPushed, ghosts
  <2>3. QED
    BY <1>2, <2>1, <2>2, TwoCallers, IdleState, CallerStep DEF AcceptPushed
<1>3. QED
  BY <1>1, <1>2

\* The steps of the sending threads, of the table and of time.
LEMMA RestStep ==
  ASSUME PushInv, UNCHANGED <<caller, msgs, escalated, expected>> PROVE PushInv'
<1>1. AlertInv'
  BY AlertStays
<1>2. QED
  BY <1>1 DEF PushInv

LEMMA InitPush == Init => PushInv
<1> SUFFICES ASSUME Init PROVE PushInv
  OBVIOUS
<1>1. \A c \in Callers : caller[c] = Idle
  BY DEF Init
<1>2. caller \in [Callers -> CallerStates]
  BY IdleState DEF Init
<1>3. QED
  BY <1>1, <1>2, IdleState, TwoCallers DEF Init, PushInv, AlertInv

LEMMA NextPush == PushInv /\ [Next]_vars => PushInv'
<1> SUFFICES ASSUME PushInv, [Next]_vars PROVE PushInv'
  OBVIOUS
<1>1. CASE UNCHANGED vars
  BY <1>1, RestStep DEF vars, ghosts
<1>2. ASSUME NEW t \in threads, ReadAddress(t) \/ ReadMessage(t) \/ Post(t) PROVE PushInv'
  BY <1>2, RestStep DEF ReadAddress, ReadMessage, Post, ghosts
<1>3. ASSUME NEW s \in Slots, Remove(s) \/ \E ip \in IPs : Register(s, ip) PROVE PushInv'
  BY <1>3, RestStep DEF Remove, Register, Timed
<1>4. CASE Tick
  BY <1>4, RestStep DEF Tick, ghosts
<1>5. QED
  BY <1>1, <1>2, <1>3, <1>4, BeginStep, MakeStep, PushOneStep, PushedStep DEF Next

LEMMA PushInductive == Spec => []PushInv
BY InitPush, NextPush, PTL DEF Spec

\* A push never writes past msgs, however phones register and are removed
\* behind its back, if the table is configured no larger than msgs.
THEOREM MsgsAlwaysSuffice == ASSUME NPhones <= MAX_SPPHONES PROVE Spec => []MsgsSuffice
<1>1. PushInv => MsgsSuffice
  <2> SUFFICES ASSUME PushInv, NEW c \in Callers,
                      GetNextRecord(caller[c].sptr) # NoRecord
               PROVE  caller[c].msgIndex \in DOMAIN msgs
    BY DEF MsgsSuffice
  <2> DEFINE s == GetNextRecord(caller[c].sptr)
  <2>1. /\ caller[c].sptr \in Slots \union {Start} /\ caller[c].msgIndex \in Nat
        /\ caller[c].msgIndex <= caller[c].sptr + 1
    BY DEF PushInv, CallerStates
  <2>2. s \in Slots /\ s > caller[c].sptr
    BY <2>1, NextRecord
  <2>3. DOMAIN msgs = 0 .. MAX_SPPHONES - 1
    BY DEF PushInv
  <2> HIDE DEF s
  <2>4. QED
    BY <2>1, <2>2, <2>3, MsgSendAssumption DEF Slots, Start
<1>2. QED
  BY <1>1, PushInductive, PTL

\* An alarm is escalated at once exactly when its alert was for nobody, however
\* the table changes while it is walked and whatever the accepts do.
THEOREM EscalationCorrect == Spec => EscalatedIffUntold
<1>1. ASSUME PushInv, AlertPushed
      PROVE  caller[Runner].alarm \in escalated' <=> ~Told(caller[Runner].alarm)
  <2>1. /\ caller[Runner].alarm \notin escalated
        /\ caller[Runner].msgIndex = 0 <=> Untold
    BY <1>1 DEF PushInv, AlertInv, AlertPushed
  <2>2. escalated' = IF caller[Runner].msgIndex = 0
                       THEN escalated \union {caller[Runner].alarm} ELSE escalated
    BY <1>1 DEF AlertPushed
  <2>3. Untold <=> ~Told(caller[Runner].alarm)
    BY DEF Untold, Told
  <2>4. QED
    BY <2>1, <2>2, <2>3
<1>2. PushInv /\ [Next]_vars =>
        [AlertPushed => (caller[Runner].alarm \in escalated' <=> ~Told(caller[Runner].alarm))]_vars
  BY <1>1
<1>3. QED
  BY <1>2, PushInductive, PTL DEF Spec, EscalatedIffUntold

-----------------------------------------------------------------------------
(* The types.                                                              *)

Buffers == {"alert", "accept", "accept2"}
Levels == Alarms \union {Accepted, YouAccepted}
Sender(t) == [by |-> t.by, index |-> t.index, pc |-> t.pc, ip |-> t.ip, msg |-> t.msg,
              age |-> t.age]

\* TypeOK is not inductive: what a page is made of is typed only once a caller
\* has set it, and only a caller that is not idle has an alarm.
TypeInv ==
  /\ TypeOK
  /\ DOMAIN msgBuf = Buffers
  /\ alarmStr \in Alarms \union {NULL}
  /\ \A c \in Callers :
       /\ caller[c].pc # "idle" => caller[c].alarm \in Alarms
       /\ caller[c].pc \in {"build", "build2"} => deptName \in Alarms /\ levelStr \in Levels
  /\ \A t \in threads : t = Sender(t)

\* A page made of typed values is a page.
LEMMA PageType ==
  ASSUME NEW template \in {"alert", "accept"}, NEW dept \in Alarms, NEW level \in Levels,
         NEW alarm \in Alarms \union {NULL}
  PROVE  Page(template, dept, level, alarm) \in Pages
BY DEF Page, Pages, Levels

\* What a caller changes when it goes on: its own record, typed as PushInv says.
LEMMA CallerType ==
  ASSUME PushInv', NEW c \in Callers
  PROVE  /\ caller'[c].pc \in {"idle", "alert", "accept", "build", "accept2", "build2", "push"}
         /\ caller'[c].sptr \in Slots \union {Start}
BY DEF PushInv, CallerStates

LEMMA HistoryType == ASSUME HistoryOK, [Next]_vars PROVE HistoryOK'
<1>1. CASE UNCHANGED <<sent, taken, disturbed>>
  BY <1>1 DEF HistoryOK
<1>2. ASSUME NEW well \in BOOLEAN, Timed(well) PROVE HistoryOK'
  <2>1. disturbed' \in BOOLEAN
    BY <1>2 DEF Timed
  <2>2. QED
    BY <1>2, <2>1 DEF Timed, HistoryOK
<1>3. ASSUME NEW t \in threads, Post(t) PROVE HistoryOK'
  BY <1>3 DEF Post, HistoryOK
<1>4. Alone \in BOOLEAN /\ (Alone /\ Settled) \in BOOLEAN /\ Still \in BOOLEAN
  BY DEF Alone, Settled, Still
<1>5. CASE \/ \E a \in Alarms : PushAlert(a)
           \/ \E a \in Alarms, ip \in IPs : PushAccept(a, ip)
           \/ \E s \in Slots : Remove(s) \/ \E ip \in IPs : Register(s, ip)
  BY <1>2, <1>4, <1>5 DEF PushAlert, PushAccept, Remove, Register
<1>6. CASE MakeAlert \/ MakeAccept
  BY <1>1, <1>2, <1>6
  DEF MakeAlert, MakeAccept, SetAlert, SetAccept, BuildMsg, NoTemplate, ghosts
<1>7. CASE UNCHANGED vars \/ AlertPushed \/ AcceptPushed \/ Tick
           \/ (\E c \in Callers : PushOne(c)) \/ \E t \in threads : ReadAddress(t) \/ ReadMessage(t)
  BY <1>1, <1>7
  DEF vars, ghosts, AlertPushed, AcceptPushed, Tick, PushOne, ReadAddress, ReadMessage
<1>8. QED
  BY <1>3, <1>5, <1>6, <1>7 DEF Next

LEMMA GoesTo ==
  ASSUME PushInv, NEW c \in Callers, NEW pc, Goes(c, pc)
  PROVE  /\ caller'[c].pc = pc /\ caller'[c].alarm = caller[c].alarm
         /\ \A d \in Callers : d # c => caller'[d] = caller[d]
<1>1. caller[c] \in CallerStates /\ caller' = [caller EXCEPT ![c] = [caller[c] EXCEPT !.pc = pc]]
  BY DEF Goes, PushInv
<1>2. [caller[c] EXCEPT !.pc = pc].pc = pc
      /\ [caller[c] EXCEPT !.pc = pc].alarm = caller[c].alarm
  BY <1>1 DEF CallerStates
<1>3. QED
  BY <1>1, <1>2 DEF PushInv

\* A push begins with an alarm.
LEMMA BeginType ==
  ASSUME TypeInv, HistoryOK', PushInv, PushInv',
         \/ \E a \in Alarms : PushAlert(a)
         \/ \E a \in Alarms, ip \in IPs : PushAccept(a, ip)
  PROVE  TypeInv'
<1>1. PICK d \in Callers, a \in Alarms :
        /\ caller'[d].pc \in {"alert", "accept"} /\ caller'[d].alarm = a
        /\ \A c \in Callers : c # d => caller'[c] = caller[c]
  <2>1. ASSUME NEW d \in Callers, NEW r, caller' = [caller EXCEPT ![d] = r]
        PROVE  caller'[d] = r /\ \A c \in Callers : c # d => caller'[c] = caller[c]
    BY <2>1 DEF PushInv
  <2>2. ASSUME NEW a \in Alarms, NEW ip
        PROVE  /\ [Idle EXCEPT !.pc = "alert", !.alarm = a].pc = "alert"
               /\ [Idle EXCEPT !.pc = "alert", !.alarm = a].alarm = a
               /\ [Idle EXCEPT !.pc = "accept", !.alarm = a, !.special_ip = ip].pc = "accept"
               /\ [Idle EXCEPT !.pc = "accept", !.alarm = a, !.special_ip = ip].alarm = a
    BY DEF Idle
  <2>3. CASE \E a \in Alarms : PushAlert(a)
    <3>1. PICK a \in Alarms : PushAlert(a)
      BY <2>3
    <3>2. caller' = [caller EXCEPT ![Runner] = [Idle EXCEPT !.pc = "alert", !.alarm = a]]
      BY <3>1 DEF PushAlert
    <3> DEFINE r == [Idle EXCEPT !.pc = "alert", !.alarm = a]
    <3>3. r.pc = "alert" /\ r.alarm = a
      BY <2>2
    <3> HIDE DEF r
    <3>4. caller'[Runner] = r /\ \A c \in Callers : c # Runner => caller'[c] = caller[c]
      BY <2>1, <3>2, TwoCallers DEF r
    <3>5. QED
      BY <3>3, <3>4, TwoCallers
  <2>4. CASE \E a \in Alarms, ip \in IPs : PushAccept(a, ip)
    <3>1. PICK a \in Alarms, ip \in IPs : PushAccept(a, ip)
      BY <2>4
    <3> DEFINE r == [Idle EXCEPT !.pc = "accept", !.alarm = a, !.special_ip = ip]
    <3>2. caller' = [caller EXCEPT ![Server] = r]
      BY <3>1 DEF PushAccept
    <3>3. r.pc = "accept" /\ r.alarm = a
      BY <2>2
    <3> HIDE DEF r
    <3>4. caller'[Server] = r /\ \A c \in Callers : c # Server => caller'[c] = caller[c]
      BY <2>1, <3>2, TwoCallers
    <3>5. QED
      BY <3>3, <3>4, TwoCallers
  <2>5. QED
    BY <2>3, <2>4
<1>2. UNCHANGED <<SPphones, msgs, msgBuf, build, threads, escalated>>
  BY DEF PushAlert, PushAccept
<1>3. TypeOK'
  BY <1>2, CallerType DEF TypeInv, TypeOK
<1>4. QED
  BY <1>1, <1>2, <1>3 DEF TypeInv, build, Sender

\* The values of a page are set, and then put together.
LEMMA MakeType ==
  ASSUME TypeInv, HistoryOK', PushInv, PushInv', MakeAlert \/ MakeAccept
  PROVE  TypeInv'
<1>1. ASSUME NEW c \in Callers, NEW pc, Goes(c, pc), caller[c].pc # "idle",
             UNCHANGED <<SPphones, msgs, threads, escalated>>,
             DOMAIN msgBuf' = Buffers, \A b \in Buffers : msgBuf'[b] \in Pages,
             alarmStr' \in Alarms \union {NULL},
             \/ UNCHANGED build /\ pc \notin {"build", "build2"}
             \/ deptName' \in Alarms /\ levelStr' \in Levels
      PROVE  TypeInv'
  <2>1. TypeOK'
    BY <1>1, CallerType DEF TypeInv, TypeOK
  <2>2. QED
    BY <1>1, <2>1, GoesTo DEF TypeInv, build, Sender
<1>2. ASSUME NEW c \in Callers, NEW from, NEW to, NoTemplate(c, from, to),
             from # "idle", to \notin {"build", "build2"}
      PROVE  TypeInv'
  BY <1>1, <1>2 DEF NoTemplate, TypeInv, TypeOK, build
<1>3. ASSUME NEW c \in Callers, NEW from, NEW b \in Buffers, NEW page, NEW to,
             BuildMsg(c, from, b, page, to), from \in {"build", "build2"},
             deptName \in Alarms /\ levelStr \in Levels => page \in Pages,
             to \notin {"build", "build2"}
      PROVE  TypeInv'
  <2>1. caller[c].pc = from
    BY <1>3 DEF BuildMsg
  <2>2. page \in Pages
    BY <1>3, <2>1 DEF TypeInv
  <2>3. DOMAIN msgBuf' = Buffers /\ \A d \in Buffers : msgBuf'[d] \in Pages
    BY <1>3, <2>2 DEF BuildMsg, TypeInv, TypeOK
  <2>4. QED
    BY <1>1, <1>3, <2>1, <2>3 DEF BuildMsg, ghosts, TypeInv, TypeOK, build
<1>4. ASSUME NEW from, NEW text \in {Accepted, YouAccepted}, NEW to, SetAccept(from, text, to),
             from # "idle"
      PROVE  TypeInv'
  <2>1. deptName' \in Alarms /\ levelStr' \in Levels
    BY <1>4, TwoCallers DEF SetAccept, TypeInv, Levels
  <2>2. QED
    BY <1>1, <1>4, <2>1, TwoCallers DEF SetAccept, ghosts, TypeInv, TypeOK
<1>5. CASE SetAlert
  <2>1. deptName' \in Alarms /\ levelStr' \in Levels /\ alarmStr' \in Alarms
    BY <1>5, TwoCallers DEF SetAlert, TypeInv, Levels
  <2>2. QED
    BY <1>1, <1>5, <2>1, TwoCallers DEF SetAlert, ghosts, TypeInv, TypeOK
<1>6. deptName \in Alarms /\ levelStr \in Levels
        => /\ Page("alert", deptName, levelStr, alarmStr) \in Pages
           /\ Page("accept", deptName, levelStr, NULL) \in Pages
  BY PageType DEF TypeInv
<1>7. CASE BuildMsg(Runner, "build", "alert", Page("alert", deptName, levelStr, alarmStr), "push")
  BY <1>3, <1>6, <1>7, TwoCallers DEF Buffers
<1>8. CASE BuildMsg(Server, "build", "accept", Page("accept", deptName, levelStr, NULL), "accept2")
  BY <1>3, <1>6, <1>8, TwoCallers DEF Buffers
<1>9. CASE BuildMsg(Server, "build2", "accept2", Page("accept", deptName, levelStr, NULL), "push")
  BY <1>3, <1>6, <1>9, TwoCallers DEF Buffers
<1>10. QED
  BY <1>2, <1>4, <1>5, <1>7, <1>8, <1>9, TwoCallers DEF MakeAlert, MakeAccept

\* An element of msgs is filled, or, past its end, nothing of it is.
LEMMA PushOneType ==
  ASSUME TypeInv, HistoryOK', PushInv, PushInv', NEW c \in Callers, PushOne(c)
  PROVE  TypeInv'
<1> DEFINE s == GetNextRecord(caller[c].sptr)
<1>1. s \in Slots
  BY NextRecord DEF PushOne, PushInv, CallerStates
<1>2. PICK b \in Buffers : msgs' = [msgs EXCEPT ![caller[c].msgIndex] = [ip_addr |-> s, msg |-> b]]
  BY DEF PushOne, Buffers
<1>3. PICK n : threads' = threads \union {n}
               /\ n = [by |-> c, index |-> caller[c].msgIndex, pc |-> "created",
                       ip |-> NULL, msg |-> NULL, age |-> 0]
  BY DEF PushOne
<1>4. UNCHANGED <<SPphones, msgBuf, build, escalated>>
  BY DEF PushOne
<1>5. /\ caller'[c].pc = "push" /\ caller'[c].alarm = caller[c].alarm
      /\ \A d \in Callers : d # c => caller'[d] = caller[d]
  BY DEF PushOne, PushInv, CallerStates
<1>6. caller[c].pc = "push"
  BY DEF PushOne
<1> HIDE DEF s
<1>7. msgs' \in [0 .. MAX_SPPHONES - 1 ->
                   [ip_addr : Slots \union {NULL}, msg : DOMAIN msgBuf' \union {NULL}]]
  BY <1>1, <1>2, <1>4 DEF TypeInv, TypeOK
<1>8. \A t \in threads' : t.age \in 0 .. TIMEOUT /\ t = Sender(t)
  BY <1>3, MsgSendAssumption DEF TypeInv, TypeOK, Sender
<1>9. TypeOK'
  BY <1>4, <1>7, <1>8, CallerType DEF TypeInv, TypeOK
<1>10. QED
  BY <1>4, <1>5, <1>6, <1>8, <1>9 DEF TypeInv, build

\* A push is over, and its alarm may be escalated.
LEMMA PushedType ==
  ASSUME TypeInv, HistoryOK', PushInv, PushInv', AlertPushed \/ AcceptPushed
  PROVE  TypeInv'
<1>1. PICK d \in Callers : /\ caller'[d].pc = "idle"
                           /\ \A c \in Callers : c # d => caller'[c] = caller[c]
  BY TwoCallers DEF AlertPushed, AcceptPushed, PushInv, Idle
<1>2. UNCHANGED <<SPphones, msgs, msgBuf, build, threads>>
  BY DEF AlertPushed, AcceptPushed, ghosts
<1>3. escalated' \subseteq Alarms
  BY TwoCallers DEF AlertPushed, AcceptPushed, TypeInv, TypeOK
<1>4. TypeOK'
  BY <1>2, <1>3, CallerType DEF TypeInv, TypeOK
<1>5. QED
  BY <1>1, <1>2, <1>4 DEF TypeInv, build, Sender

\* A sender goes on, or ends; time passes for all of them.
LEMMA SenderType ==
  ASSUME TypeInv, HistoryOK', \/ \E t \in threads : ReadAddress(t) \/ ReadMessage(t) \/ Post(t)
                              \/ Tick
  PROVE  TypeInv'
<1>1. UNCHANGED <<SPphones, msgs, msgBuf, build, caller, escalated>>
  BY DEF ReadAddress, ReadMessage, Post, Tick, ghosts
<1>2. ASSUME NEW t, NEW u, t = Sender(t),
             \/ \E ip : u = [t EXCEPT !.pc = "addressed", !.ip = ip]
             \/ \E m : u = [t EXCEPT !.pc = "posting", !.msg = m]
      PROVE  u.age = t.age /\ u = Sender(u)
  <2>1. CASE \E ip : u = [t EXCEPT !.pc = "addressed", !.ip = ip]
    BY <1>2, <2>1 DEF Sender
  <2>2. CASE \E m : u = [t EXCEPT !.pc = "posting", !.msg = m]
    BY <1>2, <2>2 DEF Sender
  <2>3. QED
    BY <1>2, <2>1, <2>2
<1>3. \A t \in threads : t.age \in 0 .. TIMEOUT /\ t = Sender(t)
  BY DEF TypeInv, TypeOK
<1>4. \A t \in threads' : t.age \in 0 .. TIMEOUT /\ t = Sender(t)
  <2>1. CASE \E t \in threads : ReadAddress(t)
    <3>1. PICK t \in threads : ReadAddress(t)
      BY <2>1
    <3>2. PICK ip : threads' = (threads \ {t}) \union {[t EXCEPT !.pc = "addressed", !.ip = ip]}
      BY <3>1 DEF ReadAddress, Becomes
    <3>3. QED
      BY <1>2, <1>3, <3>2
  <2>2. CASE \E t \in threads : ReadMessage(t)
    <3>1. PICK t \in threads : ReadMessage(t)
      BY <2>2
    <3>2. PICK m : threads' = (threads \ {t}) \union {[t EXCEPT !.pc = "posting", !.msg = m]}
      BY <3>1 DEF ReadMessage, Becomes
    <3>3. QED
      BY <1>2, <1>3, <3>2
  <2>3. CASE \E t \in threads : Post(t)
    BY <1>3, <2>3 DEF Post
  <2>4. CASE Tick
    <3>1. ASSUME NEW u \in threads' PROVE u.age \in 0 .. TIMEOUT /\ u = Sender(u)
      <4>1. PICK t \in threads : u = [t EXCEPT !.age = @ + 1]
        BY <2>4, <3>1 DEF Tick
      <4>2. t.age < TIMEOUT
        BY <2>4 DEF Tick
      <4>3. u.age = t.age + 1 /\ u = Sender(u)
        BY <1>3, <4>1 DEF Sender
      <4>4. QED
        BY <1>3, <4>2, <4>3, MsgSendAssumption
    <3>2. QED
      BY <3>1
  <2>5. QED
    BY <2>1, <2>2, <2>3, <2>4
<1>5. QED
  BY <1>1, <1>4 DEF TypeInv, TypeOK, build

\* A record is taken into use, or out of it: its address stays one.
LEMMA TableType ==
  ASSUME TypeInv, HistoryOK', NEW s \in Slots, Remove(s) \/ \E ip \in IPs : Register(s, ip)
  PROVE  TypeInv'
<1>1. UNCHANGED <<msgs, msgBuf, build, caller, threads, escalated>>
  BY DEF Remove, Register
<1>2. SPphones' \in [Slots -> [in_use : BOOLEAN, ip_addr : IPs]]
  <2>1. ASSUME NEW r \in [in_use : BOOLEAN, ip_addr : IPs], SPphones' = [SPphones EXCEPT ![s] = r]
        PROVE  SPphones' \in [Slots -> [in_use : BOOLEAN, ip_addr : IPs]]
    BY <2>1 DEF TypeInv, TypeOK
  <2>2. CASE Remove(s)
    <3>1. [SPphones[s] EXCEPT !.in_use = FALSE] \in [in_use : BOOLEAN, ip_addr : IPs]
      BY DEF TypeInv, TypeOK
    <3>2. QED
      BY <2>1, <2>2, <3>1 DEF Remove
  <2>3. CASE \E ip \in IPs : Register(s, ip)
    BY <2>1, <2>3 DEF Register
  <2>4. QED
    BY <2>2, <2>3
<1>3. QED
  BY <1>1, <1>2 DEF TypeInv, TypeOK, build, Sender

LEMMA InitType == Init => TypeInv
<1> SUFFICES ASSUME Init PROVE TypeInv
  OBVIOUS
<1>1. \A c \in Callers : caller[c].pc = "idle" /\ caller[c].sptr = Start
  BY DEF Init, Idle
<1>2. NoPage \in Pages
  BY DEF Pages
<1>3. QED
  BY <1>1, <1>2 DEF Init, TypeInv, TypeOK, HistoryOK, Buffers

LEMMA NextType == PushInv /\ TypeInv /\ [Next]_vars => TypeInv'
<1> SUFFICES ASSUME PushInv, TypeInv, [Next]_vars PROVE TypeInv'
  OBVIOUS
<1>1. PushInv' /\ HistoryOK'
  BY NextPush, HistoryType DEF TypeInv, TypeOK
<1>2. CASE UNCHANGED vars
  BY <1>1, <1>2 DEF vars, ghosts, build, TypeInv, TypeOK, Sender
<1>3. QED
  BY <1>1, <1>2, BeginType, MakeType, PushOneType, PushedType, SenderType, TableType DEF Next

\* The values of the variables, whatever comes at a bad time: also in a push that
\* another overtakes, a page is made of an alarm and texts, never of what has not
\* been set.
THEOREM TypeCorrect == Spec => []TypeOK
<1>1. TypeInv => TypeOK
  BY DEF TypeInv
<1>2. QED
  BY InitType, NextType, PushInductive, <1>1, PTL DEF Spec
=============================================================================
