---------------------------- MODULE Server_proofs ----------------------------
(***************************************************************************)
(* Theorems about the two ends of the plug-in's main thread: its start     *)
(* (Startup.tla), and what its web server makes of the messages it gets    *)
(* (MsgXML.tla).  The two specifications share nothing.                    *)
(*                                                                         *)
(* Startup, whatever the outcome of the configuration and of the server,   *)
(* and with or without timeouts.  Handshake is why no signal is lost:      *)
(* before the host waits, either nothing has been started or the mutex     *)
(* keeps everyone out of MainSignal.  Outcome is why the report can be     *)
(* trusted: "OK" is the last signal ever given, and a wait that neither    *)
(* timed out nor woke up by itself has been signalled.                     *)
(*                                                                         *)
(* MsgXML, for any fields, sizes, texts, depth of nesting and number of    *)
(* messages.  While a message is parsed the depth is its nesting, from     *)
(* which the types follow.  That a field is recorded as it was said rests  *)
(* on Parsed: as long as nothing stray has been begun, the flag says       *)
(* whether a registration has been, the last element to start is the field *)
(* that is open, and so a run is saved exactly when it belongs to the      *)
(* registration: what phone_reg holds of a field is the last run of it,    *)
(* cut to its place.                                                       *)
(***************************************************************************)
EXTENDS Startup, MsgXML, TLAPS

(* The start of the plug-in. *)

Returned == {"returned", "opened", "failed", "looping"}

Handshake ==
  /\ host = "init" => starter = "none" /\ PluginStatusString = "none"
  /\ host = "created" => StartMutex = "locked" /\ PluginStatusString = "none"
  /\ host = "waiting" => PluginStatusString = "none"
  /\ starter \in {"none", "config", "signal"} => server = "none"

\* sp8440_Start and init_plugin create one main thread each.
MainThreads ==
  mainThreads <= (IF starter = "done" THEN 1 ELSE 0) + (IF host \in Returned THEN 1 ELSE 0)

\* "OK" is the last signal ever given, and the only one of success.
Outcome ==
  /\ PluginStatusString # "none" => (PluginStatus = 0 <=> PluginStatusString = "OK")
  /\ PluginStatusString = "OK" => server \in {"dispatching", "exited"}

IInv == TypeOK /\ Handshake /\ MainThreads /\ Outcome

\* A wait that a signal ended was signalled, and what init_plugin concludes from
\* it is so.
Confirmed ==
  /\ ret = "0" /\ host \notin {"init", "created", "waiting"} => PluginStatusString # "none"
  /\ status = "PLUGIN_RUNNING" /\ host = "judged" /\ ret # "unsignalled"
       => PluginStatusString = "OK"
  /\ alarm_8440 # "NULL" => host \in Returned
  /\ RegisteredWhenUp

LEMMA InitIInv == Init => IInv
BY DEF Init, IInv, TypeOK, Handshake, MainThreads, Outcome, Returned, Statuses

\* The three parts of a signal, for the four callers of MainSignal.
LEMMA SignalIInv ==
  ASSUME IInv, StarterSignal \/ ServerUp \/ ServerBindFailed \/ ServerNoBase
  PROVE  IInv'
<1> USE DEF IInv, TypeOK, Handshake, MainThreads, Outcome, Returned, Statuses,
            MainSignal, plugin, InLibrary, Running
<1>1. CASE StarterSignal
  BY <1>1 DEF StarterSignal
<1>2. CASE ServerUp
  BY <1>2 DEF ServerUp
<1>3. CASE ServerBindFailed
  BY <1>3 DEF ServerBindFailed
<1>4. CASE ServerNoBase
  BY <1>4 DEF ServerNoBase
<1>5. QED
  BY <1>1, <1>2, <1>3, <1>4

LEMMA HostIInv ==
  ASSUME IInv, Host
  PROVE  IInv'
<1> USE DEF IInv, TypeOK, Handshake, MainThreads, Outcome, Returned, Statuses,
            signal, plugin, Running
<1>1. CASE HostCreate
  BY <1>1 DEF HostCreate
<1>2. CASE HostWait
  BY <1>2 DEF HostWait
<1>3. CASE HostTimesOut
  BY <1>3 DEF HostTimesOut, Unsignalled
<1>4. CASE HostWakesUp
  BY <1>4 DEF HostWakesUp, Unsignalled
<1>5. CASE HostJudge
  BY <1>5 DEF HostJudge
<1>6. CASE HostReturn
  BY <1>6 DEF HostReturn
<1>7. CASE HostOpened
  BY <1>7 DEF HostOpened
<1>8. CASE HostFails
  BY <1>8 DEF HostFails
<1>9. CASE HostLoops
  BY <1>9 DEF HostLoops
<1>10. QED
  BY <1>1, <1>2, <1>3, <1>4, <1>5, <1>6, <1>7, <1>8, <1>9 DEF Host

LEMMA NextIInv ==
  ASSUME IInv, [Next]_vars
  PROVE  IInv'
<1> USE DEF IInv, TypeOK, Handshake, MainThreads, Outcome, Returned, Statuses,
            signal, plugin, InLibrary, Running
<1>1. CASE Host
  BY <1>1, HostIInv
<1>2. CASE StarterConfig
  BY <1>2 DEF StarterConfig
<1>3. CASE StarterMain
  BY <1>3 DEF StarterMain
<1>4. CASE ServerStart
  BY <1>4, StartupAssumption DEF ServerStart
<1>5. CASE ServerBindsNull
  BY <1>5 DEF ServerBindsNull
<1>6. CASE StarterSignal \/ ServerUp \/ ServerBindFailed \/ ServerNoBase
  BY <1>6, SignalIInv
<1>7. CASE ServerExits
  BY <1>7 DEF ServerExits
<1>8. CASE MainExits
  BY <1>8 DEF MainExits
<1>9. CASE RunsUnmapped
  BY <1>9 DEF RunsUnmapped
<1>10. CASE UNCHANGED vars
  BY <1>10 DEF vars
<1>11. QED
  BY <1>1, <1>2, <1>3, <1>4, <1>5, <1>6, <1>7, <1>8, <1>9, <1>10
     DEF Next, Starter, ServerThread

THEOREM Inductive == Spec => []IInv
<1>1. IInv /\ [Next]_vars => IInv'
  BY NextIInv
<1>2. QED
  BY InitIInv, <1>1, PTL DEF Spec

-----------------------------------------------------------------------------
\* Type correctness.
THEOREM TypeCorrect == Spec => []TypeOK
<1>1. IInv => TypeOK
  BY DEF IInv
<1>2. QED
  BY Inductive, <1>1, PTL

\* The host never waits for a signal that has already been given: the mutex
\* is taken before the first thread is created.
THEOREM NoSignalIsLost == Spec => []NoSignalLost
<1>1. IInv => NoSignalLost
  BY DEF IInv, Handshake, NoSignalLost
<1>2. QED
  BY Inductive, <1>1, PTL

\* Unless its wait ended by itself the host knows what it does.
LEMMA InitConfirmed == Init => Confirmed
BY DEF Init, Confirmed, RegisteredWhenUp

LEMMA NextConfirmed ==
  ASSUME IInv, Confirmed, [Next]_vars
  PROVE  Confirmed'
<1> USE DEF IInv, TypeOK, Handshake, Outcome, Confirmed, RegisteredWhenUp, Returned, Statuses,
            signal, plugin, MainSignal, InLibrary, Running
<1>1. CASE HostCreate \/ HostWait
  BY <1>1 DEF HostCreate, HostWait
<1>2. CASE HostTimesOut \/ HostWakesUp
  BY <1>2 DEF HostTimesOut, HostWakesUp, Unsignalled
<1>3. CASE HostJudge
  BY <1>3 DEF HostJudge
<1>4. CASE HostReturn
  BY <1>4 DEF HostReturn
<1>5. CASE HostOpened \/ HostFails \/ HostLoops
  BY <1>5 DEF HostOpened, HostFails, HostLoops
<1>6. CASE StarterConfig \/ StarterMain \/ ServerStart \/ ServerBindsNull
  BY <1>6 DEF StarterConfig, StarterMain, ServerStart, ServerBindsNull
<1>7. CASE StarterSignal
  BY <1>7 DEF StarterSignal
<1>8. CASE ServerUp
  BY <1>8 DEF ServerUp
<1>9. CASE ServerBindFailed \/ ServerNoBase
  BY <1>9 DEF ServerBindFailed, ServerNoBase
<1>10. CASE ServerExits \/ MainExits \/ RunsUnmapped
  BY <1>10 DEF ServerExits, MainExits, RunsUnmapped
<1>11. CASE UNCHANGED vars
  BY <1>11 DEF vars
<1>12. QED
  BY <1>1, <1>2, <1>3, <1>4, <1>5, <1>6, <1>7, <1>8, <1>9, <1>10, <1>11
     DEF Next, Host, Starter, ServerThread

\* The alarm function is handed out only after the server has reported "OK",
\* timeouts or not, unless the wait ended with neither signal nor timeout.
THEOREM RegisteredOnlyWhenUp == Spec => []RegisteredWhenUp
<1>1. IInv /\ Confirmed /\ [Next]_vars => Confirmed'
  BY NextConfirmed
<1>2. Confirmed => RegisteredWhenUp
  BY DEF Confirmed
<1>3. QED
  BY Inductive, InitConfirmed, <1>1, <1>2, PTL DEF Spec

-----------------------------------------------------------------------------
(* A registration from a phone. *)

Nesting ==
  /\ open \in Seq(Names)
  /\ Len(open) <= MaxDepth
  /\ parsing \in BOOLEAN
  /\ DepthIsNesting

\* What the static variables have to do with the message, while nothing stray
\* has been begun in it.
LastRun(f) == said[f][Len(said[f])]
Kept(f) == Len(LastRun(f)) < BufSize => phone_reg[f] = Cut(LastRun(f), Capacity[f])

Parsed ==
  /\ events \in Nat
  /\ said \in [Fields -> Seq(Runs)]
  /\ events = 0 => seen = "none" /\ open = <<>>
  /\ seen = "none" => /\ ~expat_OK /\ said = NoFields
                      /\ Len(open) >= 2 => open[2] # Registration
  /\ seen = "registration" => /\ Len(open) >= 1 => expat_OK
                              /\ Len(open) >= 2 => open[2] = Registration
  /\ seen # "stray" => /\ Len(open) <= 3
                       /\ Len(open) = 3 => last_el = open[3]
                       /\ \A f \in Fields : said[f] # <<>> => Kept(f)

Recorded ==
  /\ recorded.called => ~parsing
  /\ FieldsRecorded

XMLInv == XMLTypeOK /\ Nesting /\ (parsing => Parsed) /\ Recorded

-----------------------------------------------------------------------------
LEMMA Blank == NoFields \in [Fields -> Seq(Symbols)] /\ \A f \in Fields : Len(NoFields[f]) < Capacity[f]
<1>1. \A f \in Fields : Capacity[f] \in Nat \ {0}
  BY MsgXMLAssumption
<1>2. QED
  BY <1>1 DEF NoFields

\* A text that is cut fits its place, and one that fits is left as it is.
LEMMA CutFits ==
  ASSUME NEW text \in Seq(Symbols), NEW n \in Nat \ {0}
  PROVE  /\ Cut(text, n) \in Seq(Symbols)
         /\ Len(Cut(text, n)) < n
         /\ Len(text) < n => Cut(text, n) = text
<1>1. CASE Len(text) < n
  BY <1>1 DEF Cut
<1>2. CASE ~(Len(text) < n)
  <2>1. n - 1 \in 0 .. Len(text)
    BY <1>2
  <2>2. SubSeq(text, 1, n - 1) \in Seq(Symbols) /\ Len(SubSeq(text, 1, n - 1)) = n - 1
    BY <2>1
  <2>3. QED
    BY <1>2, <2>2 DEF Cut
<1>3. QED
  BY <1>1, <1>2

LEMMA InitXMLInv == XMLInit => XMLInv
<1> SUFFICES ASSUME XMLInit PROVE XMLInv
  OBVIOUS
<1>1. XMLTypeOK
  <2>1. expat_depth \in 0 .. MaxDepth
    BY MsgXMLAssumption DEF XMLInit
  <2>2. /\ expat_OK \in BOOLEAN /\ last_el \in Names \union {NULL}
        /\ seen \in {"none", "registration", "stray"}
    BY DEF XMLInit
  <2>3. phone_reg = NoFields /\ recorded.with = NoFields
    BY DEF XMLInit, Nothing
  <2>4. QED
    BY <2>1, <2>2, <2>3, Blank DEF XMLTypeOK
<1>2. ~parsing /\ parsing \in BOOLEAN /\ ~recorded.called
  BY DEF XMLInit, Nothing
<1>3. open \in Seq(Names)
  BY DEF XMLInit
<1>4. Len(open) <= MaxDepth
  BY MsgXMLAssumption DEF XMLInit
<1>5. QED
  BY <1>1, <1>2, <1>3, <1>4 DEF XMLInv, Nesting, DepthIsNesting, Recorded, FieldsRecorded

LEMMA ReceiveIInv == ASSUME XMLInv, Receive PROVE XMLInv'
<1>1. XMLTypeOK'
  <2>1. expat_depth' \in 0 .. MaxDepth
    BY MsgXMLAssumption DEF Receive
  <2>2. /\ expat_OK' \in BOOLEAN /\ last_el' \in Names \union {NULL}
        /\ seen' \in {"none", "registration", "stray"}
    BY DEF Receive, XMLInv, XMLTypeOK
  <2>3. phone_reg' = phone_reg /\ recorded'.with = NoFields
    BY DEF Receive, Nothing
  <2>4. QED
    BY <2>1, <2>2, <2>3, Blank DEF XMLTypeOK, XMLInv
<1>2. Nesting'
  <2>1. open' \in Seq(Names) /\ Len(open') <= MaxDepth /\ Len(open') = expat_depth'
    BY MsgXMLAssumption DEF Receive
  <2>2. QED
    BY <2>1 DEF Receive, Nesting, DepthIsNesting
<1>3. Parsed'
  <2>1. /\ events' = 0 /\ seen' = "none" /\ open' = <<>> /\ ~expat_OK' /\ said' = NoFields
        /\ Len(open') = 0
    BY DEF Receive
  <2>2. said' \in [Fields -> Seq(Runs)] /\ \A f \in Fields : said'[f] = <<>>
    BY <2>1 DEF NoFields
  <2>3. QED
    BY <2>1, <2>2 DEF Parsed
<1>4. ~recorded'.called
  BY DEF Receive, Nothing
<1>5. QED
  BY <1>1, <1>2, <1>3, <1>4 DEF XMLInv, Recorded, FieldsRecorded

\* What has been begun changes with the elements at depth 2 and 4.
LEMMA SeenChanges ==
  ASSUME NEW name, seen \in {"none", "registration", "stray"}, Len(open) \in Nat
  PROVE  /\ Seen(name) \in {"none", "registration", "stray"}
         /\ Seen(name) # "stray" => seen # "stray" /\ Len(open) # 3
         /\ Len(open) # 1 /\ Seen(name) # "stray" => Seen(name) = seen
         /\ Len(open) = 1 /\ Seen(name) = "none" => name # Registration /\ seen = "none"
         /\ Len(open) = 1 /\ Seen(name) = "registration" => name = Registration
BY DEF Seen

\* Another element is begun.
LEMMA StartIInv ==
  ASSUME XMLInv, NEW name \in Names, StartElement(name)
  PROVE  XMLInv'
<1>1. /\ parsing /\ parsing' = parsing /\ Len(open) < MaxDepth /\ events' = events + 1
      /\ open = <<>> => events = 0
      /\ open' = Append(open, name) /\ seen' = Seen(name)
      /\ expat_depth' = expat_depth + 1 /\ last_el' = name
      /\ expat_OK' = (expat_OK \/ (expat_depth' = 2 /\ name = Registration))
      /\ phone_reg' = phone_reg /\ said' = said /\ recorded' = recorded
  BY DEF StartElement, Event, XMLInv
<1>2. /\ open \in Seq(Names) /\ Len(open) \in Nat /\ expat_depth = Len(open)
      /\ seen \in {"none", "registration", "stray"} /\ Parsed /\ XMLTypeOK /\ Recorded
  BY <1>1 DEF XMLInv, XMLTypeOK, Nesting, DepthIsNesting
<1>3. /\ open' \in Seq(Names) /\ Len(open') = Len(open) + 1
      /\ \A i \in 1 .. Len(open) : open'[i] = open[i]
      /\ open'[Len(open) + 1] = name
  BY <1>1, <1>2
<1>4. Nesting'
  BY <1>1, <1>2, <1>3, MsgXMLAssumption DEF Nesting, DepthIsNesting
<1>5. XMLTypeOK'
  <2>1. expat_depth' \in 0 .. MaxDepth
    BY <1>1, <1>2, MsgXMLAssumption
  <2>2. expat_OK' \in BOOLEAN /\ last_el' \in Names \union {NULL}
    BY <1>1, <1>2 DEF XMLTypeOK
  <2>3. seen' \in {"none", "registration", "stray"}
    BY <1>1, <1>2, SeenChanges
  <2>4. QED
    BY <1>1, <1>2, <2>1, <2>2, <2>3 DEF XMLTypeOK
<1>6. Parsed'
  <2> DEFINE n == Len(open)
  <2>1. /\ n \in Nat /\ Len(open') = n + 1 /\ open'[n + 1] = name
        /\ n >= 2 => open'[2] = open[2]
        /\ n = 1 => open'[2] = name
        /\ expat_OK' <=> expat_OK \/ (n = 1 /\ name = Registration)
    <3>1. expat_depth' = 2 <=> n = 1
      BY <1>1, <1>2
    <3>2. expat_OK' <=> expat_OK \/ (n = 1 /\ name = Registration)
      BY <1>1, <3>1
    <3>3. QED
      BY <1>2, <1>3, <3>2
  <2>2. /\ seen' # "stray" => seen # "stray" /\ n # 3
        /\ n # 1 /\ seen' # "stray" => seen' = seen
        /\ n = 1 /\ seen' = "none" => name # Registration /\ seen = "none"
        /\ n = 1 /\ seen' = "registration" => name = Registration
    BY <1>1, <1>2, SeenChanges
  <2>3. events' \in Nat \ {0} /\ said' \in [Fields -> Seq(Runs)]
    BY <1>1, <1>2 DEF Parsed
  <2>4. n = 0 => seen = "none"
    <3>1. n = 0 => open = <<>>
      BY <1>2
    <3>2. QED
      BY <1>1, <1>2, <3>1 DEF Parsed
  <2> HIDE DEF n
  <2>5. ASSUME seen' = "none"
        PROVE  ~expat_OK' /\ said' = NoFields /\ (Len(open') >= 2 => open'[2] # Registration)
    <3>1. seen = "none"
      BY <2>1, <2>2, <2>5
    <3>2. ~expat_OK /\ said = NoFields /\ (n >= 2 => open[2] # Registration)
      BY <1>2, <3>1 DEF Parsed, n
    <3>3. QED
      BY <1>1, <2>1, <2>2, <2>5, <3>1, <3>2
  <2>6. ASSUME seen' = "registration"
        PROVE  (Len(open') >= 1 => expat_OK') /\ (Len(open') >= 2 => open'[2] = Registration)
    <3>1. CASE n = 1
      BY <2>1, <2>2, <2>6, <3>1
    <3>2. CASE n # 1
      <4>1. seen = "registration" /\ n >= 2
        BY <2>1, <2>2, <2>4, <2>6, <3>2
      <4>2. expat_OK /\ open[2] = Registration
        BY <1>2, <2>1, <4>1 DEF Parsed, n
      <4>3. QED
        BY <2>1, <4>1, <4>2
    <3>3. QED
      BY <3>1, <3>2
  <2>7. ASSUME seen' # "stray"
        PROVE  /\ Len(open') <= 3
               /\ Len(open') = 3 => last_el' = open'[3]
               /\ \A f \in Fields : said'[f] # <<>> => Kept(f)'
    <3>1. n <= 3 /\ \A f \in Fields : said[f] # <<>> => Kept(f)
      BY <1>2, <2>2, <2>7 DEF Parsed, n
    <3>2. Len(open') <= 3 /\ (Len(open') = 3 => last_el' = open'[3])
      BY <1>1, <2>1, <2>2, <2>7, <3>1
    <3>3. QED
      BY <1>1, <3>1, <3>2 DEF Kept, LastRun
  <2>8. QED
    BY <2>3, <2>5, <2>6, <2>7 DEF Parsed
<1>7. Recorded'
  BY <1>1, <1>2 DEF Recorded, FieldsRecorded
<1>8. QED
  BY <1>4, <1>5, <1>6, <1>7 DEF XMLInv

\* A run of characters.
LEMMA CharIInv ==
  ASSUME XMLInv, NEW run \in Runs, CharParse(run)
  PROVE  XMLInv'
<1> DEFINE sources == IF Len(run) < BufSize THEN {run} ELSE Garbage
           saves == expat_depth = 3 /\ expat_OK /\ last_el \in Fields
           says == Len(open) = 3 /\ open[2] = Registration /\ open[3] \in Fields
<1>1. /\ parsing /\ parsing' = parsing /\ events' = events + 1 /\ open # <<>>
      /\ expat_depth' = expat_depth /\ expat_OK' = expat_OK /\ last_el' = last_el
      /\ open' = open /\ seen' = seen /\ recorded' = recorded
  BY DEF CharParse, Event, XMLInv
<1>2. PICK data \in sources : phone_reg' =
        IF saves THEN [phone_reg EXCEPT ![last_el] = Cut(data, Capacity[last_el])] ELSE phone_reg
  BY DEF CharParse
<1>3. said' = IF says THEN [said EXCEPT ![open[3]] = Append(@, run)] ELSE said
  BY DEF CharParse
<1>4. data \in Seq(Symbols)
  BY MsgXMLAssumption
<1>5. \A f \in Fields : Capacity[f] \in Nat \ {0}
  BY MsgXMLAssumption
<1>6. XMLTypeOK /\ Nesting /\ Parsed /\ Recorded
  BY <1>1 DEF XMLInv
<1>7. XMLTypeOK'
  <2>1. CASE saves
    <3>1. /\ Cut(data, Capacity[last_el]) \in Seq(Symbols)
          /\ Len(Cut(data, Capacity[last_el])) < Capacity[last_el]
      BY <1>4, <1>5, <2>1, CutFits
    <3>2. phone_reg' \in [Fields -> Seq(Symbols)]
      BY <1>2, <1>6, <2>1, <3>1 DEF XMLTypeOK
    <3>3. \A f \in Fields : Len(phone_reg'[f]) < Capacity[f]
      BY <1>2, <1>6, <2>1, <3>1 DEF XMLTypeOK
    <3>4. QED
      BY <1>1, <1>6, <3>2, <3>3 DEF XMLTypeOK
  <2>2. CASE ~saves
    BY <1>1, <1>2, <1>6, <2>2 DEF XMLTypeOK
  <2>3. QED
    BY <2>1, <2>2
<1>8. said' \in [Fields -> Seq(Runs)]
  <2>1. said \in [Fields -> Seq(Runs)]
    BY <1>6 DEF Parsed
  <2>2. CASE says
    <3>1. Append(said[open[3]], run) \in Seq(Runs)
      BY <2>1, <2>2
    <3>2. QED
      BY <1>3, <2>1, <2>2, <3>1
  <2>3. QED
    BY <1>3, <2>1, <2>2
<1>9. seen # "stray" /\ says => saves /\ last_el = open[3] /\ seen = "registration"
  <2>1. SUFFICES ASSUME seen # "stray", says PROVE saves /\ last_el = open[3] /\ seen = "registration"
    OBVIOUS
  <2>2. expat_depth = 3 /\ last_el = open[3]
    BY <1>1, <1>6, <2>1 DEF Nesting, DepthIsNesting, Parsed
  <2>3. seen = "registration"
    BY <1>6, <2>1 DEF Parsed, XMLTypeOK
  <2>4. QED
    BY <1>6, <2>1, <2>2, <2>3 DEF Parsed
<1>10. seen # "stray" /\ saves => says /\ last_el = open[3]
  <2>1. SUFFICES ASSUME seen # "stray", saves PROVE says /\ last_el = open[3]
    OBVIOUS
  <2>2. Len(open) = 3
    BY <1>1, <1>6, <2>1 DEF Nesting, DepthIsNesting
  <2>3. last_el = open[3] /\ seen = "registration"
    BY <1>6, <2>1, <2>2 DEF Parsed, XMLTypeOK
  <2>4. QED
    BY <1>6, <2>1, <2>2, <2>3 DEF Parsed
<1>11. ASSUME seen # "stray", NEW f \in Fields, said'[f] # <<>>
       PROVE  Kept(f)'
  <2>1. said \in [Fields -> Seq(Runs)] /\ phone_reg \in [Fields -> Seq(Symbols)]
    BY <1>6 DEF Parsed, XMLTypeOK
  <2>2. CASE saves /\ f = last_el
    <3>1. said'[f] = Append(said[f], run)
      BY <1>3, <1>10, <1>11, <2>1, <2>2
    <3>2. LastRun(f)' = run
      BY <2>1, <3>1 DEF LastRun
    <3>3. phone_reg'[f] = Cut(data, Capacity[f])
      BY <1>2, <2>1, <2>2
    <3>4. Len(run) < BufSize => data = run
      OBVIOUS
    <3>5. QED
      BY <3>2, <3>3, <3>4 DEF Kept
  <2>3. CASE ~(saves /\ f = last_el)
    <3>1. said'[f] = said[f]
      BY <1>3, <1>9, <1>11, <2>1, <2>3
    <3>2. phone_reg'[f] = phone_reg[f]
      BY <1>2, <2>1, <2>3
    <3>3. Kept(f)
      BY <1>6, <1>11, <3>1 DEF Parsed
    <3>4. QED
      BY <3>1, <3>2, <3>3 DEF Kept, LastRun
  <2>4. QED
    BY <2>2, <2>3
<1> HIDE DEF sources, saves, says
<1>12. Parsed'
  <2>1. events' \in Nat \ {0}
    BY <1>1, <1>6 DEF Parsed
  <2>2. seen = "none" => said' = NoFields
    <3>1. seen = "none" => ~says
      BY <1>9
    <3>2. QED
      BY <1>3, <1>6, <3>1 DEF Parsed
  <2>3. QED
    BY <1>1, <1>6, <1>8, <1>11, <2>1, <2>2 DEF Parsed
<1>13. Nesting' /\ Recorded'
  <2>1. Nesting'
    BY <1>1, <1>6 DEF Nesting, DepthIsNesting
  <2>2. ~recorded'.called
    BY <1>1, <1>6 DEF Recorded
  <2>3. QED
    BY <2>1, <2>2 DEF Recorded, FieldsRecorded
<1>14. QED
  BY <1>7, <1>12, <1>13 DEF XMLInv

\* The beginning of a sequence.
LEMMA Shortened ==
  ASSUME NEW S, NEW s \in Seq(S), NEW n \in Nat, n <= Len(s)
  PROVE  /\ SubSeq(s, 1, n) \in Seq(S)
         /\ Len(SubSeq(s, 1, n)) = n
         /\ \A i \in 1 .. n : SubSeq(s, 1, n)[i] = s[i]
<1>1. SubSeq(s, 1, n) \in Seq(S)
  OBVIOUS
<1>2. Len(SubSeq(s, 1, n)) = n
  OBVIOUS
<1>3. ASSUME NEW i \in 1 .. n PROVE SubSeq(s, 1, n)[i] = s[i]
  OBVIOUS
<1>4. QED
  BY <1>1, <1>2, <1>3

\* An element ends.
LEMMA EndIInv == ASSUME XMLInv, EndElement PROVE XMLInv'
<1>1. /\ parsing /\ parsing' = parsing /\ events' = events + 1 /\ open # <<>>
      /\ open' = SubSeq(open, 1, Len(open) - 1) /\ expat_depth' = expat_depth - 1
      /\ expat_OK' = (expat_OK /\ expat_depth' # 0)
      /\ last_el' = last_el /\ seen' = seen /\ said' = said /\ phone_reg' = phone_reg
      /\ recorded' = recorded
  BY DEF EndElement, Event, XMLInv
<1>2. XMLTypeOK /\ Nesting /\ Parsed /\ Recorded
  BY <1>1 DEF XMLInv
<1>3. /\ open' \in Seq(Names) /\ Len(open') = Len(open) - 1 /\ Len(open) \in Nat \ {0}
      /\ \A i \in 1 .. Len(open') : open'[i] = open[i]
  <2>1. open \in Seq(Names) /\ Len(open) \in Nat \ {0}
    BY <1>1, <1>2 DEF Nesting
  <2>2. Len(open) - 1 \in Nat /\ Len(open) - 1 <= Len(open) /\ open' = SubSeq(open, 1, Len(open) - 1)
    BY <1>1, <2>1
  <2>3. QED
    BY <2>1, <2>2, Shortened
<1>4. Nesting'
  BY <1>1, <1>2, <1>3, MsgXMLAssumption DEF Nesting, DepthIsNesting
<1>5. expat_depth' = Len(open')
  BY <1>1, <1>4 DEF Nesting, DepthIsNesting
<1>6. XMLTypeOK'
  <2>1. expat_depth' \in 0 .. MaxDepth
    BY <1>3, <1>4, <1>5, MsgXMLAssumption DEF Nesting
  <2>2. expat_OK' \in BOOLEAN
    BY <1>1, <1>2 DEF XMLTypeOK
  <2>3. QED
    BY <1>1, <1>2, <2>1, <2>2 DEF XMLTypeOK
<1>7. Parsed'
  <2>1. events' \in Nat \ {0} /\ said' \in [Fields -> Seq(Runs)]
    BY <1>1, <1>2 DEF Parsed
  <2>2. ASSUME seen = "none"
        PROVE  ~expat_OK' /\ said' = NoFields /\ (Len(open') >= 2 => open'[2] # Registration)
    <3>1. ~expat_OK /\ said = NoFields /\ (Len(open) >= 2 => open[2] # Registration)
      BY <1>2, <2>2 DEF Parsed
    <3>2. Len(open') >= 2 => open'[2] # Registration
      BY <1>3, <3>1
    <3>3. QED
      BY <1>1, <3>1, <3>2
  <2>3. ASSUME seen = "registration"
        PROVE  (Len(open') >= 1 => expat_OK') /\ (Len(open') >= 2 => open'[2] = Registration)
    <3>1. expat_OK /\ (Len(open) >= 2 => open[2] = Registration)
      <4>1. Len(open) >= 1
        BY <1>3
      <4>2. QED
        BY <1>2, <2>3, <4>1 DEF Parsed
    <3>2. Len(open') >= 2 => open'[2] = Registration
      BY <1>3, <3>1
    <3>3. Len(open') >= 1 => expat_depth' # 0
      BY <1>5
    <3>4. QED
      BY <1>1, <3>1, <3>2, <3>3
  <2>4. ASSUME seen # "stray"
        PROVE  Len(open') <= 2 /\ \A f \in Fields : said'[f] # <<>> => Kept(f)'
    BY <1>1, <1>2, <1>3, <2>4 DEF Parsed, Kept, LastRun
  <2>5. Len(open') <= 2 => Len(open') <= 3 /\ Len(open') # 3
    BY <1>3
  <2>6. QED
    BY <1>1, <2>1, <2>2, <2>3, <2>4, <2>5 DEF Parsed
<1>8. Recorded'
  BY <1>1, <1>2 DEF Recorded, FieldsRecorded
<1>9. QED
  BY <1>4, <1>6, <1>7, <1>8 DEF XMLInv

\* The message is over: what was said in one run that fits is what is recorded.
LEMMA ParseOKIInv == ASSUME XMLInv, ParseOK PROVE XMLInv'
<1>1. /\ parsing /\ ~parsing' /\ parsing' \in BOOLEAN /\ recorded'.with = phone_reg
      /\ expat_depth' = expat_depth /\ expat_OK' = expat_OK /\ last_el' = last_el
      /\ phone_reg' = phone_reg /\ open' = open /\ said' = said /\ seen' = seen
  BY DEF ParseOK
<1>2. XMLTypeOK /\ Nesting /\ Parsed
  BY <1>1 DEF XMLInv
<1>3. XMLTypeOK' /\ Nesting'
  BY <1>1, <1>2 DEF XMLTypeOK, Nesting, DepthIsNesting
<1>4. ASSUME seen # "stray", NEW f \in Fields, Len(said[f]) = 1, Fits(said[f][1], f)
      PROVE  phone_reg[f] = said[f][1]
  <2>1. said[f] # <<>> /\ LastRun(f) = said[f][1]
    BY <1>4 DEF LastRun
  <2>2. phone_reg[f] = Cut(said[f][1], Capacity[f])
    BY <1>2, <1>4, <2>1 DEF Parsed, Kept, Fits
  <2>3. QED
    BY <1>4, <2>2 DEF Cut, Fits
<1>5. Recorded'
  BY <1>1, <1>4 DEF Recorded, FieldsRecorded, Fits
<1>6. QED
  BY <1>1, <1>3, <1>5 DEF XMLInv

LEMMA ParseFailsIInv == ASSUME XMLInv, ParseFails PROVE XMLInv'
BY DEF XMLInv, ParseFails, XMLTypeOK, Nesting, DepthIsNesting, Recorded, FieldsRecorded, Fits

LEMMA NextXMLInv == XMLInv /\ [XMLNext]_xmlVars => XMLInv'
<1> SUFFICES ASSUME XMLInv, [XMLNext]_xmlVars PROVE XMLInv'
  OBVIOUS
<1>1. CASE UNCHANGED xmlVars
  BY <1>1 DEF xmlVars, XMLInv, XMLTypeOK, Nesting, DepthIsNesting, Parsed, Kept, LastRun, Recorded,
              FieldsRecorded, Fits
<1>2. CASE XMLNext
  BY <1>2, ReceiveIInv, StartIInv, CharIInv, EndIInv, ParseOKIInv, ParseFailsIInv DEF XMLNext
<1>3. QED
  BY <1>1, <1>2

LEMMA XMLInductive == XMLSpec => []XMLInv
BY InitXMLInv, NextXMLInv, PTL DEF XMLSpec

-----------------------------------------------------------------------------
\* The static variables hold what they may, whatever expat calls back and
\* wherever a message breaks off.
THEOREM XMLTypeCorrect == XMLSpec => []XMLTypeOK
<1>1. XMLInv => XMLTypeOK
  BY DEF XMLInv
<1>2. QED
  BY XMLInductive, <1>1, PTL

\* The depth msgXML.c counts is the nesting of the message at hand, whatever an
\* earlier message that failed has left behind.
THEOREM DepthCorrect == XMLSpec => []DepthIsNesting
<1>1. XMLInv => DepthIsNesting
  BY DEF XMLInv, Nesting
<1>2. QED
  BY XMLInductive, <1>1, PTL

\* A field said in one run that fits buf and its own place is recorded as it was
\* said, in any registration with nothing stray in it: no text of an earlier
\* message survives in the static phone_reg, and none of this one is lost.
THEOREM RegistrationCorrect == XMLSpec => []FieldsRecorded
<1>1. XMLInv => FieldsRecorded
  BY DEF XMLInv, Recorded
<1>2. QED
  BY XMLInductive, <1>1, PTL

=============================================================================
