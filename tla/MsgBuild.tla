------------------------------ MODULE MsgBuild ------------------------------
(***************************************************************************)
(* msgBuild.c: the pages made from templates, with strsub.c, and with the  *)
(* names of the audio files from the configuration (JConfig.tla).          *)
(*                                                                         *)
(* A text is a sequence of symbols, of which some are the tokens that      *)
(* stand for values.  Tokens are replaced one after the other, each pass   *)
(* copying the text from one buffer to another; the values are found       *)
(* through static variables, which both threads that make pages set, with  *)
(* no lock between them.                                                   *)
(***************************************************************************)
EXTENDS JConfig

CONSTANTS
  TemplateTexts,    \* texts template files may have
  Departments, AlarmNumbers,        \* texts of an alarm: its department, its number
  Accepting,        \* texts an accept is announced with
  AUDIO_SIZE,       \* room for the name of an audio file: sizeof( audio1Str )
  Behind,           \* texts that may follow in memory on one that has no end
  MaxPages          \* bound: pages made

ASSUME MsgBuildAssumption ==
  AUDIO_SIZE \in Nat /\ AUDIO_SIZE > 1 /\ Behind # {} /\ MaxPages \in Nat

\* The list replacements[ ].
match == <<"[COLOR]", "[SERVER]", "[DEPT]", "[ALARM]", "[LEVEL]",
           "[AUDIO1]", "[AUDIO2]", "[AUDIO3]">>

AudioVars == <<"audio1", "audio2", "audio3">>
AudioDefaults == <<"audio1.wav", "audio2.wav", "audio3.wav">>
AudioDefault(i) == <<AudioDefaults[i]>>

VARIABLES
  barColor, server, deptName, alarmStr, levelStr, audioStr,   \* the static variables
  outbuf,           \* msgSend.c's buffers: for alerts and for accepts
  job,              \* [Makers -> a call of msgBuild_make..., with its locals]
  pages,            \* pages begun
  crossed           \* history: the threads whose page, the one being made or else the
                    \* last, was made while the other thread made one

statics == <<barColor, server, deptName, alarmStr, levelStr, audioStr>>
vars == <<configVars, statics, outbuf, job, pages, crossed>>

Runner == "runner"
Server == "server"
Makers == {Runner, Server}

NoText == <<>>
Idle == [pc |-> "idle", dept |-> NoText, alarm |-> NoText, level |-> NoText, color |-> NoText,
         template |-> NoText, buf2 |-> NoText, orig |-> "template", dest |-> "buf2", pass |-> 1]

Init ==
  /\ JInit
  /\ barColor = NoText /\ server = NoText /\ deptName = NoText
  /\ alarmStr = NoText /\ levelStr = NoText
  /\ audioStr = <<NoText, NoText, NoText>>
  /\ outbuf = [c \in Makers |-> NoText]
  /\ job = [c \in Makers |-> Idle]
  /\ pages = 0
  /\ crossed = {}

-----------------------------------------------------------------------------
(* strsub_Replace.                                                         *)

\* Mutant: only the first is replaced.
ReplaceFirst(orig, rep, with) ==
  LET at == SelectInSeq(orig, LAMBDA x : x = rep) IN
  IF at = 0 THEN orig
  ELSE SubSeq(orig, 1, at - 1) \o with \o SubSeq(orig, at + 1, Len(orig))

Replace(orig, rep, with) ==
  FlattenSeq([i \in DOMAIN orig |-> IF orig[i] = rep THEN with ELSE <<orig[i]>>])

-----------------------------------------------------------------------------
(* msgBuild_makeAlertMsg and msgBuild_makeAcceptMsg.                       *)

\* Pages are made once the configuration has been read, or could not be.
MayBegin(c) ==
  /\ start \in {"done", "failed"}
  /\ job[c].pc = "idle"
  /\ pages < MaxPages

\* The text of an escalation level, and the colour that goes with it.
Levels == {[text |-> NoText, color |-> <<"green">>],
           [text |-> <<"2nd Request">>, color |-> <<"yellow">>],
           [text |-> <<"3rd Request">>, color |-> <<"red">>]}

\* A template that cannot be read, or is too long, ends the call.
ReadTemplate(c, dept, alarm, level, color) ==
  /\ MayBegin(c)
  /\ \E t \in TemplateTexts :
       job' = [job EXCEPT ![c] = [Idle EXCEPT !.pc = "set", !.dept = dept, !.alarm = alarm,
                                              !.level = level, !.color = color, !.template = t]]
  /\ pages' = pages + 1
  /\ UNCHANGED <<configVars, statics, outbuf, crossed>>

MakeAlert ==
  \E dept \in Departments, alarm \in AlarmNumbers, level \in Levels :
    ReadTemplate(Runner, dept, alarm, level.text, level.color)

MakeAccept ==
  \E dept \in Departments, text \in Accepting : ReadTemplate(Server, dept, NoText, text, NoText)

OurAddress == <<"address:port">>

\* A page is being made from when its values are set until it is finished.
Busy(c) == job[c].pc \in {"audio", "replace"}

MayCross(c) ==
  crossed' = IF \E d \in Makers \ {c} : Busy(d) THEN Makers ELSE crossed \ {c}

SetAlert ==
  /\ job[Runner].pc = "set"
  /\ levelStr' = job[Runner].level /\ barColor' = job[Runner].color
  /\ deptName' = job[Runner].dept /\ alarmStr' = job[Runner].alarm
  /\ server' = OurAddress
  /\ job' = [job EXCEPT ![Runner].pc = "audio"]
  /\ MayCross(Runner)
  /\ UNCHANGED <<configVars, audioStr, outbuf, pages>>

\* The colour and the alarm's number stay those of the last alert.
SetAccept ==
  /\ job[Server].pc = "set"
  /\ levelStr' = job[Server].level /\ deptName' = job[Server].dept
  /\ server' = OurAddress
  /\ job' = [job EXCEPT ![Server].pc = "audio"]
  /\ MayCross(Server)
  /\ UNCHANGED <<configVars, barColor, alarmStr, audioStr, outbuf, pages>>

-----------------------------------------------------------------------------
(* _msgBuild_buildMsg.                                                     *)

AudioName(i) == readStr("phones", AudioVars[i], AudioDefault(i))

\* strncpy copies what there is room for.  A name that fills all of it has no end:
\* who reads it goes on into what is behind.
strncpy(name) == IF Len(name) < AUDIO_SIZE THEN name ELSE SubSeq(name, 1, AUDIO_SIZE)
Reads(name) == IF Len(name) < AUDIO_SIZE THEN {name} ELSE {name \o text : text \in Behind}

\* _msgBuild_ChkAudio: names not yet known are read from the configuration.  Two
\* threads that copy the same name at the same time leave the same bytes there; a
\* page that is made of half a name is made while the other thread makes one.
ChkAudio(c) ==
  /\ job[c].pc = "audio"
  /\ audioStr' = [i \in 1 .. 3 |->
                    IF audioStr[i] = NoText THEN strncpy(AudioName(i)) ELSE audioStr[i]]
  /\ job' = [job EXCEPT ![c].pc = "replace"]
  /\ UNCHANGED <<configVars, barColor, server, deptName, alarmStr, levelStr, outbuf, pages,
                 crossed>>

\* What a token may stand for at the moment.
replace ==
  <<{barColor}, {server}, {deptName}, {alarmStr}, {levelStr},
    Reads(audioStr[1]), Reads(audioStr[2]), Reads(audioStr[3])>>

Text(c, from) ==
  CASE from = "template" -> job[c].template
    [] from = "buf2" -> job[c].buf2
    [] from = "outbuf" -> outbuf[c]

\* Mutant: the template is replaced into again and again.
PassNoPingPong(c, with) ==
  LET me == job[c]
      text == Replace(Text(c, me.orig), match[me.pass], with)
  IN
  /\ outbuf' = IF me.dest = "outbuf" THEN [outbuf EXCEPT ![c] = text] ELSE outbuf
  /\ job' = [job EXCEPT ![c].buf2 = IF me.dest = "buf2" THEN text ELSE @,
                        ![c].dest = IF me.dest = "buf2" THEN "outbuf" ELSE "buf2",
                        ![c].pass = @ + 1]
  /\ UNCHANGED <<configVars, statics, pages, crossed>>

\* One token: from one buffer to the other, the first time from the template.
Pass(c, with) ==
  LET me == job[c]
      text == Replace(Text(c, me.orig), match[me.pass], with)
  IN
  /\ outbuf' = IF me.dest = "outbuf" THEN [outbuf EXCEPT ![c] = text] ELSE outbuf
  /\ job' = [job EXCEPT ![c].buf2 = IF me.dest = "buf2" THEN text ELSE @,
                        ![c].orig = me.dest,
                        ![c].dest = IF me.pass = 1 THEN "outbuf" ELSE me.orig,
                        ![c].pass = @ + 1]
  /\ UNCHANGED <<configVars, statics, pages, crossed>>

ReplacePass(c) ==
  /\ job[c].pc = "replace" /\ job[c].pass <= Len(match)
  /\ \E with \in replace[job[c].pass] : Pass(c, with)

\* The page is in outbuf, or is moved there.
Finish(c) ==
  /\ job[c].pc = "replace" /\ job[c].pass > Len(match)
  /\ outbuf' = IF job[c].orig # "outbuf" THEN [outbuf EXCEPT ![c] = job[c].buf2] ELSE outbuf
  /\ job' = [job EXCEPT ![c] = Idle]
  /\ UNCHANGED <<configVars, statics, pages, crossed>>

-----------------------------------------------------------------------------
Next ==
  \/ Starting /\ UNCHANGED <<statics, outbuf, job, pages, crossed>>
  \/ MakeAlert \/ SetAlert
  \/ MakeAccept \/ SetAccept
  \/ \E c \in Makers : ChkAudio(c) \/ ReplacePass(c) \/ Finish(c)

Spec == Init /\ [][Next]_vars

-----------------------------------------------------------------------------
Tokens == {match[i] : i \in DOMAIN match}

\* The shape of the variables; the two buffers of a pass are never the same.
TypeOK ==
  /\ start \in {"begin", "reading", "done", "failed"}
  /\ \A i \in DOMAIN groups : \A j \in DOMAIN groups[i].vars : groups[i].vars[j].value \in Values
  /\ \A c \in Makers :
       /\ job[c].pc \in {"idle", "set", "audio", "replace"}
       /\ job[c].pass \in 1 .. Len(match) + 1
       /\ job[c].orig # job[c].dest
       /\ job[c].pass > 1 => {job[c].orig, job[c].dest} = {"buf2", "outbuf"}
  /\ pages \in 0 .. MaxPages
  /\ crossed \subseteq Makers

\* What a token of the page stands for, by the call that makes it.
Meant(c, token) ==
  CASE token = "[DEPT]" -> job[c].dept
    [] token = "[LEVEL]" -> job[c].level
    [] token = "[COLOR]" -> IF c = Runner THEN job[c].color ELSE barColor
    [] token = "[ALARM]" -> IF c = Runner THEN job[c].alarm ELSE alarmStr
    [] token = "[SERVER]" -> OurAddress
    [] OTHER -> AudioName(CHOOSE i \in 1 .. 3 : match[5 + i] = token)

Filled(c) ==
  FlattenSeq([i \in DOMAIN job[c].template |->
                LET x == job[c].template[i] IN IF x \in Tokens THEN Meant(c, x) ELSE <<x>>])

NamesFit == \A i \in 1 .. 3 : Len(AudioName(i)) < AUDIO_SIZE

\* A page is its template with every token replaced by what it stands for, once
\* and all at the same time: eight passes through two buffers, and audio names
\* that are read once and kept, come to that.  The threads may make pages at the
\* same time; the page is right if this one was not made so, whatever was before,
\* if there is room for the names of the audio files, and if no value has a token
\* in it.
PageAsMeant ==
  [][ \A c \in Makers : Finish(c) /\ c \notin crossed /\ NamesFit => outbuf'[c] = Filled(c) ]_vars

\* What msgBuild.c does not see to: that the values one thread has set are still
\* there when its page is made, and that a name fits.
AlwaysAsMeant == [][ \A c \in Makers : Finish(c) => outbuf'[c] = Filled(c) ]_vars
=============================================================================
