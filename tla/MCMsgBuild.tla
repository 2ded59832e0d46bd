----------------------------- MODULE MCMsgBuild -----------------------------
(***************************************************************************)
(* Instances of MsgBuild for TLC.                                          *)
(***************************************************************************)
EXTENDS MsgBuild

\* "phones" is spelled in two ways.
FileSpellings == {"", "phones", " phones ", "general"}
Stripped(g) == IF g = " phones " THEN "phones" ELSE g

TwoVars == {"audio1", "audio2"}
\* A value may be empty, and one may be longer than there is room for.
Names == {<<"bell.wav">>, <<>>, <<"the", "long", "bell.wav">>}
ShortNames == {<<"bell.wav">>, <<>>}
Junk == {<<"?">>}

\* A token twice, and all of them.
Texts == {<<"[AUDIO1]", "<html>", "[AUDIO1]">>, match}

Depts == {<<"tools">>}
Numbers == {<<"1">>}
\* Bound: pages are made with configurations of one name of an audio file at most.
OneName ==
  pages > 0 => \A i \in DOMAIN groups : groups[i].name = "phones" /\ Len(groups[i].vars) <= 1

AcceptTexts == {<<"Request Accepted">>}
=============================================================================
