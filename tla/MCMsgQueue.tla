----------------------------- MODULE MCMsgQueue -----------------------------
(***************************************************************************)
(* Instances of MsgQueue for TLC.                                          *)
(***************************************************************************)
EXTENDS MsgQueue, TLC

CONSTANTS c1, c2, a1, a2     \* model values: calling threads, alarms

OneCaller == {c1}
TwoCallers == {c1, c2}
MCAlarms == {a1, a2}
OneAlarm == {a1}

\* One name that fits and one that is too long.
MCNameLength == (a1 :> 1) @@ (a2 :> 3)
\* A name as long as the buffer is wide.
FullNameLength == (a1 :> 2)
=============================================================================
