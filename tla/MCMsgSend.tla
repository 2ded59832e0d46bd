----------------------------- MODULE MCMsgSend -----------------------------
(***************************************************************************)
(* Instances of MsgSend for TLC.                                           *)
(***************************************************************************)
EXTENDS MsgSend

CONSTANTS ip1, ip2, a1     \* model values

TwoIPs == {ip1, ip2}
OneAlarm == {a1}
Nothing == {}
Phones == {"phones"}
Anything == {"calls", "accepts", "phones"}
NoPrefix == {}

\* The text of the first address begins the text of the second: 10.0.0.1 and 10.0.0.12, say
Prefixed == {<<ip1, ip2>>}
=============================================================================
