---------------------------- MODULE MCAlarmPath ----------------------------
(***************************************************************************)
(* Instances of AlarmPath for TLC.                                         *)
(***************************************************************************)
EXTENDS AlarmPath

CONSTANTS host, ip1, ip2, a1, a2     \* model values

TwoIPs == {ip1, ip2}
TwoAlarms == {a1, a2}
Nothing == {}
NoPrefix == {}
ShortNames == [a \in Alarms |-> 1]

\* Which of the two addresses a phone has makes no difference.
MCInit == Init /\ SPphones[0].ip_addr = ip1

\* Nor which alarm the host raises first: an empty queue refuses none.
InOrder == add'[host].msg # NULL /\ add'[host].msg.alarm = a2 => a1 \in AlarmsOf(accepted)

MCSpec == MCInit /\ [][Next]_vars /\ Fairness
=============================================================================
