------------------------------ MODULE MCSpRec ------------------------------
(***************************************************************************)
(* Instances of SpRec for TLC.                                             *)
(***************************************************************************)
EXTENDS SpRec, TLC

CONSTANTS ip1, ip2, ip3, mac1, mac2, mac3, t1, t2     \* model values

OneIP == {ip1}
TwoIPs == {ip1, ip2}
ThreeIPs == {ip1, ip2, ip3}
OneMAC == {mac1}
TwoMACs == {mac1, mac2}
ThreeMACs == {mac1, mac2, mac3}
OneThread == {t1}
TwoThreads == {t1, t2}

\* A heap that happens to be zero, one that is not, and one that has the mark of
\* the end of the array in it.
ZeroHeap == {0}
DirtyHeap == {0, 7}
EndedHeap == {0, -1}

\* Addresses are only compared with each other.
Addresses == Permutations(IPs) \union Permutations(MACs)
=============================================================================
