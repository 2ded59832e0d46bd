------------------------------ MODULE MCQueues ------------------------------
(***************************************************************************)
(* Instances of Queues for TLC.                                            *)
(***************************************************************************)
EXTENDS Queues

CONSTANTS d1, d2, r1     \* model values: two data, one reading thread

\* A queue with no room at all and one that goes round.
MCDepths == {0, 2}
MCData == {d1, d2}
MCReaders == {r1}
NoReaders == {}
=============================================================================
