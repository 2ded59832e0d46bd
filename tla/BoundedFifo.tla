---------------------------- MODULE BoundedFifo ----------------------------
(***************************************************************************)
(* What a queue of queues.c promises its users, with no ring and no        *)
(* pointers: while it is open it holds at most `capacity' items and gives  *)
(* them back in the order it took them.  `peak' is the most it has held,   *)
(* `ret' what the last call that has a result returned: its truth value    *)
(* and the data it handed out.                                             *)
(***************************************************************************)
EXTENDS Naturals, Sequences

CONSTANT Data            \* what may be queued

VARIABLES
  open,                  \* has the queue been created and not destroyed?
  capacity,              \* how many items it may hold
  items,                 \* what it holds, oldest first
  peak,                  \* the most it has held since it was opened
  ret                    \* result of the last call on it

vars == <<open, capacity, items, peak, ret>>

Result(ok, data) == [ok |-> ok, data |-> data]

Init ==
  /\ open = FALSE
  /\ capacity = 0
  /\ items = <<>>
  /\ peak = 0
  /\ ret = Result(FALSE, <<>>)

Open ==
  /\ ~open
  /\ open' = TRUE
  /\ capacity' \in Nat
  /\ items' = <<>>
  /\ peak' = 0
  /\ UNCHANGED ret

Put(d) ==
  /\ Len(items) < capacity
  /\ items' = Append(items, d)
  /\ peak' = IF peak < Len(items') THEN Len(items') ELSE peak
  /\ ret' = Result(TRUE, <<>>)
  /\ UNCHANGED <<open, capacity>>

Get ==
  /\ items # <<>>
  /\ items' = Tail(items)
  /\ ret' = Result(TRUE, <<Head(items)>>)
  /\ UNCHANGED <<open, capacity, peak>>

\* A put into a full queue and a get from an empty one change nothing.
Refuse ==
  /\ Len(items) = capacity \/ items = <<>>
  /\ ret' = Result(FALSE, <<>>)
  /\ UNCHANGED <<open, capacity, items, peak>>

\* A copy of everything held, oldest first.
Copy ==
  /\ ret' = Result(items # <<>>, items)
  /\ UNCHANGED <<open, capacity, items, peak>>

Clear ==
  /\ items' = <<>>
  /\ UNCHANGED <<open, capacity, peak, ret>>

Close ==
  /\ open
  /\ open' = FALSE
  /\ capacity' = 0
  /\ items' = <<>>
  /\ peak' = 0
  /\ UNCHANGED ret

Next ==
  \/ Open
  \/ \E d \in Data : Put(d)
  \/ Get
  \/ Refuse
  \/ Copy
  \/ Clear
  \/ Close

Spec == Init /\ [][Next]_vars
=============================================================================
