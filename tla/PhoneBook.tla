----------------------------- MODULE PhoneBook -----------------------------
(***************************************************************************)
(* What spRec.c promises of the phones it keeps: a set, with no order and  *)
(* no free places, in which an IP address and a MAC address stand for one  *)
(* phone at most; and a copy of it that outlives the program, except that  *)
(* a program that stops while it writes the copy has none.                 *)
(*                                                                         *)
(* One call is made at a time.  All this is promised until a call begins   *)
(* before another is over; from then on nothing is.  SpRec.tla, which has  *)
(* the table and the steps, implements it.                                 *)
(***************************************************************************)
EXTENDS Integers, FiniteSets

CONSTANTS
  IPs, MACs,
  Nobody,           \* no address
  Rooms,            \* for how many phones there may be room
  MaxAge            \* a phone not seen for longer may be forgotten

VARIABLES
  phones,           \* the phones known
  saved, torn,      \* the copy: the phones in it, and whether it is half written
  call,             \* the call in progress, and the phone that registers
  now,
  up,               \* is the program running?
  behind,           \* did the last save fail?
  room,             \* for how many phones there is room, until the next start
  astray            \* has a call begun before another was over?

vars == <<phones, saved, torn, call, now, up, behind, room, astray>>

Phone(ip, mac, seen) == [ip |-> ip, mac |-> mac, seen |-> seen]
Call(doing, ip, mac) == [doing |-> doing, ip |-> ip, mac |-> mac]
NoCall == Call("nothing", Nobody, Nobody)
Cleaning == Call("cleaning", Nobody, Nobody)
Saving == Call("saving", Nobody, Nobody)

SameIP(p) == p.ip = call.ip
SameMAC(p) == p.mac = call.mac

\* Nothing that a save would have to make good.
Kept == (saved = phones /\ ~torn) \/ behind

Init ==
  /\ phones = {}
  /\ saved = {}
  /\ torn = FALSE
  /\ call = NoCall
  /\ now = 0
  /\ up = TRUE
  /\ behind = FALSE
  /\ room \in Rooms
  /\ astray = FALSE

-----------------------------------------------------------------------------
(* A phone registers.                                                      *)

Register(ip, mac) ==
  /\ up /\ call = NoCall
  /\ call' = Call("registering", ip, mac)
  /\ UNCHANGED <<phones, saved, torn, now, up, behind, room>>

\* A phone that has one of the two addresses, and not the other, is not there
\* any more.
Supersede(p) ==
  /\ up /\ call.doing = "registering"
  /\ SameIP(p) # SameMAC(p)
  /\ phones' = phones \ {p}
  /\ UNCHANGED <<saved, torn, call, now, up, behind, room>>

Refresh(p) ==
  /\ up /\ call.doing = "registering"
  /\ \A q \in phones : SameIP(q) = SameMAC(q)
  /\ SameIP(p)
  /\ phones' = (phones \ {p}) \union {Phone(p.ip, p.mac, now)}
  /\ call' = Saving
  /\ UNCHANGED <<saved, torn, now, up, behind, room>>

Unknown == \A p \in phones : ~SameIP(p) /\ ~SameMAC(p)

Learn ==
  /\ up /\ call.doing = "registering"
  /\ Unknown
  /\ Cardinality(phones) < room
  /\ phones' = phones \union {Phone(call.ip, call.mac, now)}
  /\ call' = Saving
  /\ UNCHANGED <<saved, torn, now, up, behind, room>>

Refuse ==
  /\ up /\ call.doing = "registering"
  /\ Unknown
  /\ Cardinality(phones) = room
  /\ Kept
  /\ call' = NoCall
  /\ UNCHANGED <<phones, saved, torn, now, up, behind, room>>

-----------------------------------------------------------------------------
(* Phones are removed.                                                     *)

Clean ==
  /\ up /\ call = NoCall
  /\ call' = Cleaning
  /\ UNCHANGED <<phones, saved, torn, now, up, behind, room>>

Expire(p) ==
  /\ up /\ call = Cleaning
  /\ now - p.seen > MaxAge
  /\ phones' = phones \ {p}
  /\ UNCHANGED <<saved, torn, call, now, up, behind, room>>

EndClean ==
  /\ up /\ call = Cleaning
  /\ \/ Kept /\ call' = NoCall
     \/ call' = Saving
  /\ UNCHANGED <<phones, saved, torn, now, up, behind, room>>

Remove(p) ==
  /\ up /\ call = NoCall
  /\ phones' = phones \ {p}
  /\ call' = Saving
  /\ UNCHANGED <<saved, torn, now, up, behind, room>>

-----------------------------------------------------------------------------
(* Every change is saved before the call is over.                          *)

BeginSave ==
  /\ up /\ call = Saving
  /\ ~torn
  /\ saved' = {}
  /\ torn' = TRUE
  /\ UNCHANGED <<phones, call, now, up, behind, room>>

EndSave ==
  /\ up /\ call = Saving
  /\ torn
  /\ saved' = phones
  /\ torn' = FALSE
  /\ behind' = FALSE
  /\ call' = NoCall
  /\ UNCHANGED <<phones, now, up, room>>

SaveFails ==
  /\ up /\ call = Saving
  /\ ~torn
  /\ behind' = TRUE
  /\ call' = NoCall
  /\ UNCHANGED <<phones, saved, torn, now, up, room>>

-----------------------------------------------------------------------------
Stop ==
  /\ up
  /\ up' = FALSE
  /\ phones' = {}
  /\ call' = NoCall
  /\ UNCHANGED <<saved, torn, now, behind, room>>

Restart ==
  /\ ~up /\ ~torn
  /\ up' = TRUE
  /\ phones' = saved
  /\ behind' = FALSE
  /\ room' \in Rooms /\ Cardinality(saved) <= room'
  /\ UNCHANGED <<saved, torn, call, now>>

Tick ==
  /\ up
  /\ now' = now + 1
  /\ UNCHANGED <<phones, saved, torn, call, up, behind, room>>

OneAtATime ==
  \/ \E ip \in IPs, mac \in MACs : Register(ip, mac)
  \/ \E p \in phones : Supersede(p) \/ Refresh(p) \/ Expire(p) \/ Remove(p)
  \/ Learn \/ Refuse
  \/ Clean \/ EndClean
  \/ BeginSave \/ EndSave \/ SaveFails
  \/ Stop \/ Restart
  \/ Tick

\* From the first overlap on there may be anything.
GoesAstray == astray' = TRUE

Next == (OneAtATime /\ UNCHANGED astray) \/ GoesAstray

Spec == Init /\ [][Next]_vars
=============================================================================
