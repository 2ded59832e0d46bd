---------------------------- MODULE SpRec_proofs ----------------------------
(***************************************************************************)
(* Theorems about SpRec.tla, for any size of the table, any addresses and  *)
(* threads, with calls of the threads that overlap as they like.           *)
(*                                                                         *)
(* That no address is in the table twice rests on what a registration has  *)
(* behind it at each step: of the records it has passed none has just one  *)
(* of its two addresses, and when it is about to add a record none has     *)
(* either.  Other threads only free records, which cannot undo that.  A    *)
(* walk misses no used record, as there is none after the end of the       *)
(* array.                                                                  *)
(*                                                                         *)
(* The file a save closes is right, whatever the others do, as long as no  *)
(* record changes while one is being printed (SavesAreFragile).  The saved *)
(* copy is that of the table once the table is quiet (SavedCorrect) by     *)
(* KeptInv: while nothing was mixed, who has changed a record has a save   *)
(* before it, and a save that prints has what the table has.               *)
(*                                                                         *)
(* The refinement of PhoneBook (Refinement) follows the book until calls   *)
(* overlap for the first time.  Until then one call is active at a time,   *)
(* and SerialInv says for each of its steps what it owes: that the file is *)
(* complete, what the call has changed and not yet saved, and that no other*)
(* call stands in the middle of anything.  Each step of a call is mapped to*)
(* the step of the book, or the stutter, that it is: one lemma for each    *)
(* action of the book (To...), one for each handler (Map...), from         *)
(* SerialInv before and after.  After the overlap the book has gone astray,*)
(* and what it still promises is its own.                                  *)
(***************************************************************************)
EXTENDS SpRec, TLAPS, WellFoundedInduction, FiniteSetTheorems

\* spRec_GetNextRecord and the searches of spRec.c return the first record of
\* those that fit: a nonempty set of natural numbers has a least element, and
\* Min is one.
LEMMA MinOf ==
  ASSUME NEW S \in SUBSET Nat, S # {}
  PROVE  Min(S) \in S /\ \A y \in S : Min(S) <= y
<1>1. PICK x \in S : \A y \in S : ~ (<<y, x>> \in OpToRel(<, Nat))
  BY WFMin, NatLessThanWellFounded
<1>2. ASSUME NEW y \in S PROVE x <= y
  <2>1. y < x => <<y, x>> \in OpToRel(<, Nat)
    BY DEF OpToRel
  <2>2. ~ (y < x)
    BY <1>1, <2>1
  <2>3. QED
    BY <2>2
<1>3. QED
  BY <1>2 DEF Min

Points == {"idle", "purge", "update", "add", "unlist", "test", "remove", "open", "print"}

Calls ==
  [pc : Points, sptr : Slots \union {Start}, curtime : 0 .. MaxTime, dirty : BOOLEAN,
   ip : IPs \union {Garbage}, mac : MACs \union {Garbage},
   printed : Seq(Records), comma : BOOLEAN, wellFormed : BOOLEAN]

\* A step that acts on a record has one, and a save prints each record once.
ProperCalls ==
  {c \in Calls : /\ c.pc \in {"update", "remove", "unlist"} => c.sptr \in Slots
                 /\ Len(c.printed) <= IF c.pc = "print" THEN c.sptr + 1 ELSE 0}

Files ==
  {f \in [text : {"missing", "empty", "json", "malformed"}, phones : Seq(Records)] :
     Len(f.phones) <= max_SPphones}

TInv == TypeOK /\ th \in [Threads -> ProperCalls]

-----------------------------------------------------------------------------
\* What spRec_GetNextRecord returns.
LEMMA NextRecord ==
  ASSUME NEW s \in Slots \union {Start}, GetNextRecord(s) # NoRecord
  PROVE  GetNextRecord(s) \in Slots /\ GetNextRecord(s) > s /\ Used(GetNextRecord(s))
<1> DEFINE ahead == {j \in Slots : j > s /\ Used(j)
                              /\ \A k \in Slots : s < k /\ k < j => SPphones[k].in_use # END}
<1>1. ahead # {} /\ GetNextRecord(s) = Min(ahead)
  BY DEF GetNextRecord
<1>2. ahead \in SUBSET Nat
  BY SpRecAssumption DEF Slots
<1>3. GetNextRecord(s) \in ahead
  BY <1>1, <1>2, MinOf
<1>4. QED
  BY <1>3

\* No used record lies after the end of the array.
EndLast == \A k, r \in Slots : k < r /\ Used(r) => SPphones[k].in_use # END

\* It skips no used record.
LEMMA NextRecordFirst ==
  ASSUME EndLast, NEW s \in Slots \union {Start}, NEW r \in Slots, r > s, Used(r)
  PROVE  GetNextRecord(s) # NoRecord /\ GetNextRecord(s) <= r
<1> DEFINE ahead == {j \in Slots : j > s /\ Used(j)
                              /\ \A k \in Slots : s < k /\ k < j => SPphones[k].in_use # END}
<1>1. r \in ahead
  BY DEF EndLast
<1>2. ahead \in SUBSET Nat
  BY SpRecAssumption DEF Slots
<1>3. GetNextRecord(s) = Min(ahead)
  BY <1>1 DEF GetNextRecord
<1>4. Min(ahead) \in ahead /\ Min(ahead) <= r
  BY <1>1, <1>2, MinOf
<1>5. Min(ahead) # NoRecord
  BY <1>4, SpRecAssumption DEF Slots, NoRecord
<1>6. QED
  BY <1>3, <1>4, <1>5

-----------------------------------------------------------------------------
(* Types.                                                                  *)

\* One thread goes on with what it should have, and the rest keeps its type.
LEMMA ThreadStep ==
  ASSUME TInv, NEW t \in Threads, th' = [u \in Threads |-> IF u = t THEN th'[t] ELSE th[u]],
         th'[t] \in ProperCalls,
         SPphones' \in [Slots -> Records], disk' \in Files,
         clock' = clock, system' = system, HistoryOK'
  PROVE  TInv'
<1>1. th' \in [Threads -> ProperCalls]
  BY DEF TInv
<1>2. \A u \in Threads :
        /\ th'[u].pc \in Points
        /\ th'[u].sptr \in Slots \union {Start}
        /\ th'[u].printed \in Seq(Records)
  BY <1>1 DEF ProperCalls, Calls
<1>3. clock' \in 0 .. MaxTime /\ system' \in {"up", "down", "dead"}
  BY DEF TInv, TypeOK
<1>4. QED
  BY <1>1, <1>2, <1>3 DEF TInv, TypeOK, Files, Points

LEMMA TypesOf ==
  ASSUME TInv
  PROVE  /\ SPphones \in [Slots -> Records]
         /\ disk \in Files
         /\ th \in [Threads -> ProperCalls]
         /\ clock \in 0 .. MaxTime
         /\ HistoryOK
BY DEF TInv, TypeOK, Files

\* The history has a value whatever step is taken.
LEMMA HistoryType == ASSUME TInv, [Next]_vars PROVE HistoryOK'
<1> DEFINE Unsaved == unsaved' = unsaved \/ unsaved' = TRUE \/ unsaved' = FALSE
           Mixed == \/ mixed' = mixed \/ MayMix \/ mixed' = FALSE
                    \/ \E t \in Threads :
                         mixed' = (mixed /\ \E u \in Threads \ {t} : th[u].pc = "print")
           Overlapped == overlapped' = overlapped \/ MayOverlap
<1>1. ASSUME Unsaved, Mixed, Overlapped PROVE HistoryOK'
  <2>1. HistoryOK
    BY TypesOf
  <2>2. mixed' \in BOOLEAN
    BY <1>1, <2>1 DEF HistoryOK, MayMix
  <2>3. overlapped' \in BOOLEAN
    BY <1>1, <2>1 DEF HistoryOK, MayOverlap
  <2>4. unsaved' \in BOOLEAN
    BY <1>1, <2>1 DEF HistoryOK
  <2>5. QED
    BY <2>2, <2>3, <2>4 DEF HistoryOK
<1>2. CASE UNCHANGED vars
  BY <1>1, <1>2 DEF vars
<1>3. CASE Tick \/ Stop \/ Boot \/ BootCrashes
  BY <1>1, <1>3 DEF Tick, Stop, Boot, BootCrashes
<1>4. ASSUME NEW ip \in IPs, NEW mac \in MACs, AddRecord(ip, mac) PROVE HistoryOK'
  <2>1. unsaved' = unsaved /\ mixed' = mixed /\ MayOverlap
    BY <1>4 DEF AddRecord
  <2>2. QED
    BY <1>1, <2>1
<1>5. ASSUME NEW ip \in IPs, RemoveIP(ip) PROVE HistoryOK'
  <2>1. unsaved' = unsaved /\ mixed' = mixed /\ MayOverlap
    BY <1>5 DEF RemoveIP
  <2>2. QED
    BY <1>1, <2>1
<1>6. CASE Adding \/ RemoveFound
  <2>1. unsaved' = unsaved /\ overlapped' = overlapped /\ (mixed' = mixed \/ MayMix)
    BY <1>6 DEF Adding, AddPurge, AddFind, AddUpdate, AddNew, AddFull, RemoveFound
  <2>2. QED
    BY <1>1, <2>1
<1>7. ASSUME NEW t \in StaleThreads, Checking(t) PROVE HistoryOK'
  <2>1. unsaved' = unsaved /\ Mixed /\ Overlapped
    BY <1>7 DEF Checking, CheckStale, StaleTest, StaleRemove, StaleEnd
  <2>2. QED
    BY <1>1, <2>1
<1>8. ASSUME NEW t \in Threads, Encoding(t) PROVE HistoryOK'
  <2>1. Unsaved /\ overlapped' = overlapped
    BY <1>8 DEF Encoding, EncodeOpen, EncodeOpenFails, EncodePrint, EncodeClose
  <2>2. Mixed
    BY <1>8 DEF Encoding, EncodeOpen, EncodeOpenFails, EncodePrint, EncodeClose
  <2>3. QED
    BY <1>1, <2>1, <2>2
<1> HIDE DEF Unsaved, Mixed, Overlapped
<1>9. QED
  BY <1>2, <1>3, <1>4, <1>5, <1>6, <1>7, <1>8 DEF Next

\* The fields of a call in progress.
LEMMA CallFields ==
  ASSUME TInv, NEW t \in Threads
  PROVE  /\ th[t] \in ProperCalls /\ th[t] \in Calls
         /\ th[t].sptr \in Slots \union {Start}
         /\ th[t].ip \in IPs \union {Garbage} /\ th[t].mac \in MACs \union {Garbage}
         /\ th[t].pc \in {"update", "remove", "unlist"} => th[t].sptr \in Slots
         /\ th[t].printed \in Seq(Records)
         /\ th[t].pc # "print" => th[t].printed = <<>>
         /\ th[t].pc = "print" => Len(th[t].printed) <= th[t].sptr + 1
BY DEF TInv, ProperCalls, Calls

LEMMA ProperWhen ==
  ASSUME NEW c \in Calls, c.pc # "print", c.printed = <<>>,
         c.pc \in {"update", "remove", "unlist"} => c.sptr \in Slots
  PROVE  c \in ProperCalls
BY DEF ProperCalls

LEMMA IdleCall == Idle \in Calls /\ Idle.pc = "idle" /\ Idle.printed = <<>>
BY SpRecAssumption DEF Idle, Calls, Points

\* Any step of a thread that leaves it in no save.
LEMMA CallStep ==
  ASSUME TInv, NEW t \in Threads, th' = [u \in Threads |-> IF u = t THEN th'[t] ELSE th[u]],
         th'[t] \in Calls, th'[t].pc # "print", th'[t].printed = <<>>,
         th'[t].pc \in {"update", "remove", "unlist"} => th'[t].sptr \in Slots,
         SPphones' \in [Slots -> Records], disk' \in Files,
         clock' = clock, system' = system, HistoryOK'
  PROVE  TInv'
BY ThreadStep, ProperWhen

LEMMA RecordFreed ==
  ASSUME TInv, NEW s \in Slots
  PROVE  [SPphones EXCEPT ![s].in_use = FREE] \in [Slots -> Records]
BY TypesOf DEF Records

LEMMA RecordMade ==
  ASSUME TInv, NEW s \in Slots, NEW t \in Threads
  PROVE  /\ [SPphones EXCEPT ![s] = Record(USED, th[t].mac, th[t].ip, clock)]
               \in [Slots -> Records]
         /\ [SPphones EXCEPT ![s].last_seen = clock] \in [Slots -> Records]
BY TypesOf, CallFields DEF Records, Record

LEMMA AddTInv ==
  ASSUME TInv, HistoryOK',
         Adding \/ RemoveFound \/ \E ip \in IPs, mac \in MACs : AddRecord(ip, mac)
  PROVE  TInv'
<1> USE DEF Points
<1>1. Server \in Threads
  BY DEF Threads
<1>2. ASSUME NEW ip \in IPs, NEW mac \in MACs, AddRecord(ip, mac) PROVE TInv'
  <2> DEFINE c == [Idle EXCEPT !.pc = "purge", !.ip = ip, !.mac = mac]
  <2>1. c \in Calls /\ c.pc = "purge" /\ c.printed = <<>>
    BY IdleCall DEF Calls
  <2>2. th' = [u \in Threads |-> IF u = Server THEN th'[Server] ELSE th[u]] /\ th'[Server] = c
    BY <1>1, <1>2, TypesOf DEF AddRecord
  <2>3. QED
    BY <1>1, <1>2, <2>1, <2>2, CallStep, TypesOf DEF AddRecord
<1>3. CASE AddPurge
  <2> DEFINE s == GetNextRecord(th[Server].sptr)
  <2>1. s \in Slots
    BY <1>1, <1>3, CallFields, NextRecord DEF AddPurge
  <2>2. SPphones' \in [Slots -> Records]
    BY <1>3, <2>1, RecordFreed, TypesOf DEF AddPurge
  <2>3. /\ th' = [u \in Threads |-> IF u = Server THEN th'[Server] ELSE th[u]]
        /\ th'[Server] \in Calls /\ th'[Server].pc = "purge" /\ th'[Server].printed = <<>>
    <3> HIDE DEF s
    <3> QED
      BY <1>1, <1>3, <2>1, CallFields, TypesOf DEF AddPurge, At, Calls, s
  <2>4. QED
    BY <1>1, <1>3, <2>2, <2>3, CallStep, TypesOf DEF AddPurge
<1>4. CASE AddFind
  <2> DEFINE same == {s \in Slots : Used(s) /\ SPphones[s].ip_addr = th[Server].ip}
             found == IF same # {} THEN Min(same) ELSE Start
  <2>1. same # {} => Min(same) \in Slots
    BY MinOf, SpRecAssumption DEF Slots
  <2>2. /\ th' = [u \in Threads |-> IF u = Server THEN th'[Server] ELSE th[u]]
        /\ th'[Server] \in Calls /\ th'[Server].pc \in {"update", "add"}
        /\ th'[Server].printed = <<>>
        /\ th'[Server].pc = "update" => th'[Server].sptr \in Slots
    <3> HIDE DEF same
    <3> QED
      BY <1>1, <1>4, <2>1, CallFields, TypesOf DEF AddFind, At, Calls, same
  <2>3. QED
    BY <1>1, <1>4, <2>2, CallStep, TypesOf DEF AddFind
<1>5. CASE AddUpdate
  <2>1. SPphones' \in [Slots -> Records]
    BY <1>1, <1>5, RecordMade, CallFields, TypesOf DEF AddUpdate, At
  <2>2. /\ th' = [u \in Threads |-> IF u = Server THEN th'[Server] ELSE th[u]]
        /\ th'[Server] \in Calls /\ th'[Server].pc = "open" /\ th'[Server].printed = <<>>
    BY <1>1, <1>5, CallFields, TypesOf DEF AddUpdate, Goes, At, Calls
  <2>3. QED
    BY <1>1, <1>5, <2>1, <2>2, CallStep, TypesOf DEF AddUpdate
<1>6. CASE AddNew
  <2>1. Min(Vacant) \in Slots
    BY <1>6, MinOf, SpRecAssumption DEF AddNew, Full, Vacant, Slots
  <2>2. SPphones' \in [Slots -> Records]
    BY <1>1, <1>6, <2>1, RecordMade DEF AddNew
  <2>3. /\ th' = [u \in Threads |-> IF u = Server THEN th'[Server] ELSE th[u]]
        /\ th'[Server] \in Calls /\ th'[Server].pc = "open" /\ th'[Server].printed = <<>>
    BY <1>1, <1>6, CallFields, TypesOf DEF AddNew, Goes, At, Calls
  <2>4. QED
    BY <1>1, <1>6, <2>2, <2>3, CallStep, TypesOf DEF AddNew
<1>7. CASE AddFull
  <2>1. SPphones' \in [Slots -> Records]
    BY <1>1, <1>7, CallFields, TypesOf DEF AddFull, At
  <2>2. /\ th' = [u \in Threads |-> IF u = Server THEN th'[Server] ELSE th[u]]
        /\ th'[Server] \in Calls /\ th'[Server].pc = "idle" /\ th'[Server].printed = <<>>
    BY <1>1, <1>7, CallFields, TypesOf, IdleCall DEF AddFull, Goes, At, Calls
  <2>3. QED
    BY <1>1, <1>7, <2>1, <2>2, CallStep, TypesOf DEF AddFull
<1>8. CASE RemoveFound
  <2>1. SPphones' \in [Slots -> Records]
    BY <1>1, <1>8, RecordFreed, CallFields, TypesOf DEF RemoveFound, At
  <2>2. /\ th' = [u \in Threads |-> IF u = Server THEN th'[Server] ELSE th[u]]
        /\ th'[Server] \in Calls /\ th'[Server].pc = "open" /\ th'[Server].printed = <<>>
    BY <1>1, <1>8, CallFields, TypesOf DEF RemoveFound, Goes, At, Calls
  <2>3. QED
    BY <1>1, <1>8, <2>1, <2>2, CallStep, TypesOf DEF RemoveFound
<1>9. QED
  BY <1>2, <1>3, <1>4, <1>5, <1>6, <1>7, <1>8 DEF Adding

LEMMA RemoveTInv == ASSUME TInv, HistoryOK', NEW ip \in IPs, RemoveIP(ip) PROVE TInv'
<1> DEFINE same == {s \in Slots : Used(s) /\ SPphones[s].ip_addr = ip}
           c == [Idle EXCEPT !.pc = "unlist", !.sptr = Min(same)]
<1>1. Server \in Threads
  BY DEF Threads
<1>2. Min(same) \in Slots
  BY MinOf, SpRecAssumption DEF RemoveIP, Slots
<1>3. c \in Calls /\ c.pc = "unlist" /\ c.sptr \in Slots /\ c.printed = <<>>
  <2> HIDE DEF same
  <2> QED
    BY <1>2, IdleCall DEF Calls, Points
<1>4. th' = [u \in Threads |-> IF u = Server THEN th'[Server] ELSE th[u]] /\ th'[Server] = c
  BY <1>1, TypesOf DEF RemoveIP
<1>5. QED
  BY <1>1, <1>3, <1>4, CallStep, TypesOf DEF RemoveIP

LEMMA CheckTInv == ASSUME TInv, HistoryOK', NEW t \in StaleThreads, Checking(t) PROVE TInv'
<1> USE DEF Points
<1>1. t \in Threads
  BY DEF Threads
<1>2. CASE CheckStale(t)
  <2> DEFINE c == [Idle EXCEPT !.pc = "test", !.curtime = clock]
  <2>1. c \in Calls /\ c.pc = "test" /\ c.printed = <<>>
    BY IdleCall, TypesOf DEF Calls
  <2>2. th' = [u \in Threads |-> IF u = t THEN th'[t] ELSE th[u]] /\ th'[t] = c
    BY <1>1, <1>2, TypesOf DEF CheckStale
  <2>3. QED
    BY <1>1, <1>2, <2>1, <2>2, CallStep, TypesOf DEF CheckStale
<1>3. CASE StaleTest(t)
  <2> DEFINE s == GetNextRecord(th[t].sptr)
  <2>1. s \in Slots
    BY <1>1, <1>3, CallFields, NextRecord DEF StaleTest
  <2>2. /\ th' = [u \in Threads |-> IF u = t THEN th'[t] ELSE th[u]]
        /\ th'[t] \in Calls /\ th'[t].pc \in {"test", "remove"} /\ th'[t].printed = <<>>
        /\ th'[t].sptr \in Slots
    <3> HIDE DEF s
    <3> QED
      BY <1>1, <1>3, <2>1, CallFields, TypesOf DEF StaleTest, At, Calls, s
  <2>3. QED
    BY <1>1, <1>3, <2>2, CallStep, TypesOf DEF StaleTest
<1>4. CASE StaleRemove(t)
  <2>1. SPphones' \in [Slots -> Records]
    BY <1>1, <1>4, CallFields, RecordFreed DEF StaleRemove, At
  <2>2. /\ th' = [u \in Threads |-> IF u = t THEN th'[t] ELSE th[u]]
        /\ th'[t] \in Calls /\ th'[t].pc = "test" /\ th'[t].printed = <<>>
    BY <1>1, <1>4, CallFields, TypesOf DEF StaleRemove, At, Calls
  <2>3. QED
    BY <1>1, <1>4, <2>1, <2>2, CallStep, TypesOf DEF StaleRemove
<1>5. CASE StaleEnd(t)
  <2> DEFINE c == [Idle EXCEPT !.pc = "open"]
  <2>1. c \in Calls /\ c.pc = "open" /\ c.printed = <<>>
    BY IdleCall DEF Calls
  <2>2. /\ th' = [u \in Threads |-> IF u = t THEN th'[t] ELSE th[u]]
        /\ th'[t] \in {Idle, c}
    BY <1>1, <1>5, TypesOf DEF StaleEnd
  <2>3. QED
    BY <1>1, <1>5, <2>1, <2>2, IdleCall, CallStep, TypesOf DEF StaleEnd
<1>6. QED
  BY <1>2, <1>3, <1>4, <1>5 DEF Checking

LEMMA EncodeTInv == ASSUME TInv, HistoryOK', NEW t \in Threads, Encoding(t) PROVE TInv'
<1> USE DEF Points
<1>1. CASE EncodeOpen(t)
  <2>1. EmptyFile \in Files
    BY SpRecAssumption DEF EmptyFile, Files
  <2>2. /\ th' = [u \in Threads |-> IF u = t THEN th'[t] ELSE th[u]]
        /\ th'[t] \in Calls /\ th'[t].pc = "print" /\ th'[t].sptr = Start
        /\ th'[t].printed = <<>>
    BY <1>1, CallFields, TypesOf DEF EncodeOpen, At, Calls
  <2>3. Len(th'[t].printed) = 0 /\ Start + 1 = 0
    BY <2>2 DEF Start
  <2>4. th'[t] \in ProperCalls
    BY <2>2, <2>3 DEF ProperCalls
  <2>5. QED
    BY <1>1, <2>1, <2>2, <2>4, ThreadStep, TypesOf DEF EncodeOpen
<1>2. CASE EncodeOpenFails(t)
  <2>1. th' = [u \in Threads |-> IF u = t THEN th'[t] ELSE th[u]] /\ th'[t] = Idle
    BY <1>2, TypesOf DEF EncodeOpenFails
  <2>2. QED
    BY <1>2, <2>1, IdleCall, CallStep, TypesOf DEF EncodeOpenFails
<1>3. CASE EncodePrint(t)
  <2> DEFINE s == GetNextRecord(th[t].sptr)
  <2>1. s \in Slots /\ s > th[t].sptr
    BY <1>3, CallFields, NextRecord DEF EncodePrint
  <2>2. /\ Append(th[t].printed, SPphones[s]) \in Seq(Records)
        /\ Len(Append(th[t].printed, SPphones[s])) = Len(th[t].printed) + 1
        /\ Len(th[t].printed) \in Nat
    BY <2>1, CallFields, TypesOf
  <2>3. Len(th[t].printed) + 1 <= s + 1
    <3>1. Len(th[t].printed) <= th[t].sptr + 1
      BY <1>3, CallFields DEF EncodePrint, At
    <3>2. th[t].sptr \in Int /\ s \in Int
      BY <2>1, CallFields, SpRecAssumption DEF Slots, Start
    <3> HIDE DEF s
    <3>3. QED
      BY <2>1, <2>2, <3>1, <3>2
  <2>4. /\ th' = [u \in Threads |-> IF u = t THEN th'[t] ELSE th[u]]
        /\ th'[t] \in Calls /\ th'[t].pc = "print" /\ th'[t].sptr = s
        /\ th'[t].printed = Append(th[t].printed, SPphones[s])
    <3> DEFINE printed == Append(th[t].printed, SPphones[s])
               comma == GetNextRecord(s) # NoRecord
               wellFormed == th[t].wellFormed /\ (th[t].printed = <<>> \/ th[t].comma)
               c == [th[t] EXCEPT !.sptr = s, !.printed = printed,
                                  !.comma = comma, !.wellFormed = wellFormed]
    <3>1. th[t].pc = "print" /\ th[t] \in Calls
      BY <1>3, CallFields DEF EncodePrint, At
    <3>2. comma \in BOOLEAN /\ wellFormed \in BOOLEAN
      OBVIOUS
    <3>3. th' = [u \in Threads |-> IF u = t THEN c ELSE th[u]]
      <4>1. th' = [th EXCEPT ![t] = c]
        BY <1>3, TypesOf DEF EncodePrint
      <4> HIDE DEF c
      <4>2. QED
        BY <4>1, TypesOf
    <3>4. printed \in Seq(Records) /\ s \in Slots
      BY <2>1, <2>2
    <3>5. c \in Calls /\ c.pc = "print" /\ c.sptr = s /\ c.printed = printed
      <4> HIDE DEF s, printed, comma, wellFormed
      <4>1. QED
        BY <3>1, <3>2, <3>4 DEF Calls
    <3> HIDE DEF c
    <3>6. QED
      BY <3>3, <3>5
  <2>5. th'[t] \in ProperCalls
    <3> HIDE DEF s
    <3> QED
      BY <2>2, <2>3, <2>4 DEF ProperCalls
  <2>6. QED
    BY <1>3, <2>4, <2>5, ThreadStep, TypesOf DEF EncodePrint
<1>4. CASE EncodeClose(t)
  <2>1. Len(th[t].printed) <= max_SPphones
    BY <1>4, CallFields, SpRecAssumption DEF EncodeClose, At, Slots, Start
  <2>2. disk' \in Files
    BY <1>4, <2>1, CallFields DEF EncodeClose, File, Files
  <2>3. th' = [u \in Threads |-> IF u = t THEN th'[t] ELSE th[u]] /\ th'[t] = Idle
    BY <1>4, TypesOf DEF EncodeClose
  <2>4. QED
    BY <1>4, <2>2, <2>3, IdleCall, CallStep, TypesOf DEF EncodeClose
<1>5. QED
  BY <1>1, <1>2, <1>3, <1>4 DEF Encoding

\* A table as spRec_Init makes it.
LEMMA BootedRecords ==
  ASSUME NEW heap \in [Slots -> HeapValues], NEW phones \in Seq(Records)
  PROVE  Booted(heap, phones) \in [Slots -> Records]
<1>1. ASSUME NEW s \in Slots PROVE Record(heap[s], Garbage, Garbage, 0) \in Records
  BY SpRecAssumption DEF Record, Records
<1>2. ASSUME NEW s \in Slots, s < Len(phones) PROVE phones[s + 1] \in Records
  BY <1>2, SpRecAssumption DEF Slots
<1>3. QED
  BY <1>1, <1>2 DEF Booted

LEMMA AllIdle == [t \in Threads |-> Idle] \in [Threads -> ProperCalls]
BY IdleCall, ProperWhen

LEMMA OtherTInv == ASSUME TInv, HistoryOK', Tick \/ Stop \/ Boot \/ BootCrashes PROVE TInv'
<1>1. CASE Tick
  BY <1>1, SpRecAssumption DEF Tick, TInv, TypeOK
<1>2. CASE Stop
  <2>1. th' \in [Threads -> ProperCalls] /\ \A t \in Threads : th'[t] = Idle
    BY <1>2, AllIdle DEF Stop
  <2>2. QED
    BY <1>2, <2>1, IdleCall DEF Stop, TInv, TypeOK, Calls
<1>3. CASE Boot
  <2>1. SPphones' \in [Slots -> Records]
    BY <1>3, BootedRecords DEF Boot, TInv, TypeOK
  <2>2. QED
    BY <1>3, <2>1 DEF Boot, TInv, TypeOK
<1>4. CASE BootCrashes
  BY <1>4 DEF BootCrashes, TInv, TypeOK
<1>5. QED
  BY <1>1, <1>2, <1>3, <1>4

LEMMA InitTInv == Init => TInv
<1> SUFFICES ASSUME Init PROVE TInv
  OBVIOUS
<1>1. SPphones \in [Slots -> Records]
  <2>1. PICK heap \in [Slots -> HeapValues] : SPphones = Booted(heap, <<>>)
    BY DEF Init
  <2>2. <<>> \in Seq(Records)
    OBVIOUS
  <2>3. Booted(heap, <<>>) \in [Slots -> Records]
    BY <2>2, BootedRecords
  <2>4. QED
    BY <2>1, <2>3
<1>2. disk \in Files
  BY SpRecAssumption DEF Init, NoFile, Files
<1>3. th \in [Threads -> ProperCalls] /\ \A t \in Threads : th[t] = Idle
  BY AllIdle DEF Init
<1>4. clock \in 0 .. MaxTime /\ system = "up"
  BY SpRecAssumption DEF Init
<1>5. HistoryOK
  BY DEF Init, HistoryOK
<1>6. QED
  BY <1>1, <1>2, <1>3, <1>4, <1>5, IdleCall DEF TInv, TypeOK, Files, Calls

LEMMA NextTInv == TInv /\ [Next]_vars => TInv'
<1> SUFFICES ASSUME TInv, [Next]_vars PROVE TInv'
  OBVIOUS
<1>1. CASE UNCHANGED vars
  BY <1>1 DEF vars, TInv, TypeOK, HistoryOK
<1>2. CASE Next
  BY <1>2, HistoryType, AddTInv, RemoveTInv, CheckTInv, EncodeTInv, OtherTInv DEF Next
<1>3. QED
  BY <1>1, <1>2

LEMMA TypesInductive == Spec => []TInv
BY InitTInv, NextTInv, PTL DEF Spec

\* The table, the file and the calls keep their shape, with any overlap of
\* calls, stops and restarts; in particular a file never has more records than
\* the table it will be read into.
THEOREM TypeCorrect == Spec => []TypeOK
<1>1. TInv => TypeOK
  BY DEF TInv
<1>2. QED
  BY TypesInductive, <1>1, PTL

-----------------------------------------------------------------------------
(* One record for an address, in a table of a heap with no record marked    *)
(* used.  A start that reads the file is left out: the file may hold        *)
(* records of two moments.                                                  *)

NoRestart == CrashPoints = "never" /\ USED \notin HeapValues

SameMAC(r) == SPphones[r].mac = th[Server].mac
SameIP(r) == SPphones[r].ip_addr = th[Server].ip

\* The records a registration has passed have both of its addresses or none.
PassedAgree ==
  th[Server].pc = "purge" =>
    \A r \in Slots : Used(r) /\ r <= th[Server].sptr => (SameMAC(r) <=> SameIP(r))

\* A record is added when none has either of its addresses.
AddedIsNew ==
  th[Server].pc = "add" => \A r \in Slots : Used(r) => ~SameMAC(r) /\ ~SameIP(r)

Identity ==
  /\ TInv
  /\ system = "up"
  /\ EndLast
  /\ UniqueIdentity
  /\ PassedAgree
  /\ AddedIsNew

\* A step that at most frees records.
Frees ==
  \A r \in Slots :
    /\ SPphones'[r].in_use = USED =>
         /\ Used(r)
         /\ SPphones'[r].mac = SPphones[r].mac
         /\ SPphones'[r].ip_addr = SPphones[r].ip_addr
    /\ SPphones'[r].in_use = END => SPphones[r].in_use = END

\* The registration in progress, if any, is where it was, or has left its walk.
ServerStays ==
  \/ th'[Server].pc \notin {"purge", "add"}
  \/ /\ th'[Server].pc = th[Server].pc /\ th'[Server].sptr = th[Server].sptr
     /\ th'[Server].mac = th[Server].mac /\ th'[Server].ip = th[Server].ip

LEMMA FreesEndLast == ASSUME EndLast, Frees PROVE EndLast'
BY DEF Frees, EndLast, Used

LEMMA FreesTable ==
  ASSUME Identity, Frees PROVE EndLast' /\ UniqueIdentity'
<1>1. EndLast'
  BY FreesEndLast DEF Identity
<1>2. UniqueIdentity'
  BY DEF Identity, Frees, UniqueIdentity, Used
<1>3. QED
  BY <1>1, <1>2

\* Whoever frees a record, what the registration knows stays true.
LEMMA FreesIdentity ==
  ASSUME Identity, TInv', system' = "up", Frees, ServerStays PROVE Identity'
<1>1. PassedAgree'
  BY DEF Identity, Frees, ServerStays, PassedAgree, SameMAC, SameIP, Used
<1>2. AddedIsNew'
  BY DEF Identity, Frees, ServerStays, AddedIsNew, SameMAC, SameIP, Used
<1>3. QED
  BY <1>1, <1>2, FreesTable DEF Identity

LEMMA FreeOne ==
  ASSUME TInv, NEW s \in Slots, SPphones' = [SPphones EXCEPT ![s].in_use = FREE] PROVE Frees
BY TypesOf DEF Frees, Used, Records, FREE, USED, END

LEMMA FreeNone == ASSUME SPphones' = SPphones PROVE Frees
BY DEF Frees, Used

\* Another thread's call leaves the registration where it is.
LEMMA OtherStays ==
  ASSUME NEW t \in Threads, t # Server, th' = [u \in Threads |-> IF u = t THEN th'[t] ELSE th[u]]
  PROVE  ServerStays
BY DEF ServerStays, Threads

LEMMA PurgeIdentity == ASSUME Identity, TInv', AddPurge PROVE Identity'
<1> DEFINE s == GetNextRecord(th[Server].sptr)
<1>1. Server \in Threads /\ TInv /\ th[Server].sptr \in Slots \union {Start}
  BY CallFields DEF Identity, Threads
<1>2. s \in Slots /\ s > th[Server].sptr /\ Used(s) /\ th[Server].pc = "purge"
  BY <1>1, NextRecord DEF AddPurge, At
<1>3. ASSUME NEW r \in Slots, Used(r), r <= s PROVE r <= th[Server].sptr \/ r = s
  <2>1. r > th[Server].sptr => s <= r
    BY <1>1, <1>3, NextRecordFirst DEF Identity
  <2>2. r \in Int /\ s \in Int /\ th[Server].sptr \in Int
    BY <1>1, <1>2, SpRecAssumption DEF Slots, Start
  <2> HIDE DEF s
  <2>3. QED
    BY <1>3, <2>1, <2>2
<1>4. SPphones' = IF SameMAC(s) # SameIP(s) THEN [SPphones EXCEPT ![s].in_use = FREE]
                  ELSE SPphones
  BY DEF AddPurge, SameMAC, SameIP
<1>5. Frees
  BY <1>1, <1>2, <1>4, FreeOne, FreeNone
<1>6. /\ th'[Server].pc = "purge" /\ th'[Server].sptr = s
      /\ th'[Server].mac = th[Server].mac /\ th'[Server].ip = th[Server].ip
  <2>1. th' = [th EXCEPT ![Server].sptr = s] /\ th[Server] \in Calls
    BY <1>1, CallFields DEF AddPurge
  <2> HIDE DEF s
  <2>2. QED
    BY <1>1, <1>2, <2>1, TypesOf DEF Calls
<1>7. ASSUME NEW r \in Slots, SPphones'[r].in_use = USED, r <= s
      PROVE  SPphones'[r].mac = th[Server].mac <=> SPphones'[r].ip_addr = th[Server].ip
  <2> HIDE DEF s
  <2>1. /\ Used(r) /\ SPphones'[r].mac = SPphones[r].mac
        /\ SPphones'[r].ip_addr = SPphones[r].ip_addr
    BY <1>5, <1>7 DEF Frees
  <2>2. CASE r = s
    <3>1. CASE SameMAC(s) # SameIP(s)
      <4>1. SPphones'[s].in_use = FREE
        BY <1>1, <1>2, <1>4, <3>1, TypesOf DEF Records
      <4>2. QED
        BY <1>7, <2>2, <4>1 DEF FREE, USED
    <3>2. CASE SameMAC(s) = SameIP(s)
      BY <2>1, <2>2, <3>2 DEF SameMAC, SameIP
    <3>3. QED
      BY <3>1, <3>2
  <2>3. CASE r <= th[Server].sptr
    BY <1>2, <2>1, <2>3 DEF Identity, PassedAgree, SameMAC, SameIP
  <2>4. QED
    BY <1>3, <1>7, <2>1, <2>2, <2>3
<1>8. PassedAgree' /\ AddedIsNew'
  <2> HIDE DEF s
  <2>1. QED
    BY <1>6, <1>7 DEF PassedAgree, AddedIsNew, SameMAC, SameIP, Used
<1>9. QED
  BY <1>5, <1>8, FreesTable DEF Identity, AddPurge

\* When the walk has passed the last record, every used record is behind it.
LEMMA FindIdentity == ASSUME Identity, TInv', AddFind PROVE Identity'
<1> DEFINE same == {s \in Slots : Used(s) /\ SPphones[s].ip_addr = th[Server].ip}
<1>1. Server \in Threads /\ TInv /\ th[Server].sptr \in Slots \union {Start}
  BY CallFields DEF Identity, Threads
<1>2. ASSUME NEW r \in Slots, Used(r) PROVE SameMAC(r) <=> SameIP(r)
  <2>1. ~ (r > th[Server].sptr)
    BY <1>1, <1>2, NextRecordFirst DEF Identity, AddFind
  <2>2. r <= th[Server].sptr
    BY <1>1, <2>1, SpRecAssumption DEF Slots, Start
  <2>3. QED
    BY <1>2, <2>2 DEF Identity, PassedAgree, AddFind, At
<1>3. /\ th'[Server].pc = IF same # {} THEN "update" ELSE "add"
      /\ th'[Server].mac = th[Server].mac /\ th'[Server].ip = th[Server].ip
  <2>1. th[Server] \in Calls
    BY <1>1, CallFields
  <2> DEFINE sptr == IF same # {} THEN Min(same) ELSE Start
             pc == IF same # {} THEN "update" ELSE "add"
  <2>2. th' = [th EXCEPT ![Server].pc = pc, ![Server].sptr = sptr]
    BY DEF AddFind
  <2> HIDE DEF sptr, pc
  <2>3. th'[Server].pc = pc /\ th'[Server].mac = th[Server].mac /\ th'[Server].ip = th[Server].ip
    BY <1>1, <2>1, <2>2, TypesOf DEF Calls
  <2>4. QED
    BY <2>3 DEF pc
<1>4. th'[Server].pc = "add" => \A r \in Slots : Used(r) => ~SameMAC(r) /\ ~SameIP(r)
  BY <1>2, <1>3 DEF SameIP
<1>5. SPphones' = SPphones
  BY DEF AddFind
<1>6. PassedAgree' /\ AddedIsNew'
  <2> HIDE DEF same
  <2>1. th'[Server].pc # "purge"
    BY <1>3
  <2>2. QED
    BY <1>3, <1>4, <1>5, <2>1 DEF PassedAgree, AddedIsNew, SameMAC, SameIP, Used
<1>7. QED
  BY <1>5, <1>6, FreeNone, FreesTable DEF Identity, AddFind

\* A new record comes before the end of the array.
LEMMA AddEndLast ==
  ASSUME TInv, EndLast, AddNew
  PROVE  /\ EndLast'
         /\ Min(Vacant) \in Slots
         /\ SPphones'[Min(Vacant)] = Record(USED, th[Server].mac, th[Server].ip, clock)
         /\ \A r \in Slots : r # Min(Vacant) => SPphones'[r] = SPphones[r]
<1> DEFINE m == Min(Vacant)
           new == Record(USED, th[Server].mac, th[Server].ip, clock)
<1>1. Server \in Threads
  BY DEF Threads
<1>2. Vacant # {} /\ Vacant \in SUBSET Nat /\ Vacant \subseteq Slots
  BY SpRecAssumption DEF AddNew, Full, Vacant, Slots
<1>3. m \in Slots /\ \A k \in Vacant : m <= k
  BY <1>2, MinOf
<1>4. ASSUME NEW k \in Slots, k < m PROVE SPphones[k].in_use # END
  <2>1. k \notin Vacant
    BY <1>3, <1>4, SpRecAssumption DEF Slots
  <2>2. QED
    BY <2>1 DEF Vacant
<1>5. SPphones' = [SPphones EXCEPT ![m] = new]
  BY DEF AddNew
<1>6. /\ new.in_use = USED /\ new.mac = th[Server].mac /\ new.ip_addr = th[Server].ip
  BY DEF Record
<1> HIDE DEF m, new
<1>7. /\ SPphones'[m] = new
      /\ \A r \in Slots : r # m => SPphones'[r] = SPphones[r]
  BY <1>1, <1>3, <1>5, TypesOf
<1>8. EndLast'
  <2>1. ASSUME NEW k \in Slots, NEW r \in Slots, k < r, SPphones'[r].in_use = USED
        PROVE  SPphones'[k].in_use # END
    <3>1. CASE k = m
      BY <1>6, <1>7, <3>1 DEF USED, END
    <3>2. CASE k # m /\ r = m
      BY <1>4, <1>7, <2>1, <3>2
    <3>3. CASE k # m /\ r # m
      BY <1>7, <2>1, <3>3 DEF EndLast, Used
    <3>4. QED
      BY <3>1, <3>2, <3>3
  <2>2. QED
    BY <2>1 DEF EndLast, Used
<1>9. QED
  BY <1>3, <1>7, <1>8 DEF m, new

LEMMA AddIdentity == ASSUME Identity, TInv', AddNew PROVE Identity'
<1> DEFINE m == Min(Vacant)
           new == Record(USED, th[Server].mac, th[Server].ip, clock)
<1>1. Server \in Threads /\ TInv /\ EndLast
  BY DEF Identity, Threads
<1>2. /\ new.in_use = USED /\ new.mac = th[Server].mac /\ new.ip_addr = th[Server].ip
  BY DEF Record
<1>3. /\ EndLast' /\ SPphones'[m] = new /\ m \in Slots
      /\ \A r \in Slots : r # m => SPphones'[r] = SPphones[r]
  BY <1>1, AddEndLast
<1> HIDE DEF m, new
<1>4. \A r \in Slots : Used(r) => ~SameMAC(r) /\ ~SameIP(r)
  BY DEF Identity, AddedIsNew, AddNew, At
<1>5. UniqueIdentity'
  <2>1. ASSUME NEW r \in Slots, NEW s \in Slots, SPphones'[r].in_use = USED,
               SPphones'[s].in_use = USED, r # s
        PROVE  SPphones'[r].mac # SPphones'[s].mac /\ SPphones'[r].ip_addr # SPphones'[s].ip_addr
    <3>1. CASE r # m /\ s # m
      BY <1>3, <2>1, <3>1 DEF Identity, UniqueIdentity, Used
    <3>2. CASE r = m /\ s # m
      BY <1>2, <1>3, <1>4, <2>1, <3>2 DEF SameMAC, SameIP, Used
    <3>3. CASE r # m /\ s = m
      BY <1>2, <1>3, <1>4, <2>1, <3>3 DEF SameMAC, SameIP, Used
    <3>4. QED
      BY <2>1, <3>1, <3>2, <3>3
  <2>2. QED
    BY <2>1 DEF UniqueIdentity, Used
<1>6. th'[Server].pc = "open"
  BY <1>1, CallFields, TypesOf DEF AddNew, Goes, Calls
<1>7. PassedAgree' /\ AddedIsNew'
  BY <1>6 DEF PassedAgree, AddedIsNew
<1>8. QED
  BY <1>3, <1>5, <1>7 DEF Identity, AddNew

\* The steps of a registration.
LEMMA ServerIdentity ==
  ASSUME Identity, TInv',
         \/ \E ip \in IPs, mac \in MACs : AddRecord(ip, mac)
         \/ \E ip \in IPs : RemoveIP(ip)
         \/ Adding \/ RemoveFound
  PROVE  Identity'
<1>1. Server \in Threads /\ TInv
  BY DEF Identity, Threads
<1>2. ASSUME NEW ip \in IPs, NEW mac \in MACs, AddRecord(ip, mac) PROVE Identity'
  <2> DEFINE c == [Idle EXCEPT !.pc = "purge", !.ip = ip, !.mac = mac]
  <2>1. th'[Server] = c /\ c.pc = "purge" /\ c.sptr = Start
    BY <1>1, <1>2, TypesOf DEF AddRecord, Idle
  <2>2. \A r \in Slots : ~ (r <= Start)
    BY SpRecAssumption DEF Slots, Start
  <2>3. PassedAgree' /\ AddedIsNew'
    BY <2>1, <2>2 DEF PassedAgree, AddedIsNew
  <2>4. SPphones' = SPphones /\ system' = "up"
    BY <1>2 DEF AddRecord, Identity
  <2>5. QED
    BY <2>3, <2>4, FreeNone, FreesTable DEF Identity
<1>3. ASSUME NEW ip \in IPs, RemoveIP(ip) PROVE Identity'
  <2>1. th'[Server].pc = "unlist"
    BY <1>1, <1>3, TypesOf DEF RemoveIP, Idle
  <2>2. QED
    BY <1>3, <2>1, FreeNone, FreesIdentity DEF RemoveIP, Identity, ServerStays
<1>4. CASE AddUpdate
  <2>1. th[Server].sptr \in Slots
    BY <1>1, <1>4, CallFields DEF AddUpdate, At
  <2>2. Frees
    BY <1>1, <1>4, <2>1, TypesOf DEF AddUpdate, Frees, Used, Records
  <2>3. th'[Server].pc = "open"
    BY <1>1, <1>4, CallFields, TypesOf DEF AddUpdate, Goes, Calls
  <2>4. QED
    BY <1>4, <2>2, <2>3, FreesIdentity DEF AddUpdate, Identity, ServerStays
<1>5. CASE AddFull
  <2>1. th'[Server].pc = "idle"
    BY <1>1, <1>5, TypesOf, IdleCall DEF AddFull
  <2>2. QED
    BY <1>5, <2>1, FreeNone, FreesIdentity DEF AddFull, Identity, ServerStays
<1>6. CASE RemoveFound
  <2>1. th[Server].sptr \in Slots
    BY <1>1, <1>6, CallFields DEF RemoveFound, At
  <2>2. th'[Server].pc = "open"
    BY <1>1, <1>6, CallFields, TypesOf DEF RemoveFound, Goes, Calls
  <2>3. Frees
    BY <1>1, <1>6, <2>1, FreeOne DEF RemoveFound
  <2>4. QED
    BY <1>6, <2>2, <2>3, FreesIdentity DEF RemoveFound, Identity, ServerStays
<1>7. QED
  BY <1>2, <1>3, <1>4, <1>5, <1>6, PurgeIdentity, FindIdentity, AddIdentity DEF Adding

\* A thread that removes stale records frees the record it tested, whatever
\* that has become in the meantime.
LEMMA CheckIdentity ==
  ASSUME Identity, TInv', NEW t \in StaleThreads, Checking(t) PROVE Identity'
<1>1. t \in Threads /\ t # Server /\ TInv
  BY SpRecAssumption DEF Identity, Threads
<1>2. th' = [u \in Threads |-> IF u = t THEN th'[t] ELSE th[u]]
  BY <1>1, TypesOf DEF Checking, CheckStale, StaleTest, StaleRemove, StaleEnd
<1>3. Frees
  <2>1. CASE StaleRemove(t)
    BY <1>1, <2>1, FreeOne, CallFields DEF StaleRemove, At
  <2>2. CASE SPphones' = SPphones
    BY <2>2, FreeNone
  <2>3. QED
    BY <2>1, <2>2 DEF Checking, CheckStale, StaleTest, StaleEnd
<1>4. system' = "up"
  BY DEF Checking, CheckStale, StaleTest, StaleRemove, StaleEnd, Identity
<1>5. QED
  BY <1>1, <1>2, <1>3, <1>4, OtherStays, FreesIdentity

LEMMA EncodeIdentity ==
  ASSUME Identity, TInv', NEW t \in Threads, Encoding(t) PROVE Identity'
<1>1. TInv
  BY DEF Identity
<1>2. th' = [u \in Threads |-> IF u = t THEN th'[t] ELSE th[u]]
  BY <1>1, TypesOf DEF Encoding, EncodeOpen, EncodeOpenFails, EncodePrint, EncodeClose
<1>3. SPphones' = SPphones /\ system' = "up"
  BY DEF Encoding, EncodeOpen, EncodeOpenFails, EncodePrint, EncodeClose, Identity
<1>4. th'[t].pc \notin {"purge", "add"}
  BY <1>1, CallFields, TypesOf, IdleCall
  DEF Encoding, EncodeOpen, EncodeOpenFails, EncodePrint, EncodeClose, At, Calls
<1>5. ServerStays
  BY <1>2, <1>4, OtherStays DEF ServerStays
<1>6. QED
  BY <1>3, <1>5, FreeNone, FreesIdentity

LEMMA InitIdentity == ASSUME NoRestart, Init PROVE Identity
<1>1. TInv
  BY InitTInv
<1>2. \A s \in Slots : ~Used(s)
  <2>1. PICK heap \in [Slots -> HeapValues] : SPphones = Booted(heap, <<>>)
    BY DEF Init
  <2>2. ASSUME NEW s \in Slots PROVE SPphones[s].in_use = heap[s]
    <3>1. ~ (s < Len(<<>>))
      BY SpRecAssumption DEF Slots
    <3>2. QED
      BY <2>1, <3>1 DEF Booted, Record
  <2>3. QED
    BY <2>2 DEF NoRestart, Used
<1>3. Server \in Threads /\ th[Server].pc = "idle"
  BY IdleCall DEF Init, Threads
<1>4. QED
  BY <1>1, <1>2, <1>3
  DEF Identity, EndLast, UniqueIdentity, PassedAgree, AddedIsNew, Init

LEMMA NextIdentity == ASSUME NoRestart, Identity, [Next]_vars PROVE Identity'
<1>1. TInv'
  BY NextTInv DEF Identity
<1>2. CASE UNCHANGED vars
  BY <1>1, <1>2, FreeNone, FreesIdentity DEF vars, Identity, ServerStays
<1>3. CASE Tick
  BY <1>1, <1>3, FreeNone, FreesIdentity DEF Tick, Identity, ServerStays
<1>4. ~ (Stop \/ Boot \/ BootCrashes)
  BY DEF Stop, Boot, BootCrashes, Identity, NoRestart
<1>5. QED
  BY <1>1, <1>2, <1>3, <1>4, ServerIdentity, CheckIdentity, EncodeIdentity DEF Next

\* In one run of the program, from a heap in which no record looks used, no two
\* phones in the table share an IP or a MAC address, for any number of records,
\* addresses and threads, although the other threads free and save records
\* between the steps of a registration.
THEOREM IdentityCorrect == ASSUME NoRestart PROVE Spec => []UniqueIdentity
<1>1. Init => Identity
  BY InitIdentity
<1>2. Identity /\ [Next]_vars => Identity'
  BY NextIdentity
<1>3. Identity => UniqueIdentity
  BY DEF Identity
<1>4. QED
  BY <1>1, <1>2, <1>3, PTL DEF Spec

-----------------------------------------------------------------------------
(* The file.  A save is well formed from its first character on, unless     *)
(* somebody changes the table it looks ahead in.                            *)

\* A comma is the last thing printed when, and only when, a record must follow.
CommaRight(t) ==
  /\ th[t].pc # "print" => th[t].comma = FALSE /\ th[t].wellFormed = TRUE
  /\ th[t].pc = "print" /\ ~mixed =>
       /\ th[t].wellFormed = TRUE
       /\ th[t].comma = (th[t].printed # <<>> /\ GetNextRecord(th[t].sptr) # NoRecord)

FileSound == system = "up" /\ ~Printing /\ ~mixed => disk.text \in {"missing", "json"}

SaveInv ==
  /\ TInv
  /\ \A t \in Threads : CommaRight(t)
  /\ system # "up" => Quiet
  /\ FileSound

\* The saves of other threads than t see the table they saw before, or are mixed.
Unmixed(t) ==
  \A u \in Threads : u # t /\ th[u].pc = "print" /\ ~mixed' => ~mixed /\ SPphones' = SPphones

Mixes == MayMix \/ (mixed' = mixed /\ SPphones' = SPphones)

LEMMA MixesUnmixed == ASSUME Mixes, NEW t \in Threads PROVE Unmixed(t)
BY DEF Mixes, MayMix, Unmixed, Printing

LEMMA NextSame ==
  ASSUME SPphones' = SPphones, NEW t \in Threads, th'[t] = th[t]
  PROVE  GetNextRecord(th[t].sptr)' = GetNextRecord(th[t].sptr)
BY DEF GetNextRecord, Used

\* One thread goes on; what is true of the saves of the others stays so.
LEMMA SaveStep ==
  ASSUME SaveInv, TInv', NEW t \in Threads,
         th' = [u \in Threads |-> IF u = t THEN th'[t] ELSE th[u]],
         system' = "up", Unmixed(t), CommaRight(t)', FileSound'
  PROVE  SaveInv'
<1>1. ASSUME NEW u \in Threads PROVE CommaRight(u)'
  <2>1. CASE u = t
    BY <2>1
  <2>2. CASE u # t
    <3>1. th'[u] = th[u] /\ CommaRight(u)
      BY <2>2 DEF SaveInv
    <3>2. CASE th[u].pc # "print"
      BY <3>1, <3>2 DEF CommaRight
    <3>3. CASE th[u].pc = "print" /\ mixed'
      BY <3>1, <3>3 DEF CommaRight
    <3>4. CASE th[u].pc = "print" /\ ~mixed'
      <4>1. ~mixed /\ SPphones' = SPphones
        BY <2>2, <3>4 DEF Unmixed
      <4>2. GetNextRecord(th[u].sptr)' = GetNextRecord(th[u].sptr)
        BY <3>1, <4>1, NextSame
      <4>3. /\ th[u].wellFormed = TRUE
            /\ th[u].comma = (th[u].printed # <<>> /\ GetNextRecord(th[u].sptr) # NoRecord)
        BY <3>1, <3>4, <4>1 DEF CommaRight
      <4>4. QED
        BY <3>1, <3>4, <4>2, <4>3 DEF CommaRight, NoRecord
    <3>5. QED
      BY <3>2, <3>3, <3>4
  <2>3. QED
    BY <2>1, <2>2
<1>2. QED
  BY <1>1 DEF SaveInv

\* A step of a call that neither begins, continues nor ends a save.
LEMMA NoSaveStep ==
  ASSUME SaveInv, TInv', NEW t \in Threads, Mixes,
         th' = [u \in Threads |-> IF u = t THEN th'[t] ELSE th[u]],
         th[t].pc # "print", th'[t].pc # "print",
         th'[t].comma = FALSE, th'[t].wellFormed = TRUE,
         disk' = disk, system = "up", system' = system
  PROVE  SaveInv'
<1>1. CommaRight(t)'
  BY DEF CommaRight
<1>2. Printing => Printing'
  BY DEF Printing
<1>3. mixed => mixed'
  BY DEF Mixes, MayMix
<1>4. FileSound'
  BY <1>2, <1>3 DEF SaveInv, FileSound
<1>5. QED
  BY <1>1, <1>4, SaveStep, MixesUnmixed

LEMMA NotPrinting ==
  ASSUME SaveInv, NEW t \in Threads, th[t].pc # "print"
  PROVE  th[t].comma = FALSE /\ th[t].wellFormed = TRUE
BY DEF SaveInv, CommaRight

\* What a step leaves of the flags when it only moves the call on.
LEMMA FlagsKept ==
  ASSUME TInv, NEW t \in Threads, NEW pc, NEW sptr, NEW dirty,
         \/ th' = [th EXCEPT ![t].pc = pc]
         \/ th' = [th EXCEPT ![t].sptr = sptr]
         \/ th' = [th EXCEPT ![t].pc = pc, ![t].sptr = sptr]
         \/ th' = [th EXCEPT ![t].pc = pc, ![t].dirty = dirty]
  PROVE  /\ th' = [u \in Threads |-> IF u = t THEN th'[t] ELSE th[u]]
         /\ th'[t].comma = th[t].comma /\ th'[t].wellFormed = th[t].wellFormed
         /\ th'[t].pc \in {pc, th[t].pc}
<1>1. th \in [Threads -> Calls]
  BY CallFields, TypesOf
<1>2. QED
  BY <1>1 DEF Calls

LEMMA IdleFlags == Idle.comma = FALSE /\ Idle.wellFormed = TRUE /\ Idle.pc = "idle"
BY DEF Idle

LEMMA ServerSaves ==
  ASSUME SaveInv, TInv',
         \/ \E ip \in IPs, mac \in MACs : AddRecord(ip, mac)
         \/ \E ip \in IPs : RemoveIP(ip)
         \/ Adding \/ RemoveFound
  PROVE  SaveInv'
<1>1. Server \in Threads /\ TInv
  BY DEF SaveInv, Threads
<1>2. ASSUME NEW c, th' = [th EXCEPT ![Server] = c], c.pc # "print",
             c.comma = FALSE, c.wellFormed = TRUE,
             th[Server].pc # "print", Mixes,
             disk' = disk, system = "up", system' = system
      PROVE  SaveInv'
  <2>1. th' = [u \in Threads |-> IF u = Server THEN th'[Server] ELSE th[u]] /\ th'[Server] = c
    BY <1>1, <1>2, TypesOf
  <2>2. QED
    BY <1>1, <1>2, <2>1, NoSaveStep
<1>3. ASSUME NEW ip \in IPs, NEW mac \in MACs, AddRecord(ip, mac) PROVE SaveInv'
  <2> DEFINE c == [Idle EXCEPT !.pc = "purge", !.ip = ip, !.mac = mac]
  <2>1. c.pc # "print" /\ c.comma = FALSE /\ c.wellFormed = TRUE
    BY DEF Idle
  <2> HIDE DEF c
  <2>2. QED
    BY <1>2, <1>3, <2>1 DEF AddRecord, MayBegin, Mixes, c
<1>4. ASSUME NEW ip \in IPs, RemoveIP(ip) PROVE SaveInv'
  <2> DEFINE same == {s \in Slots : Used(s) /\ SPphones[s].ip_addr = ip}
             c == [Idle EXCEPT !.pc = "unlist", !.sptr = Min(same)]
  <2>1. c.pc # "print" /\ c.comma = FALSE /\ c.wellFormed = TRUE
    BY DEF Idle
  <2>2. th' = [th EXCEPT ![Server] = c]
    BY <1>4 DEF RemoveIP
  <2> HIDE DEF c
  <2>3. QED
    BY <1>2, <1>4, <2>1, <2>2 DEF RemoveIP, MayBegin, Mixes
<1>5. CASE AddFull
  BY <1>2, <1>5, IdleFlags DEF AddFull, At, Mixes
<1>6. ASSUME NEW pc \in {"purge", "update", "add", "open"}, NEW sptr,
             \/ th' = [th EXCEPT ![Server].pc = pc]
             \/ th' = [th EXCEPT ![Server].sptr = sptr]
             \/ th' = [th EXCEPT ![Server].pc = pc, ![Server].sptr = sptr],
             th[Server].pc \in {"purge", "update", "add", "unlist"}, Mixes,
             disk' = disk, system = "up", system' = system
      PROVE  SaveInv'
  <2>1. /\ th' = [u \in Threads |-> IF u = Server THEN th'[Server] ELSE th[u]]
        /\ th'[Server].comma = th[Server].comma
        /\ th'[Server].wellFormed = th[Server].wellFormed
        /\ th'[Server].pc \in {pc, th[Server].pc}
    BY <1>1, <1>6, FlagsKept
  <2>2. th[Server].comma = FALSE /\ th[Server].wellFormed = TRUE
    BY <1>1, <1>6, NotPrinting
  <2>3. QED
    BY <1>1, <1>6, <2>1, <2>2, NoSaveStep
<1>7. CASE AddPurge
  BY <1>6, <1>7 DEF AddPurge, At, Mixes
<1>8. CASE AddFind
  <2> DEFINE same == {s \in Slots : Used(s) /\ SPphones[s].ip_addr = th[Server].ip}
             pc == IF same # {} THEN "update" ELSE "add"
             sptr == IF same # {} THEN Min(same) ELSE Start
  <2>1. th' = [th EXCEPT ![Server].pc = pc, ![Server].sptr = sptr]
    BY <1>8 DEF AddFind
  <2>2. pc \in {"purge", "update", "add", "open"}
    OBVIOUS
  <2> HIDE DEF pc, sptr
  <2>3. QED
    BY <1>6, <1>8, <2>1, <2>2 DEF AddFind, At, Mixes
<1>9. CASE AddUpdate \/ AddNew \/ RemoveFound
  BY <1>6, <1>9 DEF AddUpdate, AddNew, RemoveFound, Goes, At, Mixes
<1>10. QED
  BY <1>3, <1>4, <1>5, <1>7, <1>8, <1>9 DEF Adding

LEMMA CheckSaves ==
  ASSUME SaveInv, TInv', NEW t \in StaleThreads, Checking(t)
  PROVE  SaveInv'
<1>1. t \in Threads /\ TInv
  BY DEF SaveInv, Threads
<1>2. th[t].pc # "print" /\ disk' = disk /\ system = "up" /\ system' = system /\ Mixes
  BY DEF Checking, CheckStale, StaleTest, StaleRemove, StaleEnd, MayBegin, At, Mixes
<1>3. th[t].comma = FALSE /\ th[t].wellFormed = TRUE
  BY <1>1, <1>2, NotPrinting
<1>4. CASE StaleTest(t) \/ StaleRemove(t)
  <2> DEFINE s == GetNextRecord(th[t].sptr)
  <2>1. PICK pc \in {"test", "remove"} :
          \/ th' = [th EXCEPT ![t].pc = pc, ![t].sptr = s]
          \/ th' = [th EXCEPT ![t].pc = pc, ![t].dirty = TRUE]
    BY <1>4 DEF StaleTest, StaleRemove
  <2> HIDE DEF s
  <2>2. /\ th' = [u \in Threads |-> IF u = t THEN th'[t] ELSE th[u]]
        /\ th'[t].comma = th[t].comma /\ th'[t].wellFormed = th[t].wellFormed
        /\ th'[t].pc \in {pc, th[t].pc}
    BY <1>1, <2>1, FlagsKept
  <2>3. QED
    BY <1>1, <1>2, <1>3, <2>2, NoSaveStep
<1>5. CASE CheckStale(t) \/ StaleEnd(t)
  <2> DEFINE begun == [Idle EXCEPT !.pc = "test", !.curtime = clock]
             saving == [Idle EXCEPT !.pc = "open"]
  <2>1. /\ begun.pc = "test" /\ begun.comma = FALSE /\ begun.wellFormed = TRUE
        /\ saving.pc = "open" /\ saving.comma = FALSE /\ saving.wellFormed = TRUE
    BY DEF Idle
  <2> HIDE DEF begun, saving
  <2>2. PICK c \in {Idle, begun, saving} : th' = [th EXCEPT ![t] = c]
    BY <1>5 DEF CheckStale, StaleEnd, begun, saving
  <2>3. th' = [u \in Threads |-> IF u = t THEN th'[t] ELSE th[u]] /\ th'[t] = c
    BY <1>1, <2>2, TypesOf
  <2>4. c.pc # "print" /\ c.comma = FALSE /\ c.wellFormed = TRUE
    BY <2>1, <2>2, IdleFlags
  <2>5. QED
    BY <1>1, <1>2, <1>3, <2>3, <2>4, NoSaveStep
<1>6. QED
  BY <1>4, <1>5 DEF Checking

LEMMA EncodeSaves ==
  ASSUME SaveInv, TInv', NEW t \in Threads, Encoding(t)
  PROVE  SaveInv'
<1>1. TInv /\ th[t] \in Calls /\ CommaRight(t)
  BY CallFields DEF SaveInv
<1>2. /\ th[t].pc \in {"open", "print"} /\ SPphones' = SPphones
      /\ system = "up" /\ system' = system
  BY DEF Encoding, EncodeOpen, EncodeOpenFails, EncodePrint, EncodeClose, At
<1>3. mixed' = mixed => Unmixed(t)
  BY <1>2 DEF Unmixed
<1>4. CASE EncodeOpen(t)
  <2>1. th[t].pc = "open" /\ th[t].printed = <<>>
    BY <1>1, <1>4, CallFields DEF EncodeOpen, At
  <2>2. /\ th' = [u \in Threads |-> IF u = t THEN th'[t] ELSE th[u]]
        /\ th'[t].comma = th[t].comma /\ th'[t].wellFormed = th[t].wellFormed
        /\ th'[t].pc = "print" /\ th'[t].printed = <<>>
    <3>1. th \in [Threads -> Calls]
      BY <1>1, CallFields, TypesOf
    <3>2. QED
      BY <1>4, <2>1, <3>1 DEF EncodeOpen, Calls
  <2>3. CommaRight(t)'
    BY <2>1, <2>2, NotPrinting DEF CommaRight
  <2>4. FileSound'
    BY <2>2 DEF FileSound, Printing
  <2>5. Unmixed(t)
    <3>1. ASSUME NEW u \in Threads, u # t, th[u].pc = "print", ~mixed' PROVE ~mixed
      BY <1>4, <3>1 DEF EncodeOpen
    <3>2. QED
      BY <1>2, <3>1 DEF Unmixed
  <2>6. QED
    BY <1>2, <2>2, <2>3, <2>4, <2>5, SaveStep
<1>5. CASE EncodeOpenFails(t)
  <2>1. th' = [u \in Threads |-> IF u = t THEN th'[t] ELSE th[u]] /\ th'[t] = Idle
    BY <1>1, <1>5, TypesOf DEF EncodeOpenFails
  <2>2. QED
    BY <1>2, <1>5, <2>1, IdleFlags, NoSaveStep DEF EncodeOpenFails, At, Mixes
<1>6. CASE EncodePrint(t)
  <2> DEFINE s == GetNextRecord(th[t].sptr)
             printed == Append(th[t].printed, SPphones[s])
             comma == GetNextRecord(s) # NoRecord
             wellFormed == th[t].wellFormed /\ (th[t].printed = <<>> \/ th[t].comma)
             c == [th[t] EXCEPT !.sptr = s, !.printed = printed,
                                !.comma = comma, !.wellFormed = wellFormed]
  <2>1. th[t].pc = "print" /\ s # NoRecord
    BY <1>6 DEF EncodePrint, At
  <2>2. ~mixed => wellFormed = TRUE
    BY <1>1, <2>1 DEF CommaRight
  <2>3. printed # <<>>
    <3>1. s \in Slots
      BY <1>1, <2>1, CallFields, NextRecord
    <3>2. SPphones[s] \in Records /\ th[t].printed \in Seq(Records)
      BY <1>1, <3>1, CallFields, TypesOf
    <3> HIDE DEF s
    <3>3. Len(printed) = Len(th[t].printed) + 1 /\ Len(th[t].printed) \in Nat
      BY <3>2
    <3> HIDE DEF printed
    <3>4. Len(printed) # 0
      BY <3>3
    <3>5. QED
      BY <3>4
  <2>4. th' = [u \in Threads |-> IF u = t THEN c ELSE th[u]]
    <3>1. th' = [th EXCEPT ![t] = c]
      BY <1>1, <1>6, TypesOf DEF EncodePrint
    <3> HIDE DEF c
    <3>2. QED
      BY <1>1, <3>1, TypesOf
  <2>5. /\ c.pc = "print" /\ c.sptr = s /\ c.printed = printed /\ c.comma = comma
        /\ c.wellFormed = wellFormed
    <3> HIDE DEF s, printed, comma, wellFormed
    <3>1. QED
      BY <1>1, <2>1 DEF Calls
  <2> HIDE DEF c
  <2>6. th'[t] = c /\ th' = [u \in Threads |-> IF u = t THEN th'[t] ELSE th[u]]
    BY <2>4
  <2>7. CommaRight(t)'
    <3>1. \A r : GetNextRecord(r)' = GetNextRecord(r)
      BY <1>2 DEF GetNextRecord, Used
    <3>2. GetNextRecord(th[t].sptr)' = GetNextRecord(s)
      BY <1>2, <2>5, <2>6 DEF GetNextRecord, Used
    <3>3. mixed' = mixed
      BY <1>6 DEF EncodePrint
    <3> HIDE DEF s, printed
    <3>4. QED
      BY <2>1, <2>2, <2>3, <2>5, <2>6, <3>2, <3>3 DEF CommaRight, NoRecord
  <2>8. FileSound'
    BY <2>5, <2>6 DEF FileSound, Printing
  <2>9. mixed' = mixed
    BY <1>6 DEF EncodePrint
  <2>10. QED
    BY <1>2, <1>3, <2>6, <2>7, <2>8, <2>9, SaveStep
<1>7. CASE EncodeClose(t)
  <2>1. ~mixed => th[t].wellFormed = TRUE /\ th[t].comma = FALSE
    BY <1>1, <1>7 DEF EncodeClose, At, CommaRight
  <2>2. ~mixed => disk'.text = "json"
    BY <1>7, <2>1 DEF EncodeClose, File
  <2>3. th' = [u \in Threads |-> IF u = t THEN th'[t] ELSE th[u]] /\ th'[t] = Idle
    BY <1>1, <1>7, TypesOf DEF EncodeClose
  <2>4. mixed' = mixed
    BY <1>7 DEF EncodeClose
  <2>5. CommaRight(t)'
    BY <2>3, IdleFlags DEF CommaRight
  <2>6. FileSound'
    BY <2>2, <2>4 DEF FileSound
  <2>7. QED
    BY <1>2, <1>3, <2>3, <2>4, <2>5, <2>6, SaveStep
<1>8. QED
  BY <1>4, <1>5, <1>6, <1>7 DEF Encoding

LEMMA AllIdleSaves ==
  ASSUME TInv, \A t \in Threads : th[t] = Idle, FileSound PROVE SaveInv
BY IdleFlags DEF SaveInv, CommaRight, Quiet

LEMMA InitSaves == Init => SaveInv
BY InitTInv, AllIdleSaves DEF Init, FileSound, NoFile

LEMMA NextSaves == ASSUME SaveInv, [Next]_vars PROVE SaveInv'
<1>1. TInv'
  BY NextTInv DEF SaveInv
<1>2. CASE UNCHANGED vars \/ Tick
  <2>1. UNCHANGED <<SPphones, disk, th, system, mixed>>
    BY <1>2 DEF vars, Tick
  <2>2. ASSUME NEW t \in Threads PROVE CommaRight(t)'
    <3>1. GetNextRecord(th[t].sptr)' = GetNextRecord(th[t].sptr)
      BY <2>1, NextSame
    <3>2. QED
      BY <2>1, <3>1 DEF SaveInv, CommaRight, NoRecord
  <2>3. QED
    BY <1>1, <2>1, <2>2 DEF SaveInv, FileSound, Quiet, Printing
<1>3. CASE Stop \/ Boot \/ BootCrashes
  <2>1. /\ \A t \in Threads : th'[t].pc = "idle"
        /\ \A t \in Threads : th'[t].comma = FALSE /\ th'[t].wellFormed = TRUE
    <3>1. CASE Stop
      BY <3>1, IdleFlags DEF Stop
    <3>2. CASE Boot \/ BootCrashes
      BY <3>2 DEF Boot, BootCrashes, SaveInv, Quiet, CommaRight
    <3>3. QED
      BY <1>3, <3>1, <3>2
  <2>2. FileSound'
    BY <1>3 DEF Stop, Boot, BootCrashes, FileSound
  <2>3. \A t \in Threads : CommaRight(t)'
    BY <2>1 DEF CommaRight
  <2>4. QED
    BY <1>1, <2>1, <2>2, <2>3 DEF SaveInv, Quiet
<1>4. QED
  BY <1>1, <1>2, <1>3, ServerSaves, CheckSaves, EncodeSaves DEF Next

\* However calls overlap, a stop that does not come between fopen and fclose, nor
\* after a save under which the table changed, leaves a file that the next start
\* can read, for any table, any threads, any sequence of calls, failed saves and
\* earlier stops.
THEOREM SavesAreFragile == Spec => OnlySavesAreFragile
<1>1. Init => SaveInv
  BY InitSaves
<1>2. SaveInv /\ [Next]_vars => SaveInv'
  BY NextSaves
<1>3. ASSUME SaveInv, Stop, ~Printing, ~mixed PROVE disk.text \in {"missing", "json"}
  BY <1>3 DEF SaveInv, FileSound, Stop
<1>4. SaveInv /\ [Next]_vars =>
        [Stop /\ ~Printing /\ ~mixed => disk.text \in {"missing", "json"}]_vars
  BY <1>3
<1>5. QED
  BY <1>1, <1>2, <1>4, PTL DEF Spec, OnlySavesAreFragile

-----------------------------------------------------------------------------
(* Lists of the used records.                                              *)

\* The used records before n.
UsedBefore(n) == {r \in Slots : Used(r) /\ r < n}
Rank(n) == Cardinality(UsedBefore(n))

\* A list of the used records before n, in the order of the table.
Lists(list, n) ==
  /\ Len(list) = Rank(n)
  /\ \A i \in 1 .. Len(list) :
       \E s \in Slots : Used(s) /\ s < n /\ Rank(s) = i - 1 /\ list[i] = SPphones[s]

\* Part of the table is a finite set.
LEMMA SlotsFinite ==
  /\ IsFiniteSet(Slots) /\ Cardinality(Slots) = max_SPphones
  /\ \A S \in SUBSET Slots : IsFiniteSet(S) /\ Cardinality(S) \in Nat
                             /\ Cardinality(S) <= max_SPphones
                             /\ (Cardinality(S) = max_SPphones => S = Slots)
<1>1. max_SPphones \in Nat /\ max_SPphones - 1 \in Int /\ max_SPphones > 0 /\ 0 \in Int
  BY SpRecAssumption
<1>2. IsFiniteSet(Slots) /\ Cardinality(Slots) = max_SPphones
  <2>1. IsFiniteSet(Slots)
        /\ Cardinality(Slots) = IF 0 > max_SPphones - 1 THEN 0 ELSE max_SPphones - 1 - 0 + 1
    BY <1>1, FS_Interval DEF Slots
  <2>2. QED
    BY <1>1, <2>1
<1>3. ASSUME NEW S \in SUBSET Slots
      PROVE  IsFiniteSet(S) /\ Cardinality(S) \in Nat
             /\ Cardinality(S) <= max_SPphones
             /\ (Cardinality(S) = max_SPphones => S = Slots)
  BY <1>2, FS_Subset, FS_CardinalityType
<1>4. QED
  BY <1>2, <1>3

LEMMA RankType ==
  ASSUME NEW n PROVE UsedBefore(n) \subseteq Slots /\ IsFiniteSet(UsedBefore(n)) /\ Rank(n) \in Nat
<1>1. UsedBefore(n) \in SUBSET Slots
  BY DEF UsedBefore
<1>2. QED
  BY <1>1, SlotsFinite DEF Rank

\* Past a used record there is one more, past another there is not.
LEMMA RankStep ==
  ASSUME NEW s \in Slots
  PROVE  /\ Used(s) => Rank(s + 1) = Rank(s) + 1
         /\ ~Used(s) => Rank(s + 1) = Rank(s)
<1>1. s \in Int /\ \A r \in Slots : r \in Int
  BY SpRecAssumption DEF Slots
<1>2. \A r \in Slots : r < s + 1 <=> r < s \/ r = s
  BY <1>1
<1>3. Used(s) => UsedBefore(s + 1) = UsedBefore(s) \union {s}
  BY <1>2 DEF UsedBefore
<1>4. ~Used(s) => UsedBefore(s + 1) = UsedBefore(s)
  BY <1>2 DEF UsedBefore
<1>5. s \notin UsedBefore(s)
  BY <1>1 DEF UsedBefore
<1>6. QED
  BY <1>3, <1>4, <1>5, RankType, FS_AddElement DEF Rank

\* Between two places with no used record at or after the first one.
LEMMA RankSame ==
  ASSUME NEW n \in Int, NEW m \in Int, n <= m, \A r \in Slots : Used(r) /\ r < m => r < n
  PROVE  Rank(n) = Rank(m) /\ UsedBefore(n) = UsedBefore(m)
<1>1. \A r \in Slots : r \in Int
  BY SpRecAssumption DEF Slots
<1>2. UsedBefore(n) = UsedBefore(m)
  BY <1>1 DEF UsedBefore
<1>3. QED
  BY <1>2 DEF Rank

LEMMA RankLess ==
  ASSUME NEW s \in Slots, NEW n \in Int, Used(s), s < n
  PROVE  Rank(s) < Rank(n)
<1>1. s \in Int /\ \A r \in Slots : r \in Int
  BY SpRecAssumption DEF Slots
<1>2. UsedBefore(s + 1) \in SUBSET UsedBefore(n)
  <2>1. \A r \in Slots : r < s + 1 => r < n
    BY <1>1
  <2>2. QED
    BY <2>1 DEF UsedBefore
<1>3. Rank(s + 1) <= Rank(n)
  BY <1>2, RankType, FS_Subset DEF Rank
<1>4. Rank(s) + 1 <= Rank(n)
  BY <1>3, RankStep
<1>5. QED
  BY <1>4, RankType

\* A used record is known by how many come before it.
LEMMA RankUnique ==
  ASSUME NEW r \in Slots, NEW s \in Slots, Used(r), Used(s), Rank(r) = Rank(s)
  PROVE  r = s
<1>1. r \in Int /\ s \in Int
  BY SpRecAssumption DEF Slots
<1>2. Rank(r) \in Nat /\ Rank(s) \in Nat
  BY RankType
<1>3. ~ (r < s) /\ ~ (s < r)
  BY <1>1, <1>2, RankLess
<1>4. QED
  BY <1>1, <1>3

\* A list of the records before n has each of them.
LEMMA ListsAll ==
  ASSUME NEW list \in Seq(Records), NEW n \in Int, Lists(list, n), NEW s \in Slots, Used(s), s < n
  PROVE  Rank(s) + 1 \in 1 .. Len(list) /\ list[Rank(s) + 1] = SPphones[s]
<1>1. Rank(s) \in Nat /\ Rank(n) \in Nat /\ Rank(s) < Rank(n)
  BY RankType, RankLess
<1>2. Rank(s) + 1 \in 1 .. Len(list)
  BY <1>1 DEF Lists
<1>3. PICK r \in Slots : Used(r) /\ Rank(r) = (Rank(s) + 1) - 1 /\ list[Rank(s) + 1] = SPphones[r]
  BY <1>2 DEF Lists
<1>4. r = s
  BY <1>1, <1>3, RankUnique
<1>5. QED
  BY <1>2, <1>3, <1>4

\* It grows with the next record.
LEMMA ListsGrow ==
  ASSUME NEW list \in Seq(Records), NEW n \in Int, Lists(list, n),
         NEW s \in Slots, Used(s), SPphones[s] \in Records, n <= s,
         \A r \in Slots : Used(r) /\ r < s => r < n
  PROVE  Lists(Append(list, SPphones[s]), s + 1)
<1> DEFINE longer == Append(list, SPphones[s])
<1>1. s \in Int /\ \A r \in Slots : r \in Int
  BY SpRecAssumption DEF Slots
<1>2. Rank(s) = Rank(n) /\ Rank(s + 1) = Rank(s) + 1 /\ Rank(s) \in Nat
  BY <1>1, RankSame, RankStep, RankType
<1>3. /\ Len(longer) = Len(list) + 1 /\ Len(list) \in Nat
      /\ \A i \in 1 .. Len(list) : longer[i] = list[i]
      /\ longer[Len(list) + 1] = SPphones[s]
  OBVIOUS
<1> HIDE DEF longer
<1>4. ASSUME NEW i \in 1 .. Len(longer)
      PROVE  \E r \in Slots : Used(r) /\ r < s + 1 /\ Rank(r) = i - 1 /\ longer[i] = SPphones[r]
  <2>1. CASE i = Len(list) + 1
    BY <1>1, <1>2, <1>3, <2>1 DEF Lists
  <2>2. CASE i \in 1 .. Len(list)
    <3>1. PICK r \in Slots : Used(r) /\ r < n /\ Rank(r) = i - 1 /\ list[i] = SPphones[r]
      BY <2>2 DEF Lists
    <3>2. r < s + 1
      BY <1>1, <3>1
    <3>3. QED
      BY <1>3, <2>2, <3>1, <3>2
  <2>3. QED
    BY <1>3, <2>1, <2>2
<1>5. Len(longer) = Rank(s + 1)
  BY <1>2, <1>3 DEF Lists
<1>6. QED
  BY <1>4, <1>5 DEF Lists, longer

LEMMA ListsFurther ==
  ASSUME NEW list, NEW n \in Int, NEW m \in Int, Lists(list, n), n <= m,
         \A r \in Slots : Used(r) /\ r < m => r < n
  PROVE  Lists(list, m)
<1>1. Rank(n) = Rank(m)
  BY RankSame
<1>2. \A r \in Slots : r \in Int
  BY SpRecAssumption DEF Slots
<1>3. QED
  BY <1>1, <1>2 DEF Lists

\* The whole list is what Phones says.
LEMMA ListsPhones ==
  ASSUME NEW list \in Seq(Records), Lists(list, max_SPphones) PROVE list = Phones
<1> DEFINE used == {s \in Slots : Used(s)}
           nth(i) == CHOOSE s \in used : Cardinality({r \in used : r < s}) = i - 1
<1>1. \A r \in Slots : r \in Int /\ r < max_SPphones
  BY SpRecAssumption DEF Slots
<1>2. \A s : Cardinality({r \in used : r < s}) = Rank(s)
  <2>1. ASSUME NEW s PROVE {r \in used : r < s} = UsedBefore(s)
    BY DEF UsedBefore
  <2>2. QED
    BY <2>1 DEF Rank
<1>3. used = UsedBefore(max_SPphones)
  BY <1>1 DEF UsedBefore
<1>4. Cardinality(used) = Len(list)
  BY <1>3 DEF Lists, Rank
<1>5. ASSUME NEW i \in 1 .. Len(list) PROVE list[i] = SPphones[nth(i)]
  <2>1. PICK s \in Slots : Used(s) /\ Rank(s) = i - 1 /\ list[i] = SPphones[s]
    BY DEF Lists
  <2>2. s \in used /\ Cardinality({r \in used : r < s}) = i - 1
    BY <1>2, <2>1
  <2>3. nth(i) \in used /\ Cardinality({r \in used : r < nth(i)}) = i - 1
    BY <2>2
  <2>4. nth(i) \in Slots /\ Used(nth(i)) /\ Rank(nth(i)) = i - 1
    <3> HIDE DEF nth
    <3>1. QED
      BY <1>2, <2>3
  <2> HIDE DEF nth
  <2>5. nth(i) = s
    BY <2>1, <2>4, RankUnique
  <2>6. QED
    BY <2>1, <2>5
<1>6. list = [i \in 1 .. Len(list) |-> list[i]]
  OBVIOUS
<1>7. Phones = [i \in 1 .. Cardinality(used) |-> SPphones[nth(i)]]
  BY DEF Phones
<1> HIDE DEF used, nth
<1>8. QED
  BY <1>4, <1>5, <1>6, <1>7

-----------------------------------------------------------------------------
(* The copy on disk, however calls overlap.  What is not saved yet, somebody *)
(* is about to save, or is saving; whoever saves alone, in a table that does *)
(* not change meanwhile, leaves the table's records.  A registration that    *)
(* has only freed a record will find room.                                   *)

\* A record was freed that the next phone can have.
Reclaimed ==
  \E s \in Slots : SPphones[s].in_use = FREE /\ \A k \in Slots : k < s => SPphones[k].in_use # END

\* A full table has no record to give away.
LEMMA FullNotReclaimed == ASSUME TInv, Full PROVE ~Reclaimed
<1> SUFFICES ASSUME NEW s \in Slots, SPphones[s].in_use = FREE,
                    \A k \in Slots : k < s => SPphones[k].in_use # END
             PROVE  FALSE
  BY DEF Reclaimed
<1>1. s \in Vacant /\ Vacant \in SUBSET Nat
  BY SpRecAssumption DEF Vacant, Slots
<1>2. Min(Vacant) \in Vacant /\ Min(Vacant) <= s
  BY <1>1, MinOf
<1>3. SPphones[Min(Vacant)].in_use = END /\ Min(Vacant) \in Slots
  BY <1>1, <1>2 DEF Full, Vacant
<1>4. Min(Vacant) # s
  BY <1>3 DEF FREE, END
<1>5. Min(Vacant) < s
  <2>1. PICK m : m = Min(Vacant)
    OBVIOUS
  <2>2. m \in Nat /\ s \in Nat /\ m <= s /\ m # s
    BY <1>1, <1>2, <1>4, <2>1
  <2>3. QED
    BY <2>1, <2>2
<1>6. QED
  BY <1>3, <1>5

\* A freed record that was used.
LEMMA FreedReclaims ==
  ASSUME TInv, EndLast, NEW s \in Slots, Used(s), SPphones' = [SPphones EXCEPT ![s].in_use = FREE]
  PROVE  Reclaimed'
<1>1. SPphones \in [Slots -> Records] /\ \A r \in Slots : r \in Int
  BY TypesOf, SpRecAssumption DEF Slots
<1>2. SPphones'[s].in_use = FREE
  BY <1>1 DEF Records
<1>3. ASSUME NEW k \in Slots, k < s PROVE SPphones'[k].in_use # END
  <2>1. k # s
    BY <1>1, <1>3
  <2>2. SPphones'[k] = SPphones[k]
    BY <1>1, <2>1
  <2>3. QED
    BY <1>3, <2>2 DEF EndLast
<1>4. QED
  BY <1>2, <1>3 DEF Reclaimed

AllUsed(list) == \A i \in 1 .. Len(list) : list[i].in_use = USED

\* What a save has printed so far.
Listing(t) == th[t].pc = "print" /\ ~mixed => Lists(th[t].printed, th[t].sptr + 1)

\* A call that will save before it is over.
PendingBy(t) ==
  th[t].pc \in {"open", "update"} \/ (th[t].pc \in {"test", "remove"} /\ th[t].dirty = TRUE)

Idling == system = "up" /\ ~mixed /\ ~unsaved /\ ~Printing /\ \A t \in Threads : ~PendingBy(t)

MayYetFill == th[Server].pc \in {"purge", "add"} /\ Reclaimed

Kept == Idling => Lists(disk.phones, max_SPphones) \/ MayYetFill

KeptInv ==
  /\ SaveInv
  /\ AllUsed(disk.phones) /\ \A t \in Threads : AllUsed(th[t].printed)
  /\ system = "up" => EndLast /\ \A t \in Threads : Listing(t)
  /\ Kept

LEMMA ListsSame == ASSUME SPphones' = SPphones, NEW list, NEW n, Lists(list, n)
                   PROVE  Len(list) = Rank(n)' /\ \A i \in 1 .. Len(list) :
                            \E s \in Slots : Used(s)' /\ s < n /\ Rank(s)' = i - 1
                                             /\ list[i] = SPphones'[s]
BY DEF Lists, Rank, UsedBefore, Used

LEMMA NoneUsed == AllUsed(<<>>)
BY DEF AllUsed

\* One thread goes on; the saves of the others list what they have listed.
LEMMA KeptStep ==
  ASSUME KeptInv, SaveInv', NEW t \in Threads,
         th' = [u \in Threads |-> IF u = t THEN th'[t] ELSE th[u]],
         system = "up", Unmixed(t), AllUsed(disk'.phones), AllUsed(th'[t].printed),
         EndLast', Listing(t)', Kept'
  PROVE  KeptInv'
<1>1. ASSUME NEW u \in Threads PROVE Listing(u)' /\ AllUsed(th'[u].printed)
  <2>1. CASE u = t
    BY <2>1
  <2>2. CASE u # t
    <3>1. th'[u] = th[u] /\ Listing(u) /\ AllUsed(th[u].printed)
      BY <2>2 DEF KeptInv
    <3>2. CASE th[u].pc = "print" /\ ~mixed'
      <4>1. ~mixed /\ SPphones' = SPphones
        BY <2>2, <3>2 DEF Unmixed
      <4>2. Lists(th[u].printed, th[u].sptr + 1)
        BY <3>1, <3>2, <4>1 DEF Listing
      <4>3. Lists(th[u].printed, th[u].sptr + 1)'
        BY <3>1, <4>1, <4>2 DEF Lists, Rank, UsedBefore, Used
      <4>4. QED
        BY <3>1, <4>3 DEF Listing
    <3>3. QED
      BY <3>1, <3>2 DEF Listing
  <2>3. QED
    BY <2>1, <2>2
<1>2. \A u \in Threads : Listing(u)'
  BY <1>1
<1>3. \A u \in Threads : AllUsed(th[u].printed)'
  BY <1>1 DEF AllUsed
<1>4. AllUsed(disk.phones)'
  BY DEF AllUsed
<1>5. QED
  BY <1>2, <1>3, <1>4 DEF KeptInv

LEMMA KeptPending == ASSUME NEW t \in Threads, PendingBy(t)' PROVE Kept'
BY DEF Kept, Idling

\* A step of a call that has nothing to save.
LEMMA KeptStays ==
  ASSUME KeptInv, NEW t \in Threads,
         th' = [u \in Threads |-> IF u = t THEN th'[t] ELSE th[u]],
         SPphones' = SPphones, disk' = disk, unsaved' = unsaved, system' = system,
         mixed => mixed', th[t].pc # "print", ~PendingBy(t),
         MayYetFill => th'[Server].pc \in {"purge", "add"}
  PROVE  Kept'
<1> SUFFICES ASSUME Idling' PROVE Lists(disk.phones, max_SPphones)' \/ MayYetFill'
  BY DEF Kept
<1>1. system = "up" /\ ~mixed /\ ~unsaved
  BY DEF Idling
<1>2. ~Printing
  <2>1. ASSUME NEW u \in Threads PROVE th[u].pc # "print"
    BY DEF Idling, Printing
  <2>2. QED
    BY <2>1 DEF Printing
<1>3. ASSUME NEW u \in Threads PROVE ~PendingBy(u)
  BY DEF Idling, PendingBy
<1>4. Lists(disk.phones, max_SPphones) \/ MayYetFill
  BY <1>1, <1>2, <1>3 DEF KeptInv, Kept, Idling
<1>5. CASE MayYetFill
  BY <1>5 DEF MayYetFill, Reclaimed
<1>6. CASE Lists(disk.phones, max_SPphones)
  BY <1>6, ListsSame DEF Lists
<1>7. QED
  BY <1>4, <1>5, <1>6

\* A step of a call that neither begins, continues nor ends a save.
LEMMA NoSaveKept ==
  ASSUME KeptInv, SaveInv', NEW t \in Threads, Mixes,
         th' = [u \in Threads |-> IF u = t THEN th'[t] ELSE th[u]],
         th'[t].pc # "print", disk' = disk, system = "up", EndLast', Kept'
  PROVE  KeptInv'
<1>1. th'[t].printed = <<>>
  BY CallFields DEF SaveInv, TInv, ProperCalls
<1>2. AllUsed(disk'.phones) /\ AllUsed(th'[t].printed) /\ Listing(t)'
  BY <1>1, NoneUsed DEF KeptInv, Listing
<1>3. QED
  BY <1>2, KeptStep, MixesUnmixed

LEMMA KeptServer ==
  ASSUME KeptInv, SaveInv',
         \/ \E ip \in IPs, mac \in MACs : AddRecord(ip, mac)
         \/ \E ip \in IPs : RemoveIP(ip)
         \/ Adding \/ RemoveFound
  PROVE  KeptInv'
<1> DEFINE Common ==
  /\ system = "up" /\ system' = system /\ disk' = disk /\ unsaved' = unsaved
  /\ th[Server].pc \in {"idle", "purge", "update", "add", "unlist"} /\ Mixes
<1>1. Common
  <2>1. ASSUME NEW ip \in IPs, NEW mac \in MACs, AddRecord(ip, mac) PROVE Common
    BY <2>1 DEF AddRecord, MayBegin, Mixes
  <2>2. ASSUME NEW ip \in IPs, RemoveIP(ip) PROVE Common
    BY <2>2 DEF RemoveIP, MayBegin, Mixes
  <2>3. CASE Adding \/ RemoveFound
    BY <2>3 DEF Adding, AddPurge, AddFind, AddUpdate, AddNew, AddFull, RemoveFound, At, Mixes
  <2>4. QED
    BY <2>1, <2>2, <2>3
<1>2. Server \in Threads /\ TInv /\ EndLast /\ th \in [Threads -> Calls]
  BY <1>1, CallFields, TypesOf DEF KeptInv, SaveInv, Threads
<1>3. mixed => mixed'
  BY <1>1 DEF Mixes, MayMix
<1>4. ASSUME th' = [u \in Threads |-> IF u = Server THEN th'[Server] ELSE th[u]],
             th'[Server].pc # "print", EndLast', Kept'
      PROVE  KeptInv'
  BY <1>1, <1>2, <1>4, NoSaveKept
<1>5. ~PendingBy(Server) \/ th[Server].pc = "update"
  BY <1>1 DEF PendingBy
<1>6. ASSUME th' = [u \in Threads |-> IF u = Server THEN th'[Server] ELSE th[u]],
             th'[Server].pc # "print", SPphones' = SPphones, th[Server].pc # "update",
             MayYetFill => th'[Server].pc \in {"purge", "add"}
      PROVE  KeptInv'
  <2>1. Kept'
    BY <1>1, <1>2, <1>3, <1>5, <1>6, KeptStays
  <2>2. EndLast'
    BY <1>2, <1>6, FreeNone, FreesEndLast
  <2>3. QED
    BY <1>4, <1>6, <2>1, <2>2
<1>7. ASSUME NEW ip \in IPs, NEW mac \in MACs, AddRecord(ip, mac) PROVE KeptInv'
  <2> DEFINE c == [Idle EXCEPT !.pc = "purge", !.ip = ip, !.mac = mac]
  <2>1. /\ c.pc = "purge" /\ th' = [th EXCEPT ![Server] = c] /\ SPphones' = SPphones
        /\ th[Server].pc # "update"
    BY <1>7 DEF AddRecord, Idle, MayBegin
  <2> HIDE DEF c
  <2>2. th' = [u \in Threads |-> IF u = Server THEN th'[Server] ELSE th[u]] /\ th'[Server] = c
    BY <1>2, <2>1
  <2>3. QED
    BY <1>6, <2>1, <2>2
<1>8. ASSUME NEW ip \in IPs, RemoveIP(ip) PROVE KeptInv'
  <2> DEFINE same == {s \in Slots : Used(s) /\ SPphones[s].ip_addr = ip}
             c == [Idle EXCEPT !.pc = "unlist", !.sptr = Min(same)]
  <2>1. /\ c.pc = "unlist" /\ th' = [th EXCEPT ![Server] = c] /\ SPphones' = SPphones
        /\ th[Server].pc = "idle"
    BY <1>8 DEF RemoveIP, Idle, MayBegin
  <2> HIDE DEF c
  <2>2. th' = [u \in Threads |-> IF u = Server THEN th'[Server] ELSE th[u]] /\ th'[Server] = c
    BY <1>2, <2>1
  <2>3. QED
    BY <1>6, <2>1, <2>2 DEF MayYetFill
<1>9. CASE AddPurge
  <2> DEFINE s == GetNextRecord(th[Server].sptr)
  <2>1. s \in Slots /\ Used(s) /\ th[Server].pc = "purge"
    BY <1>2, <1>9, NextRecord, CallFields DEF AddPurge, At
  <2>2. th' = [th EXCEPT ![Server].sptr = s]
    BY <1>9 DEF AddPurge
  <2>3. SPphones' = [SPphones EXCEPT ![s].in_use = FREE] \/ SPphones' = SPphones
    BY <1>9 DEF AddPurge
  <2> HIDE DEF s
  <2>4. /\ th' = [u \in Threads |-> IF u = Server THEN th'[Server] ELSE th[u]]
        /\ th'[Server].pc = "purge"
    BY <1>2, <2>1, <2>2 DEF Calls
  <2>5. CASE SPphones' = [SPphones EXCEPT ![s].in_use = FREE]
    <3>1. EndLast'
      BY <1>2, <2>1, <2>5, FreeOne, FreesEndLast
    <3>2. MayYetFill'
      BY <1>2, <2>1, <2>4, <2>5, FreedReclaims DEF MayYetFill
    <3>3. QED
      BY <1>4, <2>4, <3>1, <3>2 DEF Kept
  <2>6. CASE SPphones' = SPphones
    BY <1>6, <2>1, <2>4, <2>6
  <2>7. QED
    BY <2>3, <2>5, <2>6
<1>10. CASE AddFind
  <2> DEFINE same == {s \in Slots : Used(s) /\ SPphones[s].ip_addr = th[Server].ip}
             pc == IF same # {} THEN "update" ELSE "add"
             sptr == IF same # {} THEN Min(same) ELSE Start
  <2>1. /\ th' = [th EXCEPT ![Server].pc = pc, ![Server].sptr = sptr] /\ SPphones' = SPphones
        /\ th[Server].pc = "purge"
    BY <1>10 DEF AddFind, At
  <2>2. pc \in {"update", "add"}
    OBVIOUS
  <2> HIDE DEF pc, sptr
  <2>3. /\ th' = [u \in Threads |-> IF u = Server THEN th'[Server] ELSE th[u]]
        /\ th'[Server].pc = pc
    BY <1>2, <2>1 DEF Calls
  <2>4. CASE pc = "add"
    BY <1>6, <2>1, <2>3, <2>4
  <2>5. CASE pc = "update"
    <3>1. Kept'
      BY <1>2, <2>3, <2>5, KeptPending DEF PendingBy
    <3>2. EndLast'
      BY <1>2, <2>1, FreeNone, FreesEndLast
    <3>3. QED
      BY <1>4, <2>3, <2>5, <3>1, <3>2
  <2>6. QED
    BY <2>2, <2>4, <2>5
<1>11. CASE AddUpdate \/ AddNew \/ RemoveFound
  <2>1. th' = [th EXCEPT ![Server].pc = "open"]
    BY <1>11 DEF AddUpdate, AddNew, RemoveFound, Goes
  <2>2. /\ th' = [u \in Threads |-> IF u = Server THEN th'[Server] ELSE th[u]]
        /\ th'[Server].pc = "open"
    BY <1>2, <2>1 DEF Calls
  <2>3. Kept'
    BY <1>2, <2>2, KeptPending DEF PendingBy
  <2>4. EndLast'
    <3>1. CASE AddUpdate
      <4>1. th[Server].sptr \in Slots
        BY <1>2, <3>1, CallFields DEF AddUpdate, At
      <4>2. Frees
        BY <1>2, <3>1, <4>1, TypesOf DEF AddUpdate, Frees, Used, Records
      <4>3. QED
        BY <1>2, <4>2, FreesEndLast
    <3>2. CASE AddNew
      BY <1>2, <3>2, AddEndLast
    <3>3. CASE RemoveFound
      <4>1. th[Server].sptr \in Slots
        BY <1>2, <3>3, CallFields DEF RemoveFound, At
      <4>2. QED
        BY <1>2, <3>3, <4>1, FreeOne, FreesEndLast DEF RemoveFound
    <3>4. QED
      BY <1>11, <3>1, <3>2, <3>3
  <2>5. QED
    BY <1>4, <2>2, <2>3, <2>4
<1>12. CASE AddFull
  <2>1. th' = [u \in Threads |-> IF u = Server THEN th'[Server] ELSE th[u]] /\ th'[Server] = Idle
    BY <1>2, <1>12 DEF AddFull
  <2>2. ~MayYetFill
    BY <1>2, <1>12, FullNotReclaimed DEF AddFull, MayYetFill
  <2>3. SPphones' = SPphones /\ th[Server].pc = "add"
    BY <1>12 DEF AddFull, At
  <2>4. QED
    BY <1>6, <2>1, <2>2, <2>3, IdleFlags
<1>13. QED
  BY <1>7, <1>8, <1>9, <1>10, <1>11, <1>12 DEF Adding

LEMMA KeptCheck ==
  ASSUME KeptInv, SaveInv', NEW t \in StaleThreads, Checking(t) PROVE KeptInv'
<1>1. /\ system = "up" /\ system' = system /\ disk' = disk /\ unsaved' = unsaved
      /\ th[t].pc \in {"idle", "test", "remove"} /\ Mixes
  BY DEF Checking, CheckStale, StaleTest, StaleRemove, StaleEnd, At, MayBegin, Mixes
<1>2. t \in Threads /\ t # Server /\ TInv /\ EndLast /\ th \in [Threads -> Calls]
  BY <1>1, SpRecAssumption, CallFields, TypesOf DEF KeptInv, SaveInv, Threads
<1>3. mixed => mixed'
  BY <1>1 DEF Mixes, MayMix
<1>4. ASSUME th' = [u \in Threads |-> IF u = t THEN th'[t] ELSE th[u]],
             th'[t].pc # "print", SPphones' = SPphones, PendingBy(t)' \/ ~PendingBy(t)
      PROVE  KeptInv'
  <2>1. th'[Server] = th[Server]
    BY <1>2, <1>4 DEF Threads
  <2>2. Kept'
    <3>1. CASE PendingBy(t)'
      BY <1>2, <3>1, KeptPending
    <3>2. CASE ~PendingBy(t)
      BY <1>1, <1>2, <1>3, <1>4, <2>1, <3>2, KeptStays DEF MayYetFill
    <3>3. QED
      BY <1>4, <3>1, <3>2
  <2>3. EndLast'
    BY <1>2, <1>4, FreeNone, FreesEndLast
  <2>4. QED
    BY <1>1, <1>2, <1>4, <2>2, <2>3, NoSaveKept
<1>5. CASE CheckStale(t)
  <2> DEFINE c == [Idle EXCEPT !.pc = "test", !.curtime = clock]
  <2>1. /\ c.pc = "test" /\ th' = [th EXCEPT ![t] = c] /\ SPphones' = SPphones
        /\ th[t].pc = "idle"
    BY <1>5 DEF CheckStale, Idle, MayBegin
  <2> HIDE DEF c
  <2>2. th' = [u \in Threads |-> IF u = t THEN th'[t] ELSE th[u]] /\ th'[t] = c
    BY <1>2, <2>1
  <2>3. QED
    BY <1>4, <2>1, <2>2 DEF PendingBy
<1>6. CASE StaleTest(t)
  <2> DEFINE s == GetNextRecord(th[t].sptr)
             pc == IF TooOld(t, s) THEN "remove" ELSE "test"
  <2>1. /\ th' = [th EXCEPT ![t].pc = pc, ![t].sptr = s] /\ SPphones' = SPphones
        /\ th[t].pc = "test"
    BY <1>6 DEF StaleTest, At
  <2>2. pc \in {"test", "remove"}
    OBVIOUS
  <2> HIDE DEF s, pc
  <2>3. /\ th' = [u \in Threads |-> IF u = t THEN th'[t] ELSE th[u]]
        /\ th'[t].pc = pc /\ th'[t].dirty = th[t].dirty
    BY <1>2, <2>1 DEF Calls
  <2>4. PendingBy(t)' \/ ~PendingBy(t)
    BY <2>1, <2>2, <2>3 DEF PendingBy
  <2>5. QED
    BY <1>4, <2>1, <2>2, <2>3, <2>4
<1>7. CASE StaleRemove(t)
  <2>1. th' = [th EXCEPT ![t].pc = "test", ![t].dirty = TRUE]
    BY <1>7 DEF StaleRemove
  <2>2. /\ th' = [u \in Threads |-> IF u = t THEN th'[t] ELSE th[u]]
        /\ th'[t].pc = "test" /\ th'[t].dirty = TRUE
    BY <1>2, <2>1 DEF Calls
  <2>3. Kept'
    BY <1>2, <2>2, KeptPending DEF PendingBy
  <2>4. EndLast'
    BY <1>2, <1>7, CallFields, FreeOne, FreesEndLast DEF StaleRemove, At
  <2>5. QED
    BY <1>1, <1>2, <2>2, <2>3, <2>4, NoSaveKept
<1>8. CASE StaleEnd(t)
  <2> DEFINE c == [Idle EXCEPT !.pc = "open"]
  <2>1. c.pc = "open" /\ SPphones' = SPphones /\ th[t].pc = "test"
    BY <1>8 DEF StaleEnd, Idle, At
  <2> HIDE DEF c
  <2>2. th'[t] = (IF th[t].dirty THEN c ELSE Idle)
        /\ th' = [u \in Threads |-> IF u = t THEN th'[t] ELSE th[u]]
    BY <1>2, <1>8 DEF StaleEnd, c
  <2>3. th'[t].pc # "print" /\ (th[t].dirty = TRUE => th'[t].pc = "open")
    BY <2>1, <2>2, IdleFlags
  <2>4. PendingBy(t)' \/ ~PendingBy(t)
    BY <2>1, <2>3 DEF PendingBy
  <2>5. QED
    BY <1>4, <2>1, <2>2, <2>3, <2>4
<1>9. QED
  BY <1>5, <1>6, <1>7, <1>8 DEF Checking

LEMMA KeptEncode ==
  ASSUME KeptInv, SaveInv', NEW t \in Threads, Encoding(t) PROVE KeptInv'
<1>1. /\ system = "up" /\ system' = "up" /\ SPphones' = SPphones
      /\ th[t].pc \in {"open", "print"}
  BY DEF Encoding, EncodeOpen, EncodeOpenFails, EncodePrint, EncodeClose, At
<1>2. /\ TInv /\ EndLast /\ Listing(t) /\ th \in [Threads -> Calls]
      /\ AllUsed(disk.phones) /\ AllUsed(th[t].printed)
  BY <1>1, CallFields, TypesOf DEF KeptInv, SaveInv
<1>3. EndLast'
  BY <1>1, <1>2, FreeNone, FreesEndLast
<1>4. mixed' = mixed => Unmixed(t)
  BY <1>1 DEF Unmixed
<1>5. CASE EncodeOpen(t)
  <2>1. th[t].pc = "open" /\ th[t].printed = <<>>
    BY <1>2, <1>5, CallFields DEF EncodeOpen, At
  <2>2. /\ th' = [u \in Threads |-> IF u = t THEN th'[t] ELSE th[u]]
        /\ th'[t].pc = "print" /\ th'[t].sptr = Start /\ th'[t].printed = <<>>
    BY <1>2, <1>5, <2>1 DEF EncodeOpen, Calls
  <2>3. Listing(t)'
    <3>1. UsedBefore(Start + 1)' = {}
      BY SpRecAssumption DEF UsedBefore, Slots, Start
    <3>2. Rank(Start + 1)' = 0
      BY <3>1, FS_EmptySet DEF Rank
    <3>3. Len(<<>>) = 0
      OBVIOUS
    <3>4. Lists(<<>>, Start + 1)'
      BY <3>2, <3>3 DEF Lists
    <3>5. Lists(th[t].printed, th[t].sptr + 1)'
      BY <2>2, <3>4 DEF Lists, Rank, UsedBefore, Used
    <3>6. QED
      BY <3>5 DEF Listing
  <2>4. Unmixed(t)
    <3>1. ASSUME NEW u \in Threads, u # t, th[u].pc = "print", ~mixed' PROVE ~mixed
      BY <1>5, <3>1 DEF EncodeOpen
    <3>2. QED
      BY <1>1, <3>1 DEF Unmixed
  <2>5. AllUsed(disk'.phones) /\ AllUsed(th'[t].printed)
    BY <1>5, <2>2, NoneUsed DEF EncodeOpen, EmptyFile
  <2>6. Kept'
    BY <2>2 DEF Kept, Idling, Printing
  <2>7. QED
    BY <1>1, <1>3, <2>2, <2>3, <2>4, <2>5, <2>6, KeptStep
<1>6. CASE EncodeOpenFails(t)
  <2>1. th' = [u \in Threads |-> IF u = t THEN th'[t] ELSE th[u]] /\ th'[t] = Idle
    BY <1>2, <1>6 DEF EncodeOpenFails
  <2>2. Kept'
    BY <1>6 DEF EncodeOpenFails, Kept, Idling
  <2>3. QED
    BY <1>1, <1>3, <1>6, <2>1, <2>2, IdleFlags, NoSaveKept DEF EncodeOpenFails, Mixes
<1>7. CASE EncodePrint(t)
  <2> DEFINE s == GetNextRecord(th[t].sptr)
             printed == Append(th[t].printed, SPphones[s])
             comma == GetNextRecord(s) # NoRecord
             wellFormed == th[t].wellFormed /\ (th[t].printed = <<>> \/ th[t].comma)
  <2>1. /\ s \in Slots /\ s > th[t].sptr /\ Used(s) /\ th[t].sptr \in Slots \union {Start}
        /\ th[t].pc = "print"
    BY <1>2, <1>7, NextRecord, CallFields DEF EncodePrint, At
  <2>2. th[t].printed \in Seq(Records) /\ SPphones[s] \in Records
    BY <1>2, <2>1, CallFields, TypesOf
  <2>3. AllUsed(printed)
    <3>1. SPphones[s].in_use = USED
      BY <2>1 DEF Used
    <3> HIDE DEF s
    <3>2. QED
      BY <1>2, <2>2, <3>1 DEF AllUsed
  <2>4. th[t].sptr \in Int /\ s \in Int /\ \A r \in Slots : r \in Int
    BY <2>1, SpRecAssumption DEF Slots, Start
  <2>5. ASSUME NEW r \in Slots, Used(r), r < s PROVE r < th[t].sptr + 1
    <3>1. r > th[t].sptr => s <= r
      BY <1>2, <2>1, <2>5, NextRecordFirst
    <3> HIDE DEF s
    <3>2. QED
      BY <2>4, <2>5, <3>1
  <2>6. th[t].sptr + 1 \in Int /\ th[t].sptr + 1 <= s
    <3> HIDE DEF s
    <3>1. QED
      BY <2>1, <2>4
  <2>7. ~mixed => Lists(printed, s + 1)
    BY <1>2, <2>1, <2>2, <2>5, <2>6, ListsGrow DEF Listing
  <2>8. th' = [th EXCEPT ![t] = [th[t] EXCEPT !.sptr = s, !.printed = printed,
                                              !.comma = comma, !.wellFormed = wellFormed]]
    BY <1>2, <1>7 DEF EncodePrint
  <2>9. disk' = disk /\ mixed' = mixed
    BY <1>7 DEF EncodePrint
  <2> HIDE DEF s, printed, comma, wellFormed
  <2>10. /\ th' = [u \in Threads |-> IF u = t THEN th'[t] ELSE th[u]]
         /\ th'[t].pc = "print" /\ th'[t].sptr = s /\ th'[t].printed = printed
    BY <1>2, <2>1, <2>8 DEF Calls
  <2>11. Listing(t)'
    <3>1. ~mixed => Lists(th[t].printed, th[t].sptr + 1)'
      BY <1>1, <2>7, <2>10 DEF Lists, Rank, UsedBefore, Used
    <3>2. QED
      BY <2>9, <3>1 DEF Listing
  <2>12. Kept'
    BY <2>10 DEF Kept, Idling, Printing
  <2>13. QED
    BY <1>1, <1>2, <1>3, <1>4, <2>3, <2>9, <2>10, <2>11, <2>12, KeptStep
<1>8. CASE EncodeClose(t)
  <2>1. /\ th[t].pc = "print" /\ GetNextRecord(th[t].sptr) = NoRecord
        /\ disk'.phones = th[t].printed /\ th[t].printed \in Seq(Records)
        /\ th[t].sptr \in Slots \union {Start} /\ mixed' = mixed
    BY <1>2, <1>8, CallFields DEF EncodeClose, At, File
  <2>2. \A r \in Slots : Used(r) /\ r < max_SPphones => r < th[t].sptr + 1
    <3>1. ASSUME NEW r \in Slots, Used(r) PROVE ~ (r > th[t].sptr)
      BY <1>2, <2>1, <3>1, NextRecordFirst
    <3>2. QED
      BY <2>1, <3>1, SpRecAssumption DEF Slots, Start
  <2>3. th[t].sptr + 1 \in Int /\ max_SPphones \in Int /\ th[t].sptr + 1 <= max_SPphones
    BY <2>1, SpRecAssumption DEF Slots, Start
  <2>4. ~mixed => Lists(th[t].printed, max_SPphones)
    BY <1>2, <2>1, <2>2, <2>3, ListsFurther DEF Listing
  <2>5. ~mixed => Lists(disk.phones, max_SPphones)'
    BY <1>1, <2>1, <2>4 DEF Lists, Rank, UsedBefore, Used
  <2>6. Kept'
    BY <2>1, <2>5 DEF Kept, Idling
  <2>7. th' = [u \in Threads |-> IF u = t THEN th'[t] ELSE th[u]] /\ th'[t] = Idle
    BY <1>2, <1>8 DEF EncodeClose
  <2>8. AllUsed(th'[t].printed) /\ Listing(t)'
    BY <2>7, IdleFlags, IdleCall, NoneUsed DEF Listing
  <2>9. QED
    BY <1>1, <1>2, <1>3, <1>4, <2>1, <2>6, <2>7, <2>8, KeptStep
<1>9. QED
  BY <1>5, <1>6, <1>7, <1>8 DEF Encoding

\* The places 0 .. n-1.
LEMMA FirstPlaces ==
  ASSUME NEW n \in Nat, n <= max_SPphones, \A s \in Slots : Used(s) <=> s < n,
         NEW m \in Nat, m <= n
  PROVE  Rank(m) = m
<1>1. UsedBefore(m) = 0 .. m - 1
  BY SpRecAssumption DEF UsedBefore, Slots
<1>2. m - 1 \in Int /\ 0 \in Int
  OBVIOUS
<1>3. Cardinality(0 .. m - 1) = IF 0 > m - 1 THEN 0 ELSE m - 1 - 0 + 1
  BY <1>2, FS_Interval
<1>4. QED
  BY <1>1, <1>3 DEF Rank

\* A table made from a file of used records.
Restored == \E heap \in [Slots -> HeapValues] : SPphones = Booted(heap, disk.phones)

\* It has the file's records first.
LEMMA RestoredPlaces ==
  ASSUME USED \notin HeapValues, TInv, AllUsed(disk.phones), Restored
  PROVE  \A s \in Slots :
           /\ Used(s) <=> s < Len(disk.phones)
           /\ s < Len(disk.phones) => SPphones[s] = disk.phones[s + 1]
                                      /\ s + 1 \in 1 .. Len(disk.phones)
           /\ ~Used(s) => SPphones[s].in_use \in HeapValues
<1> DEFINE phones == disk.phones
           n == Len(phones)
<1>1. n \in Nat /\ n <= max_SPphones /\ phones \in Seq(Records) /\ max_SPphones \in Int
  BY SpRecAssumption DEF TInv, TypeOK
<1>2. ASSUME NEW s \in Slots PROVE IF s < n THEN SPphones[s] = phones[s + 1]
                                   ELSE SPphones[s].in_use \in HeapValues
  BY DEF Restored, Booted, Record
<1>3. ASSUME NEW s \in Slots PROVE s \in Nat /\ (s < n => s + 1 \in 1 .. n)
  BY <1>1, SpRecAssumption DEF Slots
<1> HIDE DEF n, phones
<1>4. \A i \in 1 .. n : phones[i].in_use = USED
  BY DEF AllUsed, n, phones
<1>5. ASSUME NEW s \in Slots PROVE Used(s) <=> s < n
  BY <1>2, <1>3, <1>4 DEF Used
<1>6. QED
  BY <1>2, <1>3, <1>5 DEF n, phones

LEMMA RestoredLists ==
  ASSUME USED \notin HeapValues, TInv, AllUsed(disk.phones), Restored
  PROVE  EndLast /\ Lists(disk.phones, max_SPphones)
<1> DEFINE phones == disk.phones
           n == Len(phones)
<1>1. n \in Nat /\ n <= max_SPphones /\ phones \in Seq(Records) /\ n \in Int
      /\ max_SPphones \in Int
  BY SpRecAssumption DEF TInv, TypeOK
<1>2. \A s \in Slots : /\ Used(s) <=> s < n
                       /\ s < n => SPphones[s] = phones[s + 1]
  BY RestoredPlaces
<1> HIDE DEF n, phones
<1>3. EndLast
  <2>1. ASSUME NEW k \in Slots, NEW r \in Slots, k < r, Used(r) PROVE Used(k)
    <3>1. k \in Int /\ r \in Int
      BY SpRecAssumption DEF Slots
    <3>2. QED
      BY <1>1, <1>2, <2>1, <3>1
  <2>2. QED
    BY <2>1 DEF EndLast, Used, USED, END
<1>4. ASSUME NEW m \in Nat, m <= n PROVE Rank(m) = m
  BY <1>1, <1>2, <1>4, FirstPlaces
<1>5. Rank(max_SPphones) = n
  <2>1. Rank(n) = Rank(max_SPphones)
    BY <1>1, <1>2, RankSame
  <2>2. QED
    BY <1>1, <1>4, <2>1
<1>6. ASSUME NEW i \in 1 .. n
      PROVE  \E s \in Slots : Used(s) /\ s < max_SPphones /\ Rank(s) = i - 1
                              /\ phones[i] = SPphones[s]
  <2>1. i - 1 \in Slots /\ i - 1 < n /\ i - 1 < max_SPphones /\ i - 1 \in Nat /\ i - 1 <= n
        /\ i - 1 + 1 = i
    BY <1>1, SpRecAssumption DEF Slots
  <2>2. Used(i - 1) /\ Rank(i - 1) = i - 1 /\ SPphones[i - 1] = phones[i - 1 + 1]
    BY <1>2, <1>4, <2>1
  <2>3. QED
    BY <2>1, <2>2
<1>7. QED
  BY <1>3, <1>5, <1>6 DEF Lists, n, phones

\* So has the next state.
LEMMA RestoresLists ==
  ASSUME USED \notin HeapValues
  PROVE  (TInv /\ AllUsed(disk.phones) /\ Restored
          => EndLast /\ Lists(disk.phones, max_SPphones))'
<1>1. TInv /\ AllUsed(disk.phones) /\ Restored => EndLast /\ Lists(disk.phones, max_SPphones)
  BY RestoredLists
<1>2. QED
  BY <1>1, PTL

LEMMA QuietListing == ASSUME TInv, Quiet PROVE \A t \in Threads : Listing(t) /\ AllUsed(th[t].printed)
BY CallFields, NoneUsed DEF Quiet, Listing

LEMMA QuietsListing == (TInv /\ Quiet => \A t \in Threads : Listing(t) /\ AllUsed(th[t].printed))'
<1>1. TInv /\ Quiet => \A t \in Threads : Listing(t) /\ AllUsed(th[t].printed)
  BY QuietListing
<1>2. QED
  BY <1>1, PTL

LEMMA InitKept == ASSUME USED \notin HeapValues, Init PROVE KeptInv
<1>1. SaveInv /\ TInv /\ Quiet
  BY InitSaves, IdleFlags DEF SaveInv, Init, Quiet
<1>2. disk.phones = <<>>
  BY DEF Init, NoFile
<1>3. Restored
  BY <1>2 DEF Restored, Init
<1>4. EndLast /\ Lists(disk.phones, max_SPphones)
  BY <1>1, <1>2, <1>3, NoneUsed, RestoredLists
<1>5. QED
  BY <1>1, <1>2, <1>4, NoneUsed, QuietListing DEF KeptInv, Kept

LEMMA KeptOther ==
  ASSUME USED \notin HeapValues, KeptInv, SaveInv',
         Tick \/ Stop \/ Boot \/ BootCrashes \/ UNCHANGED vars
  PROVE  KeptInv'
<1>1. CASE Tick \/ UNCHANGED vars
  <2>1. /\ SPphones' = SPphones /\ disk' = disk /\ th' = th /\ unsaved' = unsaved
        /\ system' = system /\ mixed' = mixed
    BY <1>1 DEF vars, Tick
  <2>2. ASSUME system = "up" PROVE EndLast' /\ \A t \in Threads : Listing(t)'
    <3>1. EndLast'
      BY <2>1, <2>2, FreeNone, FreesEndLast DEF KeptInv
    <3>2. ASSUME NEW t \in Threads PROVE Listing(t)'
      <4>1. Listing(t)
        BY <2>2 DEF KeptInv
      <4>2. QED
        BY <2>1, <4>1 DEF Listing, Lists, Rank, UsedBefore, Used
    <3>3. QED
      BY <3>1, <3>2
  <2>3. Kept'
    <3>1. Idling' => Idling
      BY <2>1 DEF Idling, Printing, PendingBy
    <3>2. MayYetFill => MayYetFill'
      BY <2>1 DEF MayYetFill, Reclaimed
    <3>3. Lists(disk.phones, max_SPphones) => Lists(disk.phones, max_SPphones)'
      BY <2>1 DEF Lists, Rank, UsedBefore, Used
    <3>4. QED
      BY <3>1, <3>2, <3>3 DEF KeptInv, Kept
  <2>4. AllUsed(disk.phones)' /\ \A t \in Threads : AllUsed(th[t].printed)'
    BY <2>1 DEF KeptInv, AllUsed
  <2>5. QED
    BY <2>1, <2>2, <2>3, <2>4 DEF KeptInv
<1>2. CASE Stop \/ Boot \/ BootCrashes
  <2>1. disk' = disk /\ TInv'
    BY <1>2 DEF Stop, Boot, BootCrashes, SaveInv
  <2>2. Quiet'
    <3>1. CASE Stop
      BY <3>1, IdleFlags DEF Stop, Quiet
    <3>2. CASE Boot \/ BootCrashes
      BY <3>2 DEF Boot, BootCrashes, KeptInv, SaveInv, Quiet
    <3>3. QED
      BY <1>2, <3>1, <3>2
  <2>3. AllUsed(disk.phones)' /\ \A t \in Threads : AllUsed(th[t].printed)' /\ Listing(t)'
    BY <2>1, <2>2, QuietsListing DEF KeptInv, AllUsed
  <2>4. CASE Boot
    <3>1. Restored'
      BY <2>4 DEF Boot, Booted, Restored
    <3>2. EndLast' /\ Lists(disk.phones, max_SPphones)'
      BY <2>1, <2>3, <3>1, RestoresLists
    <3>3. QED
      BY <2>3, <3>2 DEF KeptInv, Kept
  <2>5. CASE Stop \/ BootCrashes
    <3>1. system' # "up"
      BY <2>5 DEF Stop, BootCrashes
    <3>2. QED
      BY <2>3, <3>1 DEF KeptInv, Kept, Idling
  <2>6. QED
    BY <1>2, <2>4, <2>5
<1>3. QED
  BY <1>1, <1>2

LEMMA NextKept == ASSUME USED \notin HeapValues, KeptInv, [Next]_vars PROVE KeptInv'
<1>1. SaveInv'
  BY NextSaves DEF KeptInv
<1>2. QED
  BY <1>1, KeptServer, KeptCheck, KeptEncode, KeptOther DEF Next

\* However calls overlap, with a table made from a heap in which no record looks
\* used, no failed save and no save under which the table changed: whenever no
\* call is in progress the file has exactly the table's records, in the table's
\* order.
THEOREM SavedCorrect == ASSUME USED \notin HeapValues PROVE Spec => []SavedWhenQuiet
<1>1. Init => KeptInv
  BY InitKept
<1>2. KeptInv /\ [Next]_vars => KeptInv'
  BY NextKept
<1>3. KeptInv => SavedWhenQuiet
  <2>1. ASSUME KeptInv, system = "up", Quiet, ~unsaved, ~mixed PROVE disk.phones = Phones
    <3>1. Idling /\ ~MayYetFill
      BY <2>1 DEF Idling, MayYetFill, Quiet, Printing, PendingBy, Threads
    <3>2. Lists(disk.phones, max_SPphones)
      BY <2>1, <3>1 DEF KeptInv, Kept
    <3>3. disk.phones \in Seq(Records)
      BY <2>1 DEF KeptInv, SaveInv, TInv, TypeOK
    <3>4. QED
      BY <3>2, <3>3, ListsPhones
  <2>2. QED
    BY <2>1 DEF SavedWhenQuiet
<1>4. QED
  BY <1>1, <1>2, <1>3, PTL DEF Spec

-----------------------------------------------------------------------------
(* Until a call begins before another is over.                             *)

Sole(t) == \A u \in Threads : u # t => th[u].pc = "idle"

\* Then only one call is in progress at a time, and no save is mixed.
AloneInv ==
  /\ SaveInv
  /\ ~mixed
  /\ \A t \in Threads : th[t].pc # "idle" => Sole(t)

\* Who is in the middle of a call, or begins one, is alone.
LEMMA Alone ==
  ASSUME AloneInv, ~overlapped', NEW t \in Threads, th[t].pc # "idle" \/ MayOverlap
  PROVE  Sole(t)
BY DEF AloneInv, Sole, MayOverlap, Quiet

\* A thread that is alone goes on.
LEMMA AloneStep ==
  ASSUME AloneInv, SaveInv', NEW t \in Threads, Sole(t),
         th' = [u \in Threads |-> IF u = t THEN th'[t] ELSE th[u]],
         Mixes \/ (mixed' => mixed), th[t].pc # "print" \/ SPphones' = SPphones
  PROVE  AloneInv'
<1>1. ~mixed /\ (Printing => th[t].pc = "print")
  BY DEF AloneInv, Sole, Printing
<1>2. \A u \in Threads : th'[u].pc # "idle" => u = t
  BY DEF Sole
<1>3. \A u \in Threads : th'[u].pc # "idle" => Sole(u)'
  BY <1>2 DEF Sole
<1>4. ~mixed'
  BY <1>1 DEF Mixes, MayMix
<1>5. QED
  BY <1>3, <1>4 DEF AloneInv

LEMMA NextAlone == ASSUME AloneInv, ~overlapped', [Next]_vars PROVE AloneInv'
<1>1. SaveInv' /\ TInv
  BY NextSaves DEF AloneInv, SaveInv
<1>2. CASE UNCHANGED vars \/ Tick
  <2>1. th' = th /\ mixed' = mixed
    BY <1>2 DEF vars, Tick
  <2>2. QED
    BY <1>1, <2>1 DEF AloneInv, Sole
<1>3. CASE Stop \/ Boot \/ BootCrashes
  <2>1. \A t \in Threads : th'[t].pc = "idle"
    <3>1. CASE Stop
      BY <3>1, IdleFlags DEF Stop
    <3>2. CASE Boot \/ BootCrashes
      BY <3>2 DEF Boot, BootCrashes, AloneInv, SaveInv, Quiet
    <3>3. QED
      BY <1>3, <3>1, <3>2
  <2>2. ~mixed'
    BY <1>3 DEF Stop, Boot, BootCrashes, AloneInv
  <2>3. QED
    BY <1>1, <2>1, <2>2 DEF AloneInv
<1>4. ASSUME NEW ip \in IPs, NEW mac \in MACs, AddRecord(ip, mac) PROVE AloneInv'
  <2>1. MayOverlap /\ mixed' = mixed /\ SPphones' = SPphones /\ Server \in Threads
    BY <1>4 DEF AddRecord, Threads
  <2>2. th' = [u \in Threads |-> IF u = Server THEN th'[Server] ELSE th[u]]
    BY <1>1, <1>4, TypesOf DEF AddRecord
  <2>3. QED
    BY <1>1, <2>1, <2>2, Alone, AloneStep
<1>5. ASSUME NEW ip \in IPs, RemoveIP(ip) PROVE AloneInv'
  <2>1. MayOverlap /\ mixed' = mixed /\ SPphones' = SPphones /\ Server \in Threads
    BY <1>5 DEF RemoveIP, Threads
  <2>2. th' = [u \in Threads |-> IF u = Server THEN th'[Server] ELSE th[u]]
    BY <1>1, <1>5, TypesOf DEF RemoveIP
  <2>3. QED
    BY <1>1, <2>1, <2>2, Alone, AloneStep
<1>6. CASE Adding \/ RemoveFound
  <2>1. Server \in Threads /\ th[Server].pc # "idle" /\ th[Server].pc # "print" /\ Mixes
    BY <1>6 DEF Adding, AddPurge, AddFind, AddUpdate, AddNew, AddFull, RemoveFound, At, Mixes,
                Threads
  <2>2. th' = [u \in Threads |-> IF u = Server THEN th'[Server] ELSE th[u]]
    BY <1>1, <1>6, TypesOf
    DEF Adding, AddPurge, AddFind, AddUpdate, AddNew, AddFull, RemoveFound, Goes
  <2>3. QED
    BY <1>1, <2>1, <2>2, Alone, AloneStep
<1>7. ASSUME NEW t \in StaleThreads, Checking(t) PROVE AloneInv'
  <2>1. t \in Threads /\ th[t].pc # "print" /\ (th[t].pc # "idle" \/ MayOverlap) /\ Mixes
    BY <1>7 DEF Checking, CheckStale, StaleTest, StaleRemove, StaleEnd, At, MayBegin, Mixes,
                Threads
  <2>2. th' = [u \in Threads |-> IF u = t THEN th'[t] ELSE th[u]]
    BY <1>1, <1>7, TypesOf DEF Checking, CheckStale, StaleTest, StaleRemove, StaleEnd, Threads
  <2>3. QED
    BY <1>1, <2>1, <2>2, Alone, AloneStep
<1>8. ASSUME NEW t \in Threads, Encoding(t) PROVE AloneInv'
  <2>1. th[t].pc # "idle" /\ SPphones' = SPphones
    BY <1>8 DEF Encoding, EncodeOpen, EncodeOpenFails, EncodePrint, EncodeClose, At
  <2>2. th' = [u \in Threads |-> IF u = t THEN th'[t] ELSE th[u]]
    BY <1>1, <1>8, TypesOf DEF Encoding, EncodeOpen, EncodeOpenFails, EncodePrint, EncodeClose
  <2>3. mixed' => mixed
    <3>1. CASE EncodeOpen(t)
      BY <3>1 DEF EncodeOpen
    <3>2. CASE EncodeOpenFails(t) \/ EncodePrint(t) \/ EncodeClose(t)
      BY <3>2 DEF EncodeOpenFails, EncodePrint, EncodeClose
    <3>3. QED
      BY <1>8, <3>1, <3>2 DEF Encoding
  <2>4. QED
    BY <1>1, <2>1, <2>2, <2>3, Alone, AloneStep
<1>9. QED
  BY <1>2, <1>3, <1>4, <1>5, <1>6, <1>7, <1>8 DEF Next

\* The file has the table's records, or the last save has failed.
InSync == unsaved \/ Lists(disk.phones, max_SPphones)

\* The records in the file are those of a table with no address twice.
FileGood ==
  /\ AllUsed(disk.phones)
  /\ \A i, j \in 1 .. Len(disk.phones) :
       i # j => /\ disk.phones[i].mac # disk.phones[j].mac
                /\ disk.phones[i].ip_addr # disk.phones[j].ip_addr

Agree == \A r \in Slots : Used(r) => (SameMAC(r) <=> SameIP(r))

\* What a call that is alone can rely on: the record in hand is the one it has
\* looked at, and what is not saved yet will be before it is over.
CallSound(t) ==
  /\ th[t].pc \in {"purge", "update", "add", "unlist"} => t = Server
  /\ th[t].pc \in {"test", "remove"} => t # Server /\ th[t].curtime <= clock
  /\ th[t].pc \in {"purge", "add"} => InSync \/ Reclaimed
  /\ th[t].pc = "update" => Used(th[t].sptr) /\ SameIP(th[t].sptr) /\ Agree
  /\ th[t].pc = "unlist" => Used(th[t].sptr)
  /\ th[t].pc = "remove" => Used(th[t].sptr) /\ TooOld(t, th[t].sptr)
  /\ th[t].pc \in {"test", "remove"} => th[t].dirty \/ InSync
  /\ th[t].pc = "print" => disk = EmptyFile /\ Lists(th[t].printed, th[t].sptr + 1)

SerialInv ==
  /\ AloneInv
  /\ FileGood
  /\ system = "up" => Identity /\ (\A t \in Threads : CallSound(t)) /\ (Quiet => InSync)

LEMMA InSyncKept ==
  ASSUME InSync, SPphones' = SPphones, disk' = disk, unsaved' = unsaved PROVE InSync'
BY DEF InSync, Lists, Rank, UsedBefore, Used

LEMMA FileKept == ASSUME FileGood, disk' = disk PROVE FileGood'
BY DEF FileGood, AllUsed

LEMMA ReclaimedKept == ASSUME Reclaimed, SPphones' = SPphones PROVE Reclaimed'
BY DEF Reclaimed

\* A call that is alone goes on, and the others stay idle.
LEMMA SerialStep ==
  ASSUME SerialInv, AloneInv', system' = "up", Identity', FileGood', NEW t \in Threads, Sole(t),
         th' = [u \in Threads |-> IF u = t THEN th'[t] ELSE th[u]],
         CallSound(t)', th'[t].pc = "idle" => InSync'
  PROVE  SerialInv'
<1>1. ASSUME NEW u \in Threads PROVE CallSound(u)'
  <2>1. CASE u = t
    BY <2>1
  <2>2. CASE u # t
    <3>1. th'[u].pc = "idle"
      BY <2>2 DEF Sole
    <3>2. QED
      BY <3>1 DEF CallSound
  <2>3. QED
    BY <2>1, <2>2
<1>2. Quiet' => InSync'
  BY DEF Quiet
<1>3. QED
  BY <1>1, <1>2 DEF SerialInv

\* Who begins a call finds all saved.
LEMMA BeginsInSync ==
  ASSUME SerialInv, ~overlapped', system = "up", MayOverlap PROVE InSync
BY DEF SerialInv, MayOverlap

\* What a step leaves of a call when it only moves it on.
LEMMA FieldsKept ==
  ASSUME TInv, NEW t \in Threads, NEW pc, NEW sptr,
         \/ th' = [th EXCEPT ![t].pc = pc] /\ sptr = th[t].sptr
         \/ th' = [th EXCEPT ![t].sptr = sptr] /\ pc = th[t].pc
         \/ th' = [th EXCEPT ![t].pc = pc, ![t].sptr = sptr]
  PROVE  /\ th' = [u \in Threads |-> IF u = t THEN th'[t] ELSE th[u]]
         /\ th'[t].pc = pc /\ th'[t].sptr = sptr
         /\ th'[t].curtime = th[t].curtime /\ th'[t].dirty = th[t].dirty
         /\ th'[t].ip = th[t].ip /\ th'[t].mac = th[t].mac
         /\ th'[t].printed = th[t].printed
<1>1. th \in [Threads -> Calls]
  BY CallFields, TypesOf
<1>2. QED
  BY <1>1 DEF Calls

LEMMA PurgeSerial ==
  ASSUME SerialInv, AloneInv', ~overlapped', AddPurge PROVE SerialInv'
<1> DEFINE s == GetNextRecord(th[Server].sptr)
<1>1. system = "up" /\ th[Server].pc = "purge" /\ Server \in Threads
  BY DEF AddPurge, At, Threads
<1>2. Identity /\ TInv /\ TInv' /\ CallSound(Server) /\ Sole(Server)
  BY <1>1, Alone DEF SerialInv, AloneInv, SaveInv
<1>3. Identity'
  BY <1>2, PurgeIdentity
<1>4. s \in Slots /\ Used(s)
  BY <1>1, <1>2, NextRecord, CallFields DEF AddPurge
<1>5. th' = [th EXCEPT ![Server].sptr = s] /\ disk' = disk /\ unsaved' = unsaved /\ system' = "up"
  BY <1>1 DEF AddPurge
<1>6. SPphones' = [SPphones EXCEPT ![s].in_use = FREE] \/ SPphones' = SPphones
  BY DEF AddPurge
<1> HIDE DEF s
<1>7. /\ th' = [u \in Threads |-> IF u = Server THEN th'[Server] ELSE th[u]]
      /\ th'[Server].pc = "purge"
  BY <1>1, <1>2, <1>5, FieldsKept
<1>8. InSync' \/ Reclaimed'
  <2>1. CASE SPphones' = [SPphones EXCEPT ![s].in_use = FREE]
    BY <1>2, <1>4, <2>1, FreedReclaims DEF Identity
  <2>2. CASE SPphones' = SPphones
    BY <1>1, <1>2, <1>5, <2>2, InSyncKept, ReclaimedKept DEF CallSound
  <2>3. QED
    BY <1>6, <2>1, <2>2
<1>9. CallSound(Server)'
  BY <1>7, <1>8 DEF CallSound
<1>10. FileGood'
  BY <1>5, FileKept DEF SerialInv
<1>11. QED
  BY <1>1, <1>2, <1>3, <1>5, <1>7, <1>9, <1>10, SerialStep

LEMMA FindSerial ==
  ASSUME SerialInv, AloneInv', ~overlapped', AddFind PROVE SerialInv'
<1> DEFINE same == {s \in Slots : Used(s) /\ SPphones[s].ip_addr = th[Server].ip}
           pc == IF same # {} THEN "update" ELSE "add"
           sptr == IF same # {} THEN Min(same) ELSE Start
<1>1. system = "up" /\ th[Server].pc = "purge" /\ Server \in Threads
  BY DEF AddFind, At, Threads
<1>2. Identity /\ TInv /\ TInv' /\ CallSound(Server) /\ Sole(Server)
  BY <1>1, Alone DEF SerialInv, AloneInv, SaveInv
<1>3. Identity'
  BY <1>2, FindIdentity
<1>4. /\ th' = [th EXCEPT ![Server].pc = pc, ![Server].sptr = sptr]
      /\ SPphones' = SPphones /\ disk' = disk /\ unsaved' = unsaved /\ system' = "up"
  BY <1>1 DEF AddFind
<1>5. pc \in {"update", "add"}
  OBVIOUS
<1>6. pc = "update" => Used(sptr) /\ sptr \in Slots /\ SameIP(sptr)
  <2>1. same \in SUBSET Nat
    BY SpRecAssumption DEF Slots
  <2>2. same # {} => Min(same) \in same
    BY <2>1, MinOf
  <2>3. pc = "update" => sptr \in same
    BY <2>2
  <2> HIDE DEF pc, sptr
  <2>4. QED
    BY <2>3 DEF SameIP
<1>7. Agree
  <2>1. th[Server].sptr \in Slots \union {Start}
    BY <1>1, <1>2, CallFields
  <2>2. ASSUME NEW r \in Slots, Used(r) PROVE r <= th[Server].sptr
    <3>1. ~ (r > th[Server].sptr)
      BY <1>2, <2>1, <2>2, NextRecordFirst DEF Identity, AddFind
    <3>2. QED
      BY <2>1, <3>1, SpRecAssumption DEF Slots, Start
  <2>3. QED
    BY <1>1, <1>2, <2>2 DEF Agree, Identity, PassedAgree
<1> HIDE DEF pc, sptr
<1>8. /\ th' = [u \in Threads |-> IF u = Server THEN th'[Server] ELSE th[u]]
      /\ th'[Server].pc = pc /\ th'[Server].sptr = sptr
      /\ th'[Server].ip = th[Server].ip /\ th'[Server].mac = th[Server].mac
  <2>1. th \in [Threads -> Calls]
    BY <1>2, CallFields, TypesOf
  <2>2. QED
    BY <1>1, <1>4, <2>1 DEF Calls
<1>9. InSync' \/ Reclaimed'
  BY <1>1, <1>2, <1>4, InSyncKept, ReclaimedKept DEF CallSound
<1>10. /\ Agree'
       /\ pc = "update" => SPphones'[sptr].in_use = USED /\ SPphones'[sptr].ip_addr = th'[Server].ip
  BY <1>4, <1>6, <1>7, <1>8 DEF Agree, SameIP, SameMAC, Used
<1>11. CallSound(Server)'
  BY <1>5, <1>8, <1>9, <1>10 DEF CallSound, SameIP, Used
<1>12. FileGood'
  BY <1>4, FileKept DEF SerialInv
<1>13. QED
  BY <1>1, <1>2, <1>3, <1>4, <1>5, <1>8, <1>11, <1>12, SerialStep

\* The other steps of a registration, and of a removal.
LEMMA ServerSerial ==
  ASSUME SerialInv, AloneInv', ~overlapped',
         \/ \E ip \in IPs, mac \in MACs : AddRecord(ip, mac)
         \/ \E ip \in IPs : RemoveIP(ip)
         \/ AddUpdate \/ AddNew \/ AddFull \/ RemoveFound
  PROVE  SerialInv'
<1>1. /\ system = "up" /\ system' = "up" /\ disk' = disk /\ unsaved' = unsaved
      /\ th[Server].pc # "idle" \/ MayOverlap
  BY DEF AddRecord, RemoveIP, AddUpdate, AddNew, AddFull, RemoveFound, At, MayBegin
<1>2. Server \in Threads /\ Identity /\ TInv /\ TInv' /\ CallSound(Server) /\ Sole(Server)
  BY <1>1, Alone DEF SerialInv, AloneInv, SaveInv, Threads
<1>3. Identity'
  BY <1>2, ServerIdentity DEF Adding
<1>4. FileGood'
  BY <1>1, FileKept DEF SerialInv
<1>5. th \in [Threads -> Calls]
  BY <1>2, CallFields, TypesOf
<1>6. ASSUME th' = [u \in Threads |-> IF u = Server THEN th'[Server] ELSE th[u]],
             CallSound(Server)', th'[Server].pc = "idle" => InSync'
      PROVE  SerialInv'
  BY <1>1, <1>2, <1>3, <1>4, <1>6, SerialStep
<1>7. ASSUME NEW ip \in IPs, NEW mac \in MACs, AddRecord(ip, mac) PROVE SerialInv'
  <2> DEFINE c == [Idle EXCEPT !.pc = "purge", !.ip = ip, !.mac = mac]
  <2>1. c.pc = "purge" /\ th' = [th EXCEPT ![Server] = c] /\ SPphones' = SPphones
    BY <1>7 DEF AddRecord, Idle
  <2> HIDE DEF c
  <2>2. th' = [u \in Threads |-> IF u = Server THEN th'[Server] ELSE th[u]] /\ th'[Server] = c
    BY <1>2, <1>5, <2>1
  <2>3. InSync'
    BY <1>1, <1>2, <1>7, <2>1, BeginsInSync, InSyncKept DEF AddRecord
  <2>4. CallSound(Server)'
    BY <2>1, <2>2, <2>3 DEF CallSound
  <2>5. QED
    BY <1>6, <2>1, <2>2, <2>4
<1>8. ASSUME NEW ip \in IPs, RemoveIP(ip) PROVE SerialInv'
  <2> DEFINE same == {s \in Slots : Used(s) /\ SPphones[s].ip_addr = ip}
             c == [Idle EXCEPT !.pc = "unlist", !.sptr = Min(same)]
  <2>1. /\ c.pc = "unlist" /\ c.sptr = Min(same)
        /\ th' = [th EXCEPT ![Server] = c] /\ SPphones' = SPphones
    BY <1>8 DEF RemoveIP, Idle
  <2>2. same \in SUBSET Nat /\ same # {}
    <3>1. same \in SUBSET Nat
      BY SpRecAssumption DEF Slots
    <3>2. same # {}
      BY <1>8 DEF RemoveIP
    <3>3. QED
      BY <3>1, <3>2
  <2>3. Min(same) \in same
    BY <2>2, MinOf
  <2>4. Used(Min(same))
    BY <2>3
  <2> HIDE DEF c, same
  <2>5. th' = [u \in Threads |-> IF u = Server THEN th'[Server] ELSE th[u]] /\ th'[Server] = c
    BY <1>2, <1>5, <2>1
  <2>6. CallSound(Server)'
    BY <2>1, <2>4, <2>5 DEF CallSound, Used
  <2>7. QED
    BY <1>6, <2>1, <2>5, <2>6
<1>9. CASE AddUpdate \/ AddNew \/ RemoveFound
  <2>1. th' = [th EXCEPT ![Server].pc = "open"]
    BY <1>9 DEF AddUpdate, AddNew, RemoveFound, Goes
  <2>2. /\ th' = [u \in Threads |-> IF u = Server THEN th'[Server] ELSE th[u]]
        /\ th'[Server].pc = "open"
    BY <1>2, <1>5, <2>1 DEF Calls
  <2>3. CallSound(Server)'
    BY <2>2 DEF CallSound
  <2>4. QED
    BY <1>6, <2>2, <2>3
<1>10. CASE AddFull
  <2>1. th' = [u \in Threads |-> IF u = Server THEN th'[Server] ELSE th[u]] /\ th'[Server] = Idle
    BY <1>2, <1>5, <1>10 DEF AddFull
  <2>2. InSync
    BY <1>2, <1>10, FullNotReclaimed DEF AddFull, At, CallSound
  <2>3. InSync'
    BY <1>1, <1>10, <2>2, InSyncKept DEF AddFull
  <2>4. CallSound(Server)'
    BY <2>1, IdleFlags DEF CallSound
  <2>5. QED
    BY <1>6, <2>1, <2>3, <2>4
<1>11. QED
  BY <1>7, <1>8, <1>9, <1>10

LEMMA CheckSerial ==
  ASSUME SerialInv, AloneInv', ~overlapped', NEW t \in StaleThreads, Checking(t)
  PROVE  SerialInv'
<1>1. /\ system = "up" /\ system' = "up" /\ disk' = disk /\ unsaved' = unsaved /\ clock' = clock
      /\ th[t].pc # "idle" \/ MayOverlap
  BY DEF Checking, CheckStale, StaleTest, StaleRemove, StaleEnd, At, MayBegin
<1>2. /\ t \in Threads /\ t # Server
      /\ Identity /\ TInv /\ TInv' /\ CallSound(t) /\ Sole(t)
  BY <1>1, SpRecAssumption, Alone DEF SerialInv, AloneInv, SaveInv, Threads
<1>3. Identity'
  BY <1>2, CheckIdentity
<1>4. FileGood'
  BY <1>1, FileKept DEF SerialInv
<1>5. th \in [Threads -> Calls]
  BY <1>2, CallFields, TypesOf
<1>6. ASSUME th' = [u \in Threads |-> IF u = t THEN th'[t] ELSE th[u]],
             CallSound(t)', th'[t].pc = "idle" => InSync'
      PROVE  SerialInv'
  BY <1>1, <1>2, <1>3, <1>4, <1>6, SerialStep
<1>7. CASE CheckStale(t)
  <2> DEFINE c == [Idle EXCEPT !.pc = "test", !.curtime = clock]
  <2>1. c.pc = "test" /\ c.curtime = clock /\ th' = [th EXCEPT ![t] = c] /\ SPphones' = SPphones
    BY <1>7 DEF CheckStale, Idle
  <2> HIDE DEF c
  <2>2. th' = [u \in Threads |-> IF u = t THEN th'[t] ELSE th[u]] /\ th'[t] = c
    BY <1>2, <1>5, <2>1
  <2>3. InSync'
    BY <1>1, <1>2, <1>7, <2>1, BeginsInSync, InSyncKept DEF CheckStale
  <2>4. clock <= clock
    BY <1>2, TypesOf, SpRecAssumption
  <2>5. CallSound(t)'
    BY <1>1, <1>2, <2>1, <2>2, <2>3, <2>4 DEF CallSound
  <2>6. QED
    BY <1>6, <2>1, <2>2, <2>5
<1>8. CASE StaleTest(t)
  <2> DEFINE s == GetNextRecord(th[t].sptr)
             old == TooOld(t, s)
             pc == IF old THEN "remove" ELSE "test"
  <2>1. s \in Slots /\ Used(s)
    BY <1>2, <1>8, NextRecord, CallFields DEF StaleTest
  <2>2. th' = [th EXCEPT ![t].pc = pc, ![t].sptr = s] /\ SPphones' = SPphones
    BY <1>8 DEF StaleTest
  <2>3. pc \in {"test", "remove"} /\ (pc = "remove" => TooOld(t, s))
    OBVIOUS
  <2>4. th[t].pc = "test" /\ (th[t].dirty \/ InSync) /\ th[t].curtime <= clock
    BY <1>2, <1>8 DEF StaleTest, At, CallSound
  <2> HIDE DEF s, old, pc
  <2>5. /\ th' = [u \in Threads |-> IF u = t THEN th'[t] ELSE th[u]]
        /\ th'[t].pc = pc /\ th'[t].sptr = s
        /\ th'[t].curtime = th[t].curtime /\ th'[t].dirty = th[t].dirty
    BY <1>2, <1>5, <2>2 DEF Calls
  <2>6. th'[t].dirty \/ InSync'
    BY <1>1, <2>2, <2>4, <2>5, InSyncKept
  <2>7. pc = "remove" => /\ SPphones'[s].in_use = USED
                         /\ th'[t].curtime - SPphones'[s].last_seen > MAX_LAST_SEEN
    BY <2>1, <2>2, <2>3, <2>5 DEF TooOld, Used
  <2>8. CallSound(t)'
    BY <1>1, <1>2, <2>3, <2>4, <2>5, <2>6, <2>7 DEF CallSound, Used, TooOld
  <2>9. QED
    BY <1>6, <2>3, <2>5, <2>8
<1>9. CASE StaleRemove(t)
  <2>1. th' = [th EXCEPT ![t].pc = "test", ![t].dirty = TRUE]
    BY <1>9 DEF StaleRemove
  <2>2. /\ th' = [u \in Threads |-> IF u = t THEN th'[t] ELSE th[u]]
        /\ th'[t].pc = "test" /\ th'[t].dirty = TRUE /\ th'[t].curtime = th[t].curtime
    BY <1>2, <1>5, <2>1 DEF Calls
  <2>3. th[t].curtime <= clock
    BY <1>2, <1>9 DEF StaleRemove, At, CallSound
  <2>4. CallSound(t)'
    BY <1>1, <1>2, <2>2, <2>3 DEF CallSound
  <2>5. QED
    BY <1>6, <2>2, <2>4
<1>10. CASE StaleEnd(t)
  <2> DEFINE c == [Idle EXCEPT !.pc = "open"]
  <2>1. c.pc = "open" /\ SPphones' = SPphones
    BY <1>10 DEF StaleEnd, Idle
  <2> HIDE DEF c
  <2>2. th'[t] = (IF th[t].dirty THEN c ELSE Idle)
        /\ th' = [u \in Threads |-> IF u = t THEN th'[t] ELSE th[u]]
    BY <1>2, <1>5, <1>10 DEF StaleEnd, c
  <2>3. th'[t].pc \in {"idle", "open"} /\ (th'[t].pc = "idle" => ~th[t].dirty)
    BY <2>1, <2>2, IdleFlags
  <2>4. th[t].dirty \/ InSync
    BY <1>2, <1>10 DEF StaleEnd, At, CallSound
  <2>5. th'[t].pc = "idle" => InSync'
    BY <1>1, <2>1, <2>3, <2>4, InSyncKept
  <2>6. CallSound(t)'
    BY <2>3 DEF CallSound
  <2>7. QED
    BY <1>6, <2>2, <2>5, <2>6
<1>11. QED
  BY <1>7, <1>8, <1>9, <1>10 DEF Checking

\* A file with the records of a table with no address twice has none twice.
LEMMA ListsGood ==
  ASSUME Identity, NEW list \in Seq(Records), NEW n, Lists(list, n)
  PROVE  /\ AllUsed(list)
         /\ \A i, j \in 1 .. Len(list) :
              i # j => list[i].mac # list[j].mac /\ list[i].ip_addr # list[j].ip_addr
<1>1. ASSUME NEW i \in 1 .. Len(list) PROVE list[i].in_use = USED
  BY DEF Lists, Used
<1>2. ASSUME NEW i \in 1 .. Len(list), NEW j \in 1 .. Len(list), i # j
      PROVE  list[i].mac # list[j].mac /\ list[i].ip_addr # list[j].ip_addr
  <2>1. PICK r \in Slots : Used(r) /\ Rank(r) = i - 1 /\ list[i] = SPphones[r]
    BY DEF Lists
  <2>2. PICK s \in Slots : Used(s) /\ Rank(s) = j - 1 /\ list[j] = SPphones[s]
    BY DEF Lists
  <2>3. r # s
    BY <1>2, <2>1, <2>2
  <2>4. QED
    BY <2>1, <2>2, <2>3 DEF Identity, UniqueIdentity
<1>3. QED
  BY <1>1, <1>2 DEF AllUsed

LEMMA EncodeSerial ==
  ASSUME SerialInv, AloneInv', ~overlapped', NEW t \in Threads, Encoding(t)
  PROVE  SerialInv'
<1>1. /\ system = "up" /\ system' = "up" /\ SPphones' = SPphones
      /\ th[t].pc \in {"open", "print"}
  BY DEF Encoding, EncodeOpen, EncodeOpenFails, EncodePrint, EncodeClose, At
<1>2. Identity /\ TInv /\ TInv' /\ CallSound(t) /\ Sole(t)
  BY <1>1, Alone DEF SerialInv, AloneInv, SaveInv
<1>3. Identity'
  BY <1>2, EncodeIdentity
<1>4. th \in [Threads -> Calls]
  BY <1>2, CallFields, TypesOf
<1>5. ASSUME th' = [u \in Threads |-> IF u = t THEN th'[t] ELSE th[u]],
             FileGood', CallSound(t)', th'[t].pc = "idle" => InSync'
      PROVE  SerialInv'
  BY <1>1, <1>2, <1>3, <1>5, SerialStep
<1>6. \A list, n : Lists(list, n) => (Len(list) = Rank(n)' /\ \A i \in 1 .. Len(list) :
       \E s \in Slots : Used(s)' /\ s < n /\ Rank(s)' = i - 1 /\ list[i] = SPphones'[s])
  BY <1>1 DEF Lists, Rank, UsedBefore, Used
<1>7. CASE EncodeOpen(t)
  <2>1. th[t].pc = "open" /\ th[t].printed = <<>>
    BY <1>2, <1>7, CallFields DEF EncodeOpen, At
  <2>2. /\ th' = [u \in Threads |-> IF u = t THEN th'[t] ELSE th[u]]
        /\ th'[t].pc = "print" /\ th'[t].sptr = Start /\ th'[t].printed = <<>>
    BY <1>4, <1>7, <2>1 DEF EncodeOpen, Calls
  <2>3. Lists(<<>>, Start + 1)
    <3>1. UsedBefore(Start + 1) = {}
      BY SpRecAssumption DEF UsedBefore, Slots, Start
    <3>2. Rank(Start + 1) = 0
      BY <3>1, FS_EmptySet DEF Rank
    <3>3. Len(<<>>) = 0
      OBVIOUS
    <3>4. QED
      BY <3>2, <3>3 DEF Lists
  <2>4. disk' = EmptyFile
    BY <1>7 DEF EncodeOpen
  <2>5. CallSound(t)'
    BY <1>6, <2>2, <2>3, <2>4 DEF CallSound, Lists
  <2>6. FileGood'
    BY <2>4, NoneUsed DEF FileGood, EmptyFile
  <2>7. QED
    BY <1>5, <2>2, <2>5, <2>6
<1>8. CASE EncodeOpenFails(t)
  <2>1. th' = [u \in Threads |-> IF u = t THEN th'[t] ELSE th[u]] /\ th'[t] = Idle
    BY <1>4, <1>8 DEF EncodeOpenFails
  <2>2. InSync' /\ FileGood'
    BY <1>8, FileKept DEF EncodeOpenFails, InSync, SerialInv
  <2>3. CallSound(t)'
    BY <2>1, IdleFlags DEF CallSound
  <2>4. QED
    BY <1>5, <2>1, <2>2, <2>3
<1>9. CASE EncodePrint(t)
  <2> DEFINE s == GetNextRecord(th[t].sptr)
             printed == Append(th[t].printed, SPphones[s])
             comma == GetNextRecord(s) # NoRecord
             wellFormed == th[t].wellFormed /\ (th[t].printed = <<>> \/ th[t].comma)
  <2>1. /\ s \in Slots /\ s > th[t].sptr /\ Used(s) /\ th[t].sptr \in Slots \union {Start}
        /\ th[t].pc = "print"
    BY <1>2, <1>9, NextRecord, CallFields DEF EncodePrint, At
  <2>2. disk = EmptyFile /\ Lists(th[t].printed, th[t].sptr + 1)
    BY <1>2, <2>1 DEF CallSound
  <2>3. th[t].sptr \in Int /\ s \in Int /\ \A r \in Slots : r \in Int
    BY <2>1, SpRecAssumption DEF Slots, Start
  <2>4. ASSUME NEW r \in Slots, Used(r), r < s PROVE r < th[t].sptr + 1
    <3>1. r > th[t].sptr => s <= r
      BY <1>2, <2>1, <2>4, NextRecordFirst DEF Identity
    <3> HIDE DEF s
    <3>2. QED
      BY <2>3, <2>4, <3>1
  <2>5. th[t].sptr + 1 \in Int /\ th[t].sptr + 1 <= s
    <3> HIDE DEF s
    <3>1. QED
      BY <2>1, <2>3
  <2>6. th[t].printed \in Seq(Records) /\ SPphones[s] \in Records
    BY <1>2, <2>1, CallFields, TypesOf
  <2>7. Lists(printed, s + 1)
    BY <2>1, <2>2, <2>4, <2>5, <2>6, ListsGrow
  <2>8. th' = [th EXCEPT ![t] = [th[t] EXCEPT !.sptr = s, !.printed = printed,
                                              !.comma = comma, !.wellFormed = wellFormed]]
    BY <1>4, <1>9 DEF EncodePrint
  <2>9. disk' = disk
    BY <1>9 DEF EncodePrint
  <2> HIDE DEF s, printed, comma, wellFormed
  <2>10. /\ th' = [u \in Threads |-> IF u = t THEN th'[t] ELSE th[u]]
         /\ th'[t].pc = "print" /\ th'[t].sptr = s /\ th'[t].printed = printed
    BY <1>4, <2>1, <2>8 DEF Calls
  <2>11. CallSound(t)'
    BY <1>6, <2>2, <2>7, <2>9, <2>10 DEF CallSound, Lists
  <2>12. QED
    BY <1>5, <2>9, <2>10, <2>11, FileKept DEF SerialInv
<1>10. CASE EncodeClose(t)
  <2>1. /\ th[t].pc = "print" /\ GetNextRecord(th[t].sptr) = NoRecord
        /\ disk'.phones = th[t].printed /\ th[t].printed \in Seq(Records)
        /\ th[t].sptr \in Slots \union {Start}
    BY <1>2, <1>10, CallFields DEF EncodeClose, At, File
  <2>2. Lists(th[t].printed, th[t].sptr + 1)
    BY <1>2, <2>1 DEF CallSound
  <2>3. \A r \in Slots : Used(r) /\ r < max_SPphones => r < th[t].sptr + 1
    <3>1. ASSUME NEW r \in Slots, Used(r) PROVE ~ (r > th[t].sptr)
      BY <1>2, <2>1, <3>1, NextRecordFirst DEF Identity
    <3>2. QED
      BY <2>1, <3>1, SpRecAssumption DEF Slots, Start
  <2>4. th[t].sptr + 1 \in Int /\ max_SPphones \in Int /\ th[t].sptr + 1 <= max_SPphones
    BY <2>1, SpRecAssumption DEF Slots, Start
  <2>5. Lists(th[t].printed, max_SPphones)
    BY <2>2, <2>3, <2>4, ListsFurther
  <2>6. InSync'
    BY <1>6, <2>1, <2>5 DEF InSync, Lists
  <2>7. FileGood'
    BY <1>2, <2>1, <2>5, ListsGood DEF FileGood, AllUsed
  <2>8. th' = [u \in Threads |-> IF u = t THEN th'[t] ELSE th[u]] /\ th'[t] = Idle
    BY <1>4, <1>10 DEF EncodeClose
  <2>9. CallSound(t)'
    BY <2>8, IdleFlags DEF CallSound
  <2>10. QED
    BY <1>5, <2>6, <2>7, <2>8, <2>9
<1>11. QED
  BY <1>7, <1>8, <1>9, <1>10 DEF Encoding

\* A good file makes a table with no address twice.
LEMMA RestoredUnique ==
  ASSUME USED \notin HeapValues, TInv, FileGood, Restored PROVE UniqueIdentity
<1>1. ASSUME NEW r \in Slots, NEW s \in Slots, Used(r), Used(s), r # s
      PROVE  SPphones[r].mac # SPphones[s].mac /\ SPphones[r].ip_addr # SPphones[s].ip_addr
  <2>1. /\ SPphones[r] = disk.phones[r + 1] /\ SPphones[s] = disk.phones[s + 1]
        /\ r + 1 \in 1 .. Len(disk.phones) /\ s + 1 \in 1 .. Len(disk.phones)
    BY <1>1, RestoredPlaces DEF FileGood
  <2>2. r + 1 # s + 1
    BY <1>1, SpRecAssumption DEF Slots
  <2>3. QED
    BY <2>1, <2>2 DEF FileGood
<1>2. QED
  BY <1>1 DEF UniqueIdentity

LEMMA RestoresUnique ==
  ASSUME USED \notin HeapValues PROVE (TInv /\ FileGood /\ Restored => UniqueIdentity)'
<1>1. TInv /\ FileGood /\ Restored => UniqueIdentity
  BY RestoredUnique
<1>2. QED
  BY <1>1, PTL

LEMMA BootSerial ==
  ASSUME USED \notin HeapValues, SerialInv, AloneInv', Boot PROVE SerialInv'
<1>1. TInv' /\ FileGood' /\ disk' = disk /\ th' = th /\ system' = "up"
  BY FileKept DEF SerialInv, AloneInv, SaveInv, Boot
<1>2. Restored' /\ AllUsed(disk.phones)'
  BY <1>1 DEF Boot, Booted, Restored, FileGood
<1>3. EndLast' /\ UniqueIdentity' /\ Lists(disk.phones, max_SPphones)'
  BY <1>1, <1>2, RestoresLists, RestoresUnique
<1>4. \A t \in Threads : th'[t].pc = "idle"
  BY <1>1 DEF SerialInv, AloneInv, SaveInv, Boot, Quiet
<1>5. Identity' /\ \A t \in Threads : CallSound(t)'
  BY <1>1, <1>3, <1>4 DEF Identity, PassedAgree, AddedIsNew, CallSound, Threads
<1>6. InSync'
  BY <1>3 DEF InSync
<1>7. QED
  BY <1>1, <1>5, <1>6 DEF SerialInv

LEMMA InitSerial == ASSUME USED \notin HeapValues, Init PROVE SerialInv
<1>1. SaveInv /\ TInv /\ ~mixed
  BY InitSaves DEF SaveInv, Init
<1>2. disk.phones = <<>> /\ Len(disk.phones) = 0
  BY DEF Init, NoFile
<1>3. FileGood /\ Restored
  BY <1>2, NoneUsed DEF FileGood, Restored, Init
<1>4. EndLast /\ UniqueIdentity /\ Lists(disk.phones, max_SPphones)
  BY <1>1, <1>3, RestoredLists, RestoredUnique DEF FileGood
<1>5. \A t \in Threads : th[t].pc = "idle"
  BY IdleFlags DEF Init
<1>6. Identity /\ \A t \in Threads : CallSound(t)
  BY <1>1, <1>4, <1>5 DEF Identity, PassedAgree, AddedIsNew, CallSound, Threads, Init
<1>7. InSync
  BY <1>4 DEF InSync
<1>8. QED
  BY <1>1, <1>3, <1>5, <1>6, <1>7 DEF SerialInv, AloneInv

LEMMA StillSerial ==
  ASSUME SerialInv, AloneInv', UNCHANGED vars \/ Tick PROVE SerialInv'
<1>1. /\ SPphones' = SPphones /\ disk' = disk /\ th' = th /\ unsaved' = unsaved
      /\ system' = system
  BY DEF vars, Tick
<1>2. FileGood' /\ (InSync => InSync') /\ (Reclaimed => Reclaimed')
  BY <1>1, FileKept, InSyncKept, ReclaimedKept DEF SerialInv
<1>3. ASSUME system = "up" PROVE Identity'
  <2>1. Identity /\ TInv'
    BY <1>3 DEF SerialInv, AloneInv, SaveInv
  <2>2. QED
    BY <1>1, <2>1, FreeNone, FreesIdentity DEF Identity, ServerStays
<1>4. clock \in Nat /\ clock' \in Nat /\ clock <= clock'
  BY TypesOf, SpRecAssumption DEF vars, Tick, SerialInv, AloneInv, SaveInv
<1>5. ASSUME NEW t \in Threads, CallSound(t) PROVE CallSound(t)'
  <2>1. th[t].curtime \in Nat
    BY CallFields, SpRecAssumption DEF Calls, SerialInv, AloneInv, SaveInv
  <2>2. \A list, n : Lists(list, n) => (Len(list) = Rank(n)' /\ \A i \in 1 .. Len(list) :
       \E s \in Slots : Used(s)' /\ s < n /\ Rank(s)' = i - 1 /\ list[i] = SPphones'[s])
    BY <1>1 DEF Lists, Rank, UsedBefore, Used
  <2>3. th[t].curtime <= clock => th[t].curtime <= clock'
    BY <1>4, <2>1
  <2>4. Agree => Agree'
    BY <1>1 DEF Agree, SameMAC, SameIP, Used
  <2>5. th[t].pc = "print" => disk' = EmptyFile /\ Lists(th[t].printed, th[t].sptr + 1)'
    <3>1. th[t].pc = "print" => disk' = EmptyFile
      BY <1>1, <1>5 DEF CallSound
    <3>2. th[t].pc = "print" => Lists(th[t].printed, th[t].sptr + 1)
      BY <1>5 DEF CallSound
    <3>3. QED
      BY <1>1, <3>1, <3>2 DEF Lists, Rank, UsedBefore, Used
  <2>6. QED
    BY <1>1, <1>2, <1>5, <2>3, <2>4, <2>5 DEF CallSound, SameIP, TooOld, Used
<1>6. Quiet' = Quiet
  BY <1>1 DEF Quiet
<1>7. QED
  BY <1>1, <1>2, <1>3, <1>5, <1>6 DEF SerialInv

LEMMA NextSerial ==
  ASSUME ~overlapped', USED \notin HeapValues, SerialInv, [Next]_vars PROVE SerialInv'
<1>1. AloneInv'
  BY NextAlone DEF SerialInv
<1>2. CASE Stop \/ BootCrashes
  <2>1. disk' = disk /\ system' # "up"
    BY <1>2 DEF Stop, BootCrashes
  <2>2. QED
    BY <1>1, <2>1, FileKept DEF SerialInv
<1>3. QED
  BY <1>1, <1>2, PurgeSerial, FindSerial, ServerSerial, CheckSerial, EncodeSerial, BootSerial,
     StillSerial
  DEF Next, Adding

-----------------------------------------------------------------------------
(* The table implements the set of phones of PhoneBook.tla: one lemma for   *)
(* each of its steps, with what SpRec.tla's step has to show for it.        *)

\* The table, the file and whether it is whole, as PhoneBook.tla sees them.
Known == IF system = "up" THEN {Entry(SPphones[s]) : s \in {r \in Slots : Used(r)}} ELSE {}
Copied == {Entry(disk.phones[i]) : i \in DOMAIN disk.phones}
Torn == disk.text \in {"empty", "malformed"}

Doing(what) == [doing |-> what, ip |-> Garbage, mac |-> Garbage]

FileStays == Copied' = Copied /\ Torn' = Torn /\ unsaved' = unsaved
\* For how many phones there may be room.
Rooms == IF HeapValues \subseteq {FREE} THEN {max_SPphones} ELSE 0 .. max_SPphones
RoomStays == Cardinality(Usable)' = Cardinality(Usable)
UpStays == system = "up" /\ system' = "up" /\ clock' = clock /\ RoomStays

\* Nothing that a save would have to make good.
Whole == (Copied = Known /\ ~Torn) \/ unsaved

\* The instance has a Cardinality of its own.
LEMMA BookCardinality == \A S : Book!Cardinality(S) = Cardinality(S)
BY DEF Book!Cardinality, Cardinality

LEMMA ToStutter ==
  ASSUME Known' = Known, FileStays, CallInProgress' = CallInProgress, clock' = clock,
         (system = "up") <=> (system' = "up"), RoomStays, overlapped' = overlapped
  PROVE  UNCHANGED Book!vars
BY DEF Book!vars, Known, Copied, Torn, FileStays, RoomStays

LEMMA ToRegister ==
  ASSUME NEW ip \in IPs, NEW mac \in MACs, UpStays, CallInProgress = Doing("nothing"),
         CallInProgress' = [doing |-> "registering", ip |-> ip, mac |-> mac],
         Known' = Known, FileStays
  PROVE  Book!OneAtATime
<1>1. Book!Register(ip, mac)
  BY DEF Book!Register, Book!NoCall, Book!Call, Doing, Known, Copied, Torn, FileStays, UpStays, RoomStays
<1>2. QED
  BY <1>1 DEF Book!OneAtATime

LEMMA ToSupersede ==
  ASSUME NEW p \in Known, UpStays,
         CallInProgress.doing = "registering", CallInProgress' = CallInProgress,
         (p.ip = CallInProgress.ip) # (p.mac = CallInProgress.mac),
         Known' = Known \ {p}, FileStays
  PROVE  Book!OneAtATime
<1>1. Book!Supersede(p)
  BY DEF Book!Supersede, Book!SameIP, Book!SameMAC, Known, Copied, Torn, FileStays, UpStays, RoomStays
<1>2. QED
  BY <1>1 DEF Book!OneAtATime, Known

LEMMA ToRefresh ==
  ASSUME NEW p \in Known, UpStays,
         CallInProgress.doing = "registering", CallInProgress' = Doing("saving"),
         \A q \in Known : (q.ip = CallInProgress.ip) = (q.mac = CallInProgress.mac),
         p.ip = CallInProgress.ip,
         Known' = (Known \ {p}) \union {[ip |-> p.ip, mac |-> p.mac, seen |-> clock]}, FileStays
  PROVE  Book!OneAtATime
<1>1. Book!Refresh(p)
  BY DEF Book!Refresh, Book!SameIP, Book!SameMAC, Book!Phone, Book!Saving, Book!Call, Doing,
         Known, Copied, Torn, FileStays, UpStays, RoomStays
<1>2. QED
  BY <1>1 DEF Book!OneAtATime, Known

LEMMA ToLearn ==
  ASSUME UpStays,
         CallInProgress.doing = "registering", CallInProgress' = Doing("saving"),
         \A q \in Known : q.ip # CallInProgress.ip /\ q.mac # CallInProgress.mac,
         Cardinality(Known) < Cardinality(Usable),
         Known' = Known \union {[ip |-> CallInProgress.ip, mac |-> CallInProgress.mac,
                                 seen |-> clock]},
         FileStays
  PROVE  Book!OneAtATime
<1>1. Book!Unknown
  BY DEF Book!Unknown, Book!SameIP, Book!SameMAC, Known
<1>2. Book!Cardinality(Known) < Cardinality(Usable)
  BY BookCardinality
<1>3. Book!Learn
  BY <1>1, <1>2
  DEF Book!Learn, Book!Phone, Book!Saving, Book!Call, Doing, Known, Copied, Torn, FileStays, UpStays, RoomStays
<1>4. QED
  BY <1>3 DEF Book!OneAtATime

LEMMA ToRefuse ==
  ASSUME UpStays,
         CallInProgress.doing = "registering", CallInProgress' = Doing("nothing"),
         \A q \in Known : q.ip # CallInProgress.ip /\ q.mac # CallInProgress.mac,
         Cardinality(Known) = Cardinality(Usable), Whole,
         Known' = Known, FileStays
  PROVE  Book!OneAtATime
<1>1. Book!Unknown
  BY DEF Book!Unknown, Book!SameIP, Book!SameMAC, Known
<1>2. Book!Cardinality(Known) = Cardinality(Usable)
  BY BookCardinality
<1>3. Book!Refuse
  BY <1>1, <1>2
  DEF Book!Refuse, Book!NoCall, Book!Call, Book!Kept, Whole, Doing, Known, Copied, Torn,
      FileStays, UpStays, RoomStays
<1>4. QED
  BY <1>3 DEF Book!OneAtATime

LEMMA ToClean ==
  ASSUME UpStays, CallInProgress = Doing("nothing"), CallInProgress' = Doing("cleaning"),
         Known' = Known, FileStays
  PROVE  Book!OneAtATime
<1>1. Book!Clean
  BY DEF Book!Clean, Book!NoCall, Book!Cleaning, Book!Call, Doing, Known, Copied, Torn, FileStays,
         UpStays, RoomStays
<1>2. QED
  BY <1>1 DEF Book!OneAtATime

LEMMA ToExpire ==
  ASSUME NEW p \in Known, UpStays,
         CallInProgress = Doing("cleaning"), CallInProgress' = CallInProgress,
         clock - p.seen > MAX_LAST_SEEN, Known' = Known \ {p}, FileStays
  PROVE  Book!OneAtATime
<1>1. Book!Expire(p)
  BY DEF Book!Expire, Book!Cleaning, Book!Call, Doing, Known, Copied, Torn, FileStays, UpStays, RoomStays
<1>2. QED
  BY <1>1 DEF Book!OneAtATime, Known

LEMMA ToEndClean ==
  ASSUME UpStays, CallInProgress = Doing("cleaning"),
         (Whole /\ CallInProgress' = Doing("nothing")) \/ CallInProgress' = Doing("saving"),
         Known' = Known, FileStays
  PROVE  Book!OneAtATime
<1>1. Book!EndClean
  BY DEF Book!EndClean, Book!Cleaning, Book!NoCall, Book!Saving, Book!Call, Book!Kept, Whole,
         Doing, Known, Copied, Torn, FileStays, UpStays, RoomStays
<1>2. QED
  BY <1>1 DEF Book!OneAtATime

LEMMA ToRemove ==
  ASSUME NEW p \in Known, UpStays,
         CallInProgress = Doing("nothing"), CallInProgress' = Doing("saving"),
         Known' = Known \ {p}, FileStays
  PROVE  Book!OneAtATime
<1>1. Book!Remove(p)
  BY DEF Book!Remove, Book!NoCall, Book!Saving, Book!Call, Doing, Known, Copied, Torn, FileStays,
         UpStays, RoomStays
<1>2. QED
  BY <1>1 DEF Book!OneAtATime, Known

LEMMA ToBeginSave ==
  ASSUME UpStays, CallInProgress = Doing("saving"), CallInProgress' = CallInProgress, ~Torn,
         Copied' = {}, Torn' = TRUE, unsaved' = unsaved, Known' = Known
  PROVE  Book!OneAtATime
<1>1. Book!BeginSave
  BY DEF Book!BeginSave, Book!Saving, Book!Call, Doing, Known, Copied, Torn, UpStays, RoomStays
<1>2. QED
  BY <1>1 DEF Book!OneAtATime

LEMMA ToEndSave ==
  ASSUME UpStays, CallInProgress = Doing("saving"), CallInProgress' = Doing("nothing"), Torn,
         Copied' = Known, Torn' = FALSE, unsaved' = FALSE, Known' = Known
  PROVE  Book!OneAtATime
<1>1. Book!EndSave
  BY DEF Book!EndSave, Book!NoCall, Book!Saving, Book!Call, Doing, Known, Copied, Torn, UpStays, RoomStays
<1>2. QED
  BY <1>1 DEF Book!OneAtATime

LEMMA ToSaveFails ==
  ASSUME UpStays, CallInProgress = Doing("saving"), CallInProgress' = Doing("nothing"), ~Torn,
         Copied' = Copied, Torn' = Torn, unsaved' = TRUE, Known' = Known
  PROVE  Book!OneAtATime
<1>1. Book!SaveFails
  BY DEF Book!SaveFails, Book!NoCall, Book!Saving, Book!Call, Doing, Known, Copied, Torn, UpStays, RoomStays
<1>2. QED
  BY <1>1 DEF Book!OneAtATime

LEMMA ToStop ==
  ASSUME system = "up", system' # "up", clock' = clock, CallInProgress' = Doing("nothing"),
         FileStays, RoomStays
  PROVE  Book!OneAtATime
<1>1. Book!Stop
  BY DEF Book!Stop, Book!NoCall, Book!Call, Doing, Copied, Torn, FileStays, RoomStays
<1>2. QED
  BY <1>1 DEF Book!OneAtATime

LEMMA ToRestart ==
  ASSUME system # "up", system' = "up", clock' = clock, CallInProgress' = CallInProgress,
         ~Torn, Known' = Copied, Copied' = Copied, Torn' = Torn, unsaved' = FALSE,
         Cardinality(Usable)' \in Rooms, Cardinality(Copied) <= Cardinality(Usable)'
  PROVE  Book!OneAtATime
<1>1. Book!Cardinality(Copied) <= Cardinality(Usable)'
  BY BookCardinality
<1>2. Book!Restart
  BY <1>1 DEF Book!Restart, Known, Copied, Torn, Rooms
<1>3. QED
  BY <1>2 DEF Book!OneAtATime

LEMMA ToTick ==
  ASSUME system = "up", system' = "up", clock' = clock + 1, CallInProgress' = CallInProgress,
         Known' = Known, FileStays, RoomStays
  PROVE  Book!OneAtATime
<1>1. Book!Tick
  BY DEF Book!Tick, Known, Copied, Torn, FileStays, RoomStays
<1>2. QED
  BY <1>1 DEF Book!OneAtATime

InUse == {r \in Slots : Used(r)}

LEMMA KnownWhenUp == ASSUME system = "up" PROVE Known = {Entry(SPphones[s]) : s \in InUse}
BY DEF Known, InUse

LEMMA KnownSame == ASSUME SPphones' = SPphones, system' = system PROVE Known' = Known
BY DEF Known, Entry, Used

LEMMA CopiedSame ==
  ASSUME disk' = disk, unsaved' = unsaved PROVE FileStays
BY DEF FileStays, Copied, Torn, Entry

\* The entries of two records differ.
LEMMA EntriesDiffer ==
  ASSUME Identity, NEW r \in Slots, NEW s \in Slots, Used(r), Used(s),
         Entry(SPphones[r]) = Entry(SPphones[s])
  PROVE  r = s
<1>1. SPphones[r].ip_addr = SPphones[s].ip_addr
  BY DEF Entry
<1>2. QED
  BY <1>1 DEF Identity, UniqueIdentity

\* One record changes, and the entries of the others stay.
LEMMA KnownStep ==
  ASSUME Identity, system' = "up", NEW s \in Slots, NEW rec, SPphones' = [SPphones EXCEPT ![s] = rec]
  PROVE  /\ Used(s) => Entry(SPphones[s]) \in Known
         /\ rec.in_use # USED /\ Used(s) => Known' = Known \ {Entry(SPphones[s])}
         /\ rec.in_use = USED /\ Used(s) =>
              Known' = (Known \ {Entry(SPphones[s])}) \union {Entry(rec)}
         /\ rec.in_use = USED /\ ~Used(s) => Known' = Known \union {Entry(rec)}
<1>1. /\ SPphones'[s] = rec /\ \A r \in Slots : r # s => SPphones'[r] = SPphones[r]
      /\ SPphones' \in [Slots -> {SPphones'[r] : r \in Slots}]
  BY TypesOf DEF Identity
<1>2. /\ Known = {Entry(SPphones[r]) : r \in InUse}
      /\ Known' = {Entry(SPphones'[r]) : r \in InUse'}
  BY DEF Known, InUse, Entry, Used, Identity
<1>3. InUse' = IF rec.in_use = USED THEN InUse \union {s} ELSE InUse \ {s}
  BY <1>1 DEF InUse, Used
<1>4. \A r \in Slots : r # s => Entry(SPphones'[r]) = Entry(SPphones[r])
  BY <1>1
<1>5. ASSUME NEW r \in InUse, Used(s), r # s PROVE Entry(SPphones[r]) # Entry(SPphones[s])
  BY <1>5, EntriesDiffer DEF InUse
<1>6. \A r \in InUse : r \in Slots
  BY DEF InUse
<1>7. Used(s) <=> s \in InUse
  BY DEF InUse
<1> DEFINE e(r) == Entry(SPphones[r])
           e2(r) == Entry(SPphones'[r])
<1>8. /\ Known = {e(r) : r \in InUse} /\ Known' = {e2(r) : r \in InUse'} /\ e2(s) = Entry(rec)
      /\ \A r \in InUse : r # s => e2(r) = e(r)
      /\ Used(s) => \A r \in InUse : r # s => e(r) # e(s)
  BY <1>1, <1>2, <1>4, <1>5, <1>6
<1> HIDE DEF e, e2
<1>9. /\ Used(s) => e(s) \in Known
      /\ rec.in_use # USED /\ Used(s) => Known' = Known \ {e(s)}
      /\ rec.in_use = USED /\ Used(s) => Known' = (Known \ {e(s)}) \union {Entry(rec)}
      /\ rec.in_use = USED /\ ~Used(s) => Known' = Known \union {Entry(rec)}
  BY <1>3, <1>7, <1>8
<1>10. QED
  BY <1>9 DEF e

LEMMA KnownFreed ==
  ASSUME Identity, system' = "up", NEW s \in Slots, Used(s),
         SPphones' = [SPphones EXCEPT ![s].in_use = FREE]
  PROVE  Entry(SPphones[s]) \in Known /\ Known' = Known \ {Entry(SPphones[s])}
<1> DEFINE rec == [SPphones[s] EXCEPT !.in_use = FREE]
<1>1. SPphones' = [SPphones EXCEPT ![s] = rec]
  BY TypesOf DEF Identity
<1>2. rec.in_use # USED
  BY TypesOf DEF Identity, Records, FREE, USED
<1> HIDE DEF rec
<1>3. QED
  BY <1>1, <1>2, KnownStep

\* There are as many phones as used records.
LEMMA KnownCount == ASSUME Identity PROVE Cardinality(Known) = Cardinality(InUse)
<1> DEFINE f == [s \in InUse |-> Entry(SPphones[s])]
<1>1. Known = {Entry(SPphones[s]) : s \in InUse}
  BY KnownWhenUp DEF Identity
<1>2. f \in [InUse -> Known]
  BY <1>1
<1>3. \A r, s \in InUse : f[r] = f[s] => r = s
  BY EntriesDiffer DEF InUse
<1>4. \A p \in Known : \E s \in InUse : f[s] = p
  BY <1>1
<1> HIDE DEF f
<1>5. f \in Bijection(InUse, Known)
  BY <1>2, <1>3, <1>4 DEF Bijection, Injection, Surjection, IsInjective
<1>6. IsFiniteSet(InUse)
  <2>1. InUse \in SUBSET Slots
    BY DEF InUse
  <2>2. QED
    BY <2>1, SlotsFinite
<1>7. QED
  BY <1>5, <1>6, FS_Bijection DEF ExistsBijection

LEMMA RoomSame == ASSUME SPphones' = SPphones PROVE RoomStays
<1>1. Usable' = Usable
  BY DEF Usable
<1>2. QED
  BY <1>1 DEF RoomStays

\* A record that is given away or freed was usable and is.
LEMMA RoomStep ==
  ASSUME TInv, NEW s \in Slots, NEW rec, SPphones' = [SPphones EXCEPT ![s] = rec],
         SPphones[s].in_use \in {FREE, USED}, rec.in_use \in {FREE, USED}
  PROVE  RoomStays
<1>1. SPphones'[s] = rec /\ \A r \in Slots : r # s => SPphones'[r] = SPphones[r]
  BY TypesOf
<1>2. \A r \in Slots : /\ SPphones'[r].in_use \in {FREE, USED} <=> SPphones[r].in_use \in {FREE, USED}
                       /\ SPphones'[r].in_use # END <=> SPphones[r].in_use # END
  BY <1>1 DEF FREE, USED, END
<1>3. Usable' = Usable
  BY <1>2 DEF Usable
<1>4. QED
  BY <1>3 DEF RoomStays

LEMMA RoomFreed ==
  ASSUME TInv, NEW s \in Slots, Used(s), SPphones' = [SPphones EXCEPT ![s].in_use = FREE]
  PROVE  RoomStays
<1> DEFINE rec == [SPphones[s] EXCEPT !.in_use = FREE]
<1>1. SPphones' = [SPphones EXCEPT ![s] = rec]
  BY TypesOf
<1>2. rec.in_use = FREE
  BY TypesOf DEF Records
<1> HIDE DEF rec
<1>3. QED
  BY <1>1, <1>2, RoomStep DEF Used

\* The used records are among the usable ones; in a full table they are all.
LEMMA UsableRecords ==
  ASSUME EndLast
  PROVE  /\ InUse \subseteq Usable /\ Usable \subseteq Slots
         /\ ~Reclaimed => Usable = InUse
<1>1. Usable \subseteq Slots
  BY DEF Usable
<1>2. InUse \subseteq Usable
  BY DEF InUse, Usable, Used, EndLast
<1>3. ASSUME ~Reclaimed, NEW s \in Usable PROVE s \in InUse
  BY <1>3 DEF Usable, Reclaimed, InUse, Used
<1>4. QED
  BY <1>1, <1>2, <1>3

LEMMA KnownRoom ==
  ASSUME Identity PROVE Cardinality(Known) <= Cardinality(Usable)
<1>1. InUse \subseteq Usable /\ IsFiniteSet(Usable)
  BY UsableRecords, SlotsFinite DEF Identity
<1>2. Cardinality(InUse) <= Cardinality(Usable)
  BY <1>1, FS_Subset
<1>3. QED
  BY <1>2, KnownCount

LEMMA KnownsRoom == (Identity => Cardinality(Known) <= Cardinality(Usable))'
<1>1. Identity => Cardinality(Known) <= Cardinality(Usable)
  BY KnownRoom
<1>2. QED
  BY <1>1, PTL

\* A start makes room for what the heap and the file leave usable.
LEMMA RestoredRoom ==
  ASSUME USED \notin HeapValues, TInv, AllUsed(disk.phones), Restored
  PROVE  Cardinality(Usable) \in Rooms
<1>1. Usable \in SUBSET Slots
  BY DEF Usable
<1>2. Cardinality(Usable) \in Nat /\ Cardinality(Usable) <= max_SPphones
  BY <1>1, SlotsFinite
<1>3. ASSUME HeapValues \subseteq {FREE} PROVE Usable = Slots
  <2>1. \A s \in Slots : SPphones[s].in_use \in {FREE, USED}
    BY <1>3, RestoredPlaces DEF Used
  <2>2. QED
    BY <2>1 DEF Usable, FREE, USED, END
<1>4. QED
  BY <1>2, <1>3, SlotsFinite, SpRecAssumption DEF Rooms

LEMMA RestoresRoom ==
  ASSUME USED \notin HeapValues
  PROVE  (TInv /\ AllUsed(disk.phones) /\ Restored => Cardinality(Usable) \in Rooms)'
<1>1. TInv /\ AllUsed(disk.phones) /\ Restored => Cardinality(Usable) \in Rooms
  BY RestoredRoom
<1>2. QED
  BY <1>1, PTL

\* The call of the one thread that may be in one.
CallBy(t) ==
  IF th[t].pc \in {"purge", "update", "add"}
    THEN [doing |-> "registering", ip |-> th[t].ip, mac |-> th[t].mac]
  ELSE IF th[t].pc \in {"test", "remove"} THEN Doing("cleaning")
  ELSE IF th[t].pc \in {"open", "print"} THEN Doing("saving") ELSE Doing("nothing")

LEMMA SoleCall ==
  ASSUME NEW t \in Threads, Sole(t), th[t].pc \in {"purge", "update", "add", "unlist"} => t = Server
  PROVE  CallInProgress = CallBy(t)
<1>1. \A what : Some(what) <=> (th[t].pc \in what \/ (\E u \in Threads : u # t /\ "idle" \in what))
  BY DEF Some, Sole
<1>2. /\ Some({"purge", "update", "add"}) <=> th[t].pc \in {"purge", "update", "add"}
      /\ Some({"test", "remove"}) <=> th[t].pc \in {"test", "remove"}
      /\ Some({"open", "print"}) <=> th[t].pc \in {"open", "print"}
  BY <1>1
<1>3. QED
  BY <1>2 DEF CallInProgress, CallBy, Doing

LEMMA SoleCalls ==
  ASSUME NEW t \in Threads
  PROVE  (Sole(t) /\ (th[t].pc \in {"purge", "update", "add", "unlist"} => t = Server)
          => CallInProgress = CallBy(t))'
<1>1. Sole(t) /\ (th[t].pc \in {"purge", "update", "add", "unlist"} => t = Server)
      => CallInProgress = CallBy(t)
  BY SoleCall
<1>2. QED
  BY <1>1, PTL

\* Before and after a step of a thread that is alone.
LEMMA SoleCallStep ==
  ASSUME SerialInv, SerialInv', system = "up", system' = "up", NEW t \in Threads, Sole(t),
         th' = [u \in Threads |-> IF u = t THEN th'[t] ELSE th[u]]
  PROVE  CallInProgress = CallBy(t) /\ CallInProgress' = CallBy(t)'
<1>1. Sole(t)'
  BY DEF Sole
<1>2. CallSound(t) /\ CallSound(t)'
  BY DEF SerialInv
<1>3. QED
  BY <1>1, <1>2, SoleCall, SoleCalls DEF CallSound

\* A list of the table's records has the table's entries.
LEMMA ListsEntries ==
  ASSUME system = "up", NEW list \in Seq(Records), Lists(list, max_SPphones)
  PROVE  {Entry(list[i]) : i \in DOMAIN list} = Known
<1>1. Known = {Entry(SPphones[s]) : s \in InUse} /\ DOMAIN list = 1 .. Len(list)
  BY KnownWhenUp
<1>2. ASSUME NEW s \in InUse PROVE \E i \in 1 .. Len(list) : list[i] = SPphones[s]
  <2>1. s \in Slots /\ Used(s) /\ s < max_SPphones /\ max_SPphones \in Int
    BY SpRecAssumption DEF InUse, Slots
  <2>2. QED
    BY <2>1, ListsAll
<1>3. ASSUME NEW i \in 1 .. Len(list) PROVE \E s \in InUse : list[i] = SPphones[s]
  BY DEF Lists, InUse
<1>4. QED
  BY <1>1, <1>2, <1>3

LEMMA InSyncCopied == ASSUME SerialInv, system = "up", InSync PROVE Copied = Known \/ unsaved
<1>1. disk.phones \in Seq(Records)
  BY DEF SerialInv, AloneInv, SaveInv, TInv, TypeOK
<1>2. QED
  BY <1>1, ListsEntries DEF InSync, Copied

LEMMA InSyncsCopied == (SerialInv /\ system = "up" /\ InSync => Copied = Known \/ unsaved)'
<1>1. SerialInv /\ system = "up" /\ InSync => Copied = Known \/ unsaved
  BY InSyncCopied
<1>2. QED
  BY <1>1, PTL

LEMMA NotTorn ==
  ASSUME SerialInv, system = "up", NEW t \in Threads, Sole(t), th[t].pc # "print" PROVE ~Torn
<1>1. ~Printing
  BY DEF Printing, Sole
<1>2. QED
  BY <1>1 DEF SerialInv, AloneInv, SaveInv, FileSound, Torn

LEMMA WholeInSync ==
  ASSUME SerialInv, system = "up", InSync, NEW t \in Threads, Sole(t), th[t].pc # "print" PROVE Whole
BY InSyncCopied, NotTorn DEF Whole

Step == Book!OneAtATime \/ UNCHANGED Book!vars

\* The phones as a call compares them.
LEMMA KnownAddresses ==
  ASSUME Identity, CallInProgress = CallBy(Server), th[Server].pc \in {"purge", "update", "add"}
  PROVE  /\ CallInProgress.doing = "registering"
         /\ CallInProgress.ip = th[Server].ip /\ CallInProgress.mac = th[Server].mac
         /\ \A s \in Slots :
              /\ (Entry(SPphones[s]).ip = CallInProgress.ip) = SameIP(s)
              /\ (Entry(SPphones[s]).mac = CallInProgress.mac) = SameMAC(s)
BY DEF CallBy, Entry, SameIP, SameMAC

LEMMA MapBegin ==
  ASSUME SerialInv, SerialInv', ~overlapped', overlapped' = overlapped, NEW t \in Threads,
         \/ t = Server /\ \E ip \in IPs, mac \in MACs : AddRecord(ip, mac)
         \/ t = Server /\ \E ip \in IPs : RemoveIP(ip)
         \/ t \in StaleThreads /\ CheckStale(t)
  PROVE  Step
<1>1. /\ MayBegin(t) /\ th[t].pc = "idle" /\ system' = "up" /\ UpStays
      /\ SPphones' = SPphones /\ disk' = disk /\ unsaved' = unsaved
  BY RoomSame DEF AddRecord, RemoveIP, CheckStale, MayBegin, UpStays
<1>0. MayOverlap
  BY DEF AddRecord, RemoveIP, CheckStale
<1>2. Sole(t) /\ TInv /\ system = "up" /\ th \in [Threads -> ProperCalls]
  <2>1. Sole(t)
    BY <1>0, Alone DEF SerialInv
  <2>2. TInv /\ system = "up"
    BY <1>1 DEF SerialInv, AloneInv, SaveInv, MayBegin
  <2>3. QED
    BY <2>1, <2>2, TypesOf
<1>3. Known' = Known /\ FileStays
  BY <1>1, <1>2, KnownSame, CopiedSame
<1>4. ASSUME NEW c, th' = [th EXCEPT ![t] = c]
      PROVE  /\ th' = [u \in Threads |-> IF u = t THEN th'[t] ELSE th[u]] /\ th'[t] = c
             /\ CallInProgress = Doing("nothing") /\ CallInProgress' = CallBy(t)'
  <2>1. th' = [u \in Threads |-> IF u = t THEN th'[t] ELSE th[u]] /\ th'[t] = c
    BY <1>2, <1>4
  <2>2. CallInProgress = CallBy(t) /\ CallInProgress' = CallBy(t)'
    BY <1>1, <1>2, <2>1, SoleCallStep
  <2>3. QED
    BY <1>1, <2>1, <2>2 DEF CallBy
<1>5. ASSUME NEW ip \in IPs, NEW mac \in MACs, AddRecord(ip, mac), t = Server PROVE Step
  <2> DEFINE c == [Idle EXCEPT !.pc = "purge", !.ip = ip, !.mac = mac]
  <2>1. c.pc = "purge" /\ c.ip = ip /\ c.mac = mac /\ th' = [th EXCEPT ![t] = c]
    BY <1>5 DEF AddRecord, Idle
  <2> HIDE DEF c
  <2>2. CallInProgress' = [doing |-> "registering", ip |-> ip, mac |-> mac]
    BY <1>4, <2>1 DEF CallBy
  <2>3. CallInProgress = Doing("nothing")
    BY <1>4, <2>1
  <2>4. Book!OneAtATime
    BY <1>1, <1>3, <2>2, <2>3, ToRegister
  <2>5. QED
    BY <2>4 DEF Step
<1>6. ASSUME NEW ip \in IPs, RemoveIP(ip), t = Server PROVE Step
  <2> DEFINE same == {s \in Slots : Used(s) /\ SPphones[s].ip_addr = ip}
             c == [Idle EXCEPT !.pc = "unlist", !.sptr = Min(same)]
  <2>1. c.pc = "unlist" /\ th' = [th EXCEPT ![t] = c]
    BY <1>6 DEF RemoveIP, Idle
  <2> HIDE DEF c
  <2>2. CallInProgress' = Doing("nothing") /\ CallInProgress = Doing("nothing")
    BY <1>4, <2>1 DEF CallBy, Doing
  <2>3. UNCHANGED Book!vars
    BY <1>1, <1>2, <1>3, <2>2, ToStutter DEF UpStays
  <2>4. QED
    BY <2>3 DEF Step
<1>7. CASE CheckStale(t)
  <2> DEFINE c == [Idle EXCEPT !.pc = "test", !.curtime = clock]
  <2>1. c.pc = "test" /\ th' = [th EXCEPT ![t] = c]
    BY <1>7 DEF CheckStale, Idle
  <2> HIDE DEF c
  <2>2. CallInProgress' = Doing("cleaning") /\ CallInProgress = Doing("nothing")
    BY <1>4, <2>1 DEF CallBy, Doing
  <2>3. Book!OneAtATime
    BY <1>1, <1>3, <2>2, ToClean
  <2>4. QED
    BY <2>3 DEF Step
<1>8. QED
  BY <1>5, <1>6, <1>7

LEMMA MapPurge ==
  ASSUME SerialInv, SerialInv', ~overlapped', overlapped' = overlapped, AddPurge PROVE Step
<1> DEFINE s == GetNextRecord(th[Server].sptr)
<1>1. system = "up" /\ th[Server].pc = "purge" /\ Server \in Threads
  BY DEF AddPurge, At, Threads
<1>2. Identity /\ TInv /\ Sole(Server)
  BY <1>1, Alone DEF SerialInv, AloneInv, SaveInv
<1>3. s \in Slots /\ Used(s)
  BY <1>1, <1>2, NextRecord, CallFields DEF AddPurge
<1>4. /\ th' = [th EXCEPT ![Server].sptr = s] /\ disk' = disk /\ unsaved' = unsaved
      /\ system' = "up" /\ clock' = clock
  BY <1>1 DEF AddPurge
<1>5. SPphones' = IF SameMAC(s) # SameIP(s) THEN [SPphones EXCEPT ![s].in_use = FREE]
                  ELSE SPphones
  BY DEF AddPurge, SameMAC, SameIP
<1> HIDE DEF s
<1>6. /\ th' = [u \in Threads |-> IF u = Server THEN th'[Server] ELSE th[u]]
      /\ th'[Server].pc = "purge" /\ th'[Server].ip = th[Server].ip
      /\ th'[Server].mac = th[Server].mac
  BY <1>1, <1>2, <1>4, FieldsKept
<1>7. CallInProgress = CallBy(Server) /\ CallInProgress' = CallBy(Server)'
  BY <1>1, <1>2, <1>4, <1>6, SoleCallStep
<1>8. CallInProgress' = CallInProgress
  BY <1>1, <1>6, <1>7 DEF CallBy
<1>9. FileStays /\ UpStays
  BY <1>1, <1>2, <1>3, <1>4, <1>5, CopiedSame, RoomSame, RoomFreed DEF UpStays
<1>10. CASE SameMAC(s) # SameIP(s)
  <2>1. SPphones' = [SPphones EXCEPT ![s].in_use = FREE]
    BY <1>5, <1>10
  <2>2. Entry(SPphones[s]) \in Known /\ Known' = Known \ {Entry(SPphones[s])}
    BY <1>2, <1>3, <1>4, <2>1, KnownFreed
  <2>3. /\ CallInProgress.doing = "registering"
        /\ (Entry(SPphones[s]).ip = CallInProgress.ip) # (Entry(SPphones[s]).mac = CallInProgress.mac)
    BY <1>1, <1>2, <1>3, <1>7, <1>10, KnownAddresses
  <2>4. Book!OneAtATime
    BY <1>4, <1>8, <1>9, <2>2, <2>3, ToSupersede
  <2>5. QED
    BY <2>4 DEF Step
<1>11. CASE SameMAC(s) = SameIP(s)
  <2>1. Known' = Known
    BY <1>1, <1>4, <1>5, <1>11, KnownSame
  <2>2. UNCHANGED Book!vars
    BY <1>1, <1>4, <1>8, <1>9, <2>1, ToStutter DEF UpStays
  <2>3. QED
    BY <2>2 DEF Step
<1>12. QED
  BY <1>10, <1>11

LEMMA MapFind ==
  ASSUME SerialInv, SerialInv', ~overlapped', overlapped' = overlapped, AddFind PROVE Step
<1> DEFINE same == {s \in Slots : Used(s) /\ SPphones[s].ip_addr = th[Server].ip}
           pc == IF same # {} THEN "update" ELSE "add"
           sptr == IF same # {} THEN Min(same) ELSE Start
<1>1. system = "up" /\ th[Server].pc = "purge" /\ Server \in Threads
  BY DEF AddFind, At, Threads
<1>2. TInv /\ Sole(Server)
  BY <1>1, Alone DEF SerialInv, AloneInv, SaveInv
<1>3. /\ th' = [th EXCEPT ![Server].pc = pc, ![Server].sptr = sptr]
      /\ SPphones' = SPphones /\ disk' = disk /\ unsaved' = unsaved
      /\ system' = "up" /\ clock' = clock
  BY <1>1 DEF AddFind
<1>4. pc \in {"update", "add"}
  OBVIOUS
<1> HIDE DEF pc, sptr
<1>5. /\ th' = [u \in Threads |-> IF u = Server THEN th'[Server] ELSE th[u]]
      /\ th'[Server].pc = pc /\ th'[Server].ip = th[Server].ip /\ th'[Server].mac = th[Server].mac
  <2>1. th \in [Threads -> Calls]
    BY <1>2, CallFields, TypesOf
  <2>2. QED
    BY <1>1, <1>3, <2>1 DEF Calls
<1>6. CallInProgress = CallBy(Server) /\ CallInProgress' = CallBy(Server)'
  BY <1>1, <1>2, <1>3, <1>5, SoleCallStep
<1>7. CallInProgress' = CallInProgress
  BY <1>1, <1>4, <1>5, <1>6 DEF CallBy
<1>8. Known' = Known /\ FileStays
  BY <1>1, <1>3, KnownSame, CopiedSame
<1>9. UNCHANGED Book!vars
  BY <1>1, <1>3, <1>7, <1>8, RoomSame, ToStutter
<1>10. QED
  BY <1>9 DEF Step

\* No end of the array comes before the first vacant record that is free.
LEMMA NoEndBefore ==
  ASSUME Vacant # {} PROVE \A k \in Slots : k < Min(Vacant) => SPphones[k].in_use # END
<1>1. Vacant \in SUBSET Nat
  BY SpRecAssumption DEF Vacant, Slots
<1>2. PICK m : m = Min(Vacant)
  OBVIOUS
<1>3. m \in Nat /\ \A k \in Vacant : m <= k
  BY <1>1, <1>2, MinOf
<1>4. ASSUME NEW k \in Slots, k < m PROVE k \notin Vacant
  BY <1>3, <1>4, SpRecAssumption DEF Slots
<1>5. QED
  BY <1>2, <1>4 DEF Vacant

\* The steps that change a record and go on to the save.
LEMMA MapChange ==
  ASSUME SerialInv, SerialInv', ~overlapped', overlapped' = overlapped, AddUpdate \/ AddNew \/ RemoveFound
  PROVE  Step
<1>1. /\ system = "up" /\ system' = "up" /\ clock' = clock /\ disk' = disk /\ unsaved' = unsaved
      /\ Server \in Threads /\ th[Server].pc # "idle"
      /\ th' = [th EXCEPT ![Server].pc = "open"]
  BY DEF AddUpdate, AddNew, RemoveFound, At, Goes, Threads
<1>2. Identity /\ TInv /\ Sole(Server) /\ CallSound(Server)
  BY <1>1, Alone DEF SerialInv, AloneInv, SaveInv
<1>3. /\ th' = [u \in Threads |-> IF u = Server THEN th'[Server] ELSE th[u]]
      /\ th'[Server].pc = "open"
  <2>1. th \in [Threads -> Calls]
    BY <1>2, CallFields, TypesOf
  <2>2. QED
    BY <1>1, <2>1 DEF Calls
<1>4. CallInProgress = CallBy(Server) /\ CallInProgress' = Doing("saving")
  <2>1. CallInProgress = CallBy(Server) /\ CallInProgress' = CallBy(Server)'
    BY <1>1, <1>2, <1>3, SoleCallStep
  <2>2. QED
    BY <1>3, <2>1 DEF CallBy, Doing
<1>5. FileStays
  BY <1>1, CopiedSame
<1>6. Known = {Entry(SPphones[r]) : r \in InUse} /\ \A r \in InUse : r \in Slots /\ Used(r)
  BY <1>1, KnownWhenUp DEF InUse
<1>7. CASE AddUpdate
  <2> DEFINE s == th[Server].sptr
             rec == [SPphones[s] EXCEPT !.last_seen = clock]
             p == Entry(SPphones[s])
  <2>1. s \in Slots /\ Used(s) /\ SameIP(s) /\ Agree /\ th[Server].pc = "update"
    BY <1>1, <1>2, <1>7, CallFields DEF AddUpdate, At, CallSound
  <2>2. SPphones' = [SPphones EXCEPT ![s] = rec]
    BY <1>2, <1>7, TypesOf DEF AddUpdate
  <2>3. rec.in_use = USED /\ Entry(rec) = [ip |-> p.ip, mac |-> p.mac, seen |-> clock]
    BY <1>2, <2>1, TypesOf DEF Records, Entry, Used
  <2> HIDE DEF rec
  <2>4. p \in Known /\ Known' = (Known \ {p}) \union {[ip |-> p.ip, mac |-> p.mac, seen |-> clock]}
    BY <1>1, <1>2, <2>1, <2>2, <2>3, KnownStep
  <2>5. /\ CallInProgress.doing = "registering" /\ p.ip = CallInProgress.ip
        /\ \A q \in Known : (q.ip = CallInProgress.ip) = (q.mac = CallInProgress.mac)
    <3>1. /\ CallInProgress.doing = "registering"
          /\ \A r \in Slots :
               /\ (Entry(SPphones[r]).ip = CallInProgress.ip) = SameIP(r)
               /\ (Entry(SPphones[r]).mac = CallInProgress.mac) = SameMAC(r)
      BY <1>2, <1>4, <2>1, KnownAddresses
    <3>2. \A r \in InUse : SameMAC(r) = SameIP(r)
      BY <1>6, <2>1 DEF Agree, SameMAC, SameIP
    <3>3. p.ip = CallInProgress.ip
      BY <2>1, <3>1
    <3>4. \A r \in InUse : (Entry(SPphones[r]).ip = CallInProgress.ip)
                           = (Entry(SPphones[r]).mac = CallInProgress.mac)
      BY <1>6, <3>1, <3>2
    <3> HIDE DEF p
    <3>5. QED
      BY <1>6, <3>1, <3>3, <3>4
  <2> HIDE DEF p
  <2>6. UpStays
    BY <1>1, <1>2, <2>1, <2>2, <2>3, RoomStep DEF UpStays, Used
  <2>7. Book!OneAtATime
    BY <1>1, <1>4, <1>5, <2>4, <2>5, <2>6, ToRefresh
  <2>8. QED
    BY <2>7 DEF Step
<1>8. CASE AddNew
  <2> DEFINE m == Min(Vacant)
             rec == Record(USED, th[Server].mac, th[Server].ip, clock)
  <2>1. Vacant \in SUBSET Nat /\ Vacant # {}
    <3>1. Vacant \in SUBSET Nat
      BY SpRecAssumption DEF Vacant, Slots
    <3>2. QED
      BY <1>8, <3>1 DEF AddNew, Full
  <2>2. m \in Vacant
    BY <2>1, MinOf
  <2>3. m \in Slots /\ ~Used(m) /\ SPphones[m].in_use = FREE
    BY <1>8, <2>1, <2>2 DEF AddNew, Full, Vacant, Used, USED, FREE, END
  <2>4. SPphones' = [SPphones EXCEPT ![m] = rec] /\ th[Server].pc = "add"
    BY <1>8 DEF AddNew, At
  <2>5. /\ CallInProgress.doing = "registering"
        /\ CallInProgress.ip = th[Server].ip /\ CallInProgress.mac = th[Server].mac
        /\ \A q \in Known : q.ip # CallInProgress.ip /\ q.mac # CallInProgress.mac
    <3>1. /\ CallInProgress.doing = "registering"
          /\ CallInProgress.ip = th[Server].ip /\ CallInProgress.mac = th[Server].mac
          /\ \A r \in Slots :
               /\ (Entry(SPphones[r]).ip = CallInProgress.ip) = SameIP(r)
               /\ (Entry(SPphones[r]).mac = CallInProgress.mac) = SameMAC(r)
      BY <1>2, <1>4, <2>4, KnownAddresses
    <3>2. \A r \in InUse : ~SameMAC(r) /\ ~SameIP(r)
      BY <1>2, <1>6, <2>4 DEF Identity, AddedIsNew
    <3>3. QED
      BY <1>6, <3>1, <3>2
  <2>6. rec.in_use = USED
        /\ Entry(rec) = [ip |-> CallInProgress.ip, mac |-> CallInProgress.mac, seen |-> clock]
    BY <2>5 DEF Record, Entry
  <2> HIDE DEF m, rec
  <2>7. Known' = Known \union {[ip |-> CallInProgress.ip, mac |-> CallInProgress.mac,
                                seen |-> clock]}
    BY <1>1, <1>2, <2>3, <2>4, <2>6, KnownStep
  <2>8. Cardinality(Known) < Cardinality(Usable)
    <3>1. InUse \subseteq Usable /\ Usable \subseteq Slots
      BY <1>2, UsableRecords DEF Identity
    <3>2. \A k \in Slots : k < m => SPphones[k].in_use # END
      BY <2>1, NoEndBefore DEF m
    <3>3. m \in Usable
      BY <2>3, <3>2 DEF Usable
    <3>4. m \notin InUse
      BY <2>3 DEF InUse
    <3>5. IsFiniteSet(Usable)
      BY <3>1, SlotsFinite, FS_Subset
    <3>6. Cardinality(InUse) < Cardinality(Usable)
      BY <3>1, <3>3, <3>4, <3>5, FS_Subset, FS_CardinalityType
    <3>7. QED
      BY <1>2, <3>6, KnownCount
  <2>9. UpStays
    BY <1>1, <1>2, <2>3, <2>4, <2>6, RoomStep DEF UpStays
  <2>10. Book!OneAtATime
    BY <1>1, <1>4, <1>5, <2>5, <2>7, <2>8, <2>9, ToLearn
  <2>11. QED
    BY <2>10 DEF Step
<1>9. CASE RemoveFound
  <2> DEFINE s == th[Server].sptr
             p == Entry(SPphones[s])
  <2>1. s \in Slots /\ Used(s) /\ th[Server].pc = "unlist"
    BY <1>1, <1>2, <1>9, CallFields DEF RemoveFound, At, CallSound
  <2>2. p \in Known /\ Known' = Known \ {p}
    BY <1>1, <1>2, <1>9, <2>1, KnownFreed DEF RemoveFound
  <2>3. CallInProgress = Doing("nothing")
    BY <1>4, <2>1 DEF CallBy
  <2> HIDE DEF p
  <2>4. UpStays
    BY <1>1, <1>2, <1>9, <2>1, RoomFreed DEF UpStays, RemoveFound
  <2>5. Book!OneAtATime
    BY <1>1, <1>4, <1>5, <2>2, <2>3, <2>4, ToRemove
  <2>6. QED
    BY <2>5 DEF Step
<1>10. QED
  BY <1>7, <1>8, <1>9

LEMMA MapFull ==
  ASSUME SerialInv, SerialInv', ~overlapped', overlapped' = overlapped, AddFull PROVE Step
<1>1. /\ system = "up" /\ system' = "up" /\ UpStays /\ disk' = disk /\ unsaved' = unsaved
      /\ Server \in Threads /\ th[Server].pc = "add" /\ SPphones' = SPphones
      /\ th' = [th EXCEPT ![Server] = Idle] /\ Full
  BY RoomSame DEF AddFull, At, UpStays, Threads
<1>2. Identity /\ TInv /\ Sole(Server) /\ CallSound(Server)
  BY <1>1, Alone DEF SerialInv, AloneInv, SaveInv
<1>3. th' = [u \in Threads |-> IF u = Server THEN th'[Server] ELSE th[u]] /\ th'[Server] = Idle
  BY <1>1, <1>2, TypesOf
<1>4. CallInProgress = CallBy(Server) /\ CallInProgress' = Doing("nothing")
  <2>1. CallInProgress = CallBy(Server) /\ CallInProgress' = CallBy(Server)'
    BY <1>1, <1>2, <1>3, SoleCallStep
  <2>2. QED
    BY <1>3, <2>1, IdleFlags DEF CallBy, Doing
<1>5. Known' = Known /\ FileStays
  BY <1>1, KnownSame, CopiedSame
<1>6. Whole
  <2>1. InSync
    BY <1>1, <1>2, FullNotReclaimed DEF CallSound
  <2>2. QED
    BY <1>1, <1>2, <2>1, WholeInSync
<1>7. Cardinality(Known) = Cardinality(Usable)
  BY <1>1, <1>2, FullNotReclaimed, UsableRecords, KnownCount DEF Identity
<1>8. /\ CallInProgress.doing = "registering"
      /\ \A q \in Known : q.ip # CallInProgress.ip /\ q.mac # CallInProgress.mac
  <2>1. /\ CallInProgress.doing = "registering"
        /\ \A r \in Slots :
             /\ (Entry(SPphones[r]).ip = CallInProgress.ip) = SameIP(r)
             /\ (Entry(SPphones[r]).mac = CallInProgress.mac) = SameMAC(r)
    BY <1>1, <1>2, <1>4, KnownAddresses
  <2>2. \A r \in InUse : r \in Slots /\ ~SameMAC(r) /\ ~SameIP(r)
    BY <1>1, <1>2 DEF Identity, AddedIsNew, InUse
  <2>3. Known = {Entry(SPphones[r]) : r \in InUse}
    BY <1>1, KnownWhenUp
  <2>4. QED
    BY <2>1, <2>2, <2>3
<1>9. Book!OneAtATime
  BY <1>1, <1>4, <1>5, <1>6, <1>7, <1>8, ToRefuse
<1>10. QED
  BY <1>9 DEF Step

LEMMA MapCheck ==
  ASSUME SerialInv, SerialInv', ~overlapped', overlapped' = overlapped, NEW t \in StaleThreads,
         StaleTest(t) \/ StaleRemove(t) \/ StaleEnd(t)
  PROVE  Step
<1>1. /\ system = "up" /\ system' = "up" /\ disk' = disk /\ unsaved' = unsaved
      /\ clock' = clock /\ t \in Threads /\ th[t].pc \in {"test", "remove"}
  BY DEF StaleTest, StaleRemove, StaleEnd, At, Threads
<1>2. Identity /\ TInv /\ Sole(t) /\ CallSound(t)
  BY <1>1, Alone DEF SerialInv, AloneInv, SaveInv
<1>3. th \in [Threads -> Calls] /\ FileStays
  BY <1>1, <1>2, CallFields, TypesOf, CopiedSame
<1>4. ASSUME th' = [u \in Threads |-> IF u = t THEN th'[t] ELSE th[u]]
      PROVE  CallInProgress = Doing("cleaning") /\ CallInProgress' = CallBy(t)'
  <2>1. CallInProgress = CallBy(t) /\ CallInProgress' = CallBy(t)'
    BY <1>1, <1>2, <1>4, SoleCallStep
  <2>2. QED
    BY <1>1, <2>1 DEF CallBy
<1>5. CASE StaleTest(t)
  <2> DEFINE s == GetNextRecord(th[t].sptr)
             pc == IF TooOld(t, s) THEN "remove" ELSE "test"
  <2>1. th' = [th EXCEPT ![t].pc = pc, ![t].sptr = s] /\ SPphones' = SPphones
    BY <1>5 DEF StaleTest
  <2>2. pc \in {"test", "remove"}
    OBVIOUS
  <2> HIDE DEF s, pc
  <2>3. th' = [u \in Threads |-> IF u = t THEN th'[t] ELSE th[u]] /\ th'[t].pc = pc
    BY <1>1, <1>3, <2>1 DEF Calls
  <2>4. CallInProgress' = CallInProgress
    BY <1>4, <2>2, <2>3 DEF CallBy, Doing
  <2>5. Known' = Known /\ RoomStays
    BY <1>1, <2>1, KnownSame, RoomSame
  <2>6. UNCHANGED Book!vars
    BY <1>1, <1>3, <2>4, <2>5, ToStutter
  <2>7. QED
    BY <2>6 DEF Step
<1>6. CASE StaleRemove(t)
  <2> DEFINE s == th[t].sptr
             p == Entry(SPphones[s])
  <2>1. s \in Slots /\ Used(s) /\ th[t].curtime - SPphones[s].last_seen > MAX_LAST_SEEN
    BY <1>1, <1>2, <1>6, CallFields DEF StaleRemove, At, CallSound, TooOld
  <2>2. p \in Known /\ Known' = Known \ {p}
    BY <1>1, <1>2, <1>6, <2>1, KnownFreed DEF StaleRemove
  <2>3. /\ th' = [u \in Threads |-> IF u = t THEN th'[t] ELSE th[u]]
        /\ th'[t].pc = "test"
    BY <1>1, <1>3, <1>6 DEF StaleRemove, Calls
  <2>4. CallInProgress = Doing("cleaning") /\ CallInProgress' = CallInProgress
    BY <1>4, <2>3 DEF CallBy, Doing
  <2>5. clock - p.seen > MAX_LAST_SEEN
    <3>1. th[t].curtime <= clock /\ th[t].curtime \in Nat /\ clock \in Nat
      BY <1>1, <1>2, CallFields, TypesOf, SpRecAssumption DEF CallSound, Calls
    <3>2. SPphones[s].last_seen \in Nat /\ p.seen = SPphones[s].last_seen
      BY <1>2, <2>1, TypesOf, SpRecAssumption DEF Records, Entry
    <3> HIDE DEF p
    <3>3. QED
      BY <2>1, <3>1, <3>2, SpRecAssumption
  <2> HIDE DEF p
  <2>6. UpStays
    BY <1>1, <1>2, <1>6, <2>1, RoomFreed DEF UpStays, StaleRemove
  <2>7. Book!OneAtATime
    BY <1>1, <1>3, <2>2, <2>4, <2>5, <2>6, ToExpire
  <2>8. QED
    BY <2>7 DEF Step
<1>7. CASE StaleEnd(t)
  <2> DEFINE c == [Idle EXCEPT !.pc = "open"]
  <2>1. c.pc = "open" /\ SPphones' = SPphones /\ th[t].pc = "test"
    BY <1>7 DEF StaleEnd, Idle, At
  <2> HIDE DEF c
  <2>2. th'[t] = (IF th[t].dirty THEN c ELSE Idle)
        /\ th' = [u \in Threads |-> IF u = t THEN th'[t] ELSE th[u]]
    BY <1>1, <1>3, <1>7 DEF StaleEnd, c
  <2>3. CallInProgress = Doing("cleaning") /\ CallInProgress' = CallBy(t)'
    BY <1>4, <2>2
  <2>4. Known' = Known /\ UpStays
    BY <1>1, <2>1, KnownSame, RoomSame DEF UpStays
  <2>5. CASE th[t].dirty
    <3>1. CallInProgress' = Doing("saving")
      BY <2>1, <2>2, <2>3, <2>5 DEF CallBy, Doing
    <3>2. Book!OneAtATime
      BY <1>1, <1>3, <2>3, <2>4, <3>1, ToEndClean
    <3>3. QED
      BY <3>2 DEF Step
  <2>6. CASE ~th[t].dirty
    <3>1. CallInProgress' = Doing("nothing")
      BY <2>2, <2>3, <2>6, IdleFlags DEF CallBy, Doing
    <3>2. Whole
      BY <1>1, <1>2, <2>1, <2>6, WholeInSync DEF CallSound
    <3>3. Book!OneAtATime
      BY <1>1, <1>3, <2>3, <2>4, <3>1, <3>2, ToEndClean
    <3>4. QED
      BY <3>3 DEF Step
  <2>7. QED
    BY <2>5, <2>6
<1>8. QED
  BY <1>5, <1>6, <1>7

LEMMA MapEncode ==
  ASSUME SerialInv, SerialInv', ~overlapped', overlapped' = overlapped, NEW t \in Threads, Encoding(t) PROVE Step
<1>1. /\ system = "up" /\ system' = "up" /\ UpStays /\ SPphones' = SPphones
      /\ clock' = clock /\ th[t].pc \in {"open", "print"}
  BY RoomSame DEF Encoding, EncodeOpen, EncodeOpenFails, EncodePrint, EncodeClose, At, UpStays
<1>2. Identity /\ TInv /\ Sole(t) /\ CallSound(t)
  BY <1>1, Alone DEF SerialInv, AloneInv, SaveInv
<1>3. th \in [Threads -> Calls] /\ Known' = Known
  BY <1>1, <1>2, CallFields, TypesOf, KnownSame
<1>4. ASSUME th' = [u \in Threads |-> IF u = t THEN th'[t] ELSE th[u]]
      PROVE  CallInProgress = Doing("saving") /\ CallInProgress' = CallBy(t)'
  <2>1. CallInProgress = CallBy(t) /\ CallInProgress' = CallBy(t)'
    BY <1>1, <1>2, <1>4, SoleCallStep
  <2>2. QED
    BY <1>1, <2>1 DEF CallBy
<1>5. CASE EncodeOpen(t)
  <2>1. /\ th' = [u \in Threads |-> IF u = t THEN th'[t] ELSE th[u]]
        /\ th'[t].pc = "print"
    BY <1>3, <1>5 DEF EncodeOpen, Calls
  <2>2. CallInProgress = Doing("saving") /\ CallInProgress' = CallInProgress
    BY <1>4, <2>1 DEF CallBy, Doing
  <2>3. ~Torn
    BY <1>1, <1>2, <1>5, NotTorn DEF EncodeOpen, At
  <2>4. disk' = EmptyFile /\ unsaved' = unsaved
    BY <1>5 DEF EncodeOpen
  <2>5. Copied' = {} /\ Torn' = TRUE
    BY <2>4 DEF Copied, Torn, EmptyFile
  <2>6. Book!OneAtATime
    BY <1>1, <1>3, <2>2, <2>3, <2>4, <2>5, ToBeginSave
  <2>7. QED
    BY <2>6 DEF Step
<1>6. CASE EncodeOpenFails(t)
  <2>1. th' = [u \in Threads |-> IF u = t THEN th'[t] ELSE th[u]] /\ th'[t] = Idle
    BY <1>3, <1>6 DEF EncodeOpenFails
  <2>2. CallInProgress = Doing("saving") /\ CallInProgress' = Doing("nothing")
    BY <1>4, <2>1, IdleFlags DEF CallBy, Doing
  <2>3. ~Torn
    BY <1>1, <1>2, <1>6, NotTorn DEF EncodeOpenFails, At
  <2>4. unsaved' = TRUE /\ Copied' = Copied /\ Torn' = Torn
    BY <1>6 DEF EncodeOpenFails, Copied, Torn, Entry
  <2>5. Book!OneAtATime
    BY <1>1, <1>3, <2>2, <2>3, <2>4, ToSaveFails
  <2>6. QED
    BY <2>5 DEF Step
<1>7. CASE EncodePrint(t)
  <2> DEFINE s == GetNextRecord(th[t].sptr)
             printed == Append(th[t].printed, SPphones[s])
             comma == GetNextRecord(s) # NoRecord
             wellFormed == th[t].wellFormed /\ (th[t].printed = <<>> \/ th[t].comma)
  <2>1. th' = [th EXCEPT ![t] = [th[t] EXCEPT !.sptr = s, !.printed = printed,
                                              !.comma = comma, !.wellFormed = wellFormed]]
    BY <1>3, <1>7 DEF EncodePrint
  <2>2. th[t].pc = "print" /\ disk' = disk /\ unsaved' = unsaved
    BY <1>7 DEF EncodePrint, At
  <2> HIDE DEF s, printed, comma, wellFormed
  <2>3. th' = [u \in Threads |-> IF u = t THEN th'[t] ELSE th[u]] /\ th'[t].pc = "print"
    BY <1>3, <2>1, <2>2 DEF Calls
  <2>4. CallInProgress' = CallInProgress
    BY <1>4, <2>3 DEF CallBy, Doing
  <2>5. FileStays
    BY <2>2, CopiedSame
  <2>6. UNCHANGED Book!vars
    BY <1>1, <1>3, <2>4, <2>5, ToStutter DEF UpStays
  <2>7. QED
    BY <2>6 DEF Step
<1>8. CASE EncodeClose(t)
  <2>1. th' = [u \in Threads |-> IF u = t THEN th'[t] ELSE th[u]] /\ th'[t] = Idle
    BY <1>3, <1>8 DEF EncodeClose
  <2>2. CallInProgress = Doing("saving") /\ CallInProgress' = Doing("nothing")
    BY <1>4, <2>1, IdleFlags DEF CallBy, Doing
  <2>3. Torn
    BY <1>2, <1>8 DEF EncodeClose, At, CallSound, Torn, EmptyFile
  <2>4. \A u \in Threads : th'[u].pc = "idle"
    BY <1>2, <2>1, IdleFlags DEF Sole
  <2>5. Torn' = FALSE
    <3>1. ~Printing'
      BY <2>4 DEF Printing
    <3>2. QED
      BY <1>1, <3>1 DEF SerialInv, AloneInv, SaveInv, FileSound, Torn
  <2>6. unsaved' = FALSE
    BY <1>8 DEF EncodeClose
  <2>7. Copied' = Known'
    BY <1>1, <2>4, <2>6, InSyncsCopied DEF SerialInv, Quiet
  <2>8. Book!OneAtATime
    BY <1>1, <1>3, <2>2, <2>3, <2>5, <2>6, <2>7, ToEndSave
  <2>9. QED
    BY <2>8 DEF Step
<1>9. QED
  BY <1>5, <1>6, <1>7, <1>8 DEF Encoding

LEMMA MapOther ==
  ASSUME USED \notin HeapValues, SerialInv, SerialInv', overlapped' = overlapped,
         Tick \/ Stop \/ Boot \/ BootCrashes \/ UNCHANGED vars PROVE Step
<1>1. CASE Tick
  <2>1. /\ system = "up" /\ system' = system /\ clock' = clock + 1 /\ th' = th
        /\ SPphones' = SPphones /\ disk' = disk /\ unsaved' = unsaved
    BY <1>1 DEF Tick
  <2>2. CallInProgress' = CallInProgress
    BY <2>1 DEF CallInProgress, Some
  <2>3. Book!OneAtATime
    BY <2>1, <2>2, KnownSame, CopiedSame, RoomSame, ToTick
  <2>4. QED
    BY <2>3 DEF Step
<1>2. CASE Stop
  <2>1. /\ system = "up" /\ system' = "down" /\ clock' = clock /\ disk' = disk
        /\ unsaved' = unsaved /\ SPphones' = SPphones /\ \A t \in Threads : th'[t].pc = "idle"
    BY <1>2, IdleFlags DEF Stop
  <2>2. CallInProgress' = Doing("nothing")
    BY <2>1 DEF CallInProgress, Some, Doing
  <2>3. Book!OneAtATime
    BY <2>1, <2>2, CopiedSame, RoomSame, ToStop
  <2>4. QED
    BY <2>3 DEF Step
<1>3. CASE Boot
  <2>1. /\ system = "down" /\ system' = "up" /\ clock' = clock /\ disk' = disk /\ th' = th
        /\ unsaved' = FALSE /\ ~Torn
    BY <1>3 DEF Boot, Torn
  <2>2. CallInProgress' = CallInProgress /\ Copied' = Copied /\ Torn' = Torn
    BY <2>1 DEF CallInProgress, Some, Copied, Torn, Entry
  <2>3. Quiet'
    BY <2>1 DEF SerialInv, AloneInv, SaveInv, Quiet
  <2>4. Known' = Copied'
    BY <2>1, <2>3, InSyncsCopied DEF SerialInv
  <2>5. Identity' /\ TInv' /\ AllUsed(disk.phones)' /\ Restored'
    BY <1>3, <2>1 DEF SerialInv, Identity, FileGood, Boot, Booted, Restored
  <2>6. Cardinality(Usable)' \in Rooms
    BY <2>5, RestoresRoom
  <2>7. Cardinality(Copied) <= Cardinality(Usable)'
    <3>1. Cardinality(Known)' <= Cardinality(Usable)'
      BY <2>5, KnownsRoom
    <3>2. Cardinality(Known)' = Cardinality(Copied)
      BY <2>2, <2>4
    <3>3. QED
      BY <3>1, <3>2
  <2>8. Known' = Copied
    BY <2>2, <2>4
  <2>9. Book!OneAtATime
    BY <2>1, <2>2, <2>6, <2>7, <2>8, ToRestart
  <2>10. QED
    BY <2>9 DEF Step
<1>4. CASE BootCrashes
  <2>1. /\ system # "up" /\ system' # "up" /\ clock' = clock /\ disk' = disk /\ th' = th
        /\ unsaved' = unsaved /\ SPphones' = SPphones
    BY <1>4 DEF BootCrashes
  <2>2. CallInProgress' = CallInProgress /\ Known' = Known
    BY <2>1 DEF CallInProgress, Some, Known
  <2>3. UNCHANGED Book!vars
    BY <2>1, <2>2, CopiedSame, RoomSame, ToStutter
  <2>4. QED
    BY <2>3 DEF Step
<1>5. CASE UNCHANGED vars
  <2>1. CallInProgress' = CallInProgress
    BY <1>5 DEF CallInProgress, Some, vars
  <2>2. UNCHANGED Book!vars
    BY <1>5, <2>1, KnownSame, CopiedSame, RoomSame, ToStutter DEF vars
  <2>3. QED
    BY <2>2 DEF Step
<1>6. QED
  BY <1>1, <1>2, <1>3, <1>4, <1>5

LEMMA MapNext ==
  ASSUME ~overlapped', overlapped' = overlapped, USED \notin HeapValues, SerialInv, SerialInv',
         [Next]_vars
  PROVE  Step
<1>1. Server \in Threads /\ StaleThreads \subseteq Threads
  BY DEF Threads
<1>2. ASSUME NEW ip \in IPs, NEW mac \in MACs, AddRecord(ip, mac) PROVE Step
  BY <1>1, <1>2, MapBegin
<1>3. ASSUME NEW ip \in IPs, RemoveIP(ip) PROVE Step
  BY <1>1, <1>3, MapBegin
<1>4. ASSUME NEW t \in StaleThreads, Checking(t) PROVE Step
  BY <1>1, <1>4, MapBegin, MapCheck DEF Checking
<1>5. CASE Adding \/ RemoveFound
  BY <1>5, MapPurge, MapFind, MapChange, MapFull DEF Adding
<1>6. QED
  BY <1>2, <1>3, <1>4, <1>5, MapEncode, MapOther DEF Next

LEMMA MapInit == ASSUME USED \notin HeapValues, Init PROVE Book!Init
<1>1. /\ SerialInv /\ system = "up" /\ unsaved = FALSE /\ clock = 0 /\ disk = NoFile
      /\ overlapped = FALSE /\ \A t \in Threads : th[t].pc = "idle"
  BY InitSerial, IdleFlags DEF Init
<1>2. CallInProgress = Doing("nothing")
  BY <1>1 DEF CallInProgress, Some, Doing
<1>3. Copied = {} /\ ~Torn
  BY <1>1 DEF Copied, Torn, NoFile
<1>4. Known = {}
  BY <1>1, <1>3, InSyncCopied DEF SerialInv, Quiet
<1>5. Cardinality(Usable) \in Rooms
  <2>1. TInv /\ AllUsed(disk.phones) /\ Restored
    BY <1>1, NoneUsed DEF SerialInv, Identity, Restored, Init, NoFile
  <2>2. QED
    BY <2>1, RestoredRoom
<1>6. QED
  BY <1>1, <1>2, <1>3, <1>4, <1>5
  DEF Book!Init, Book!NoCall, Book!Call, Doing, Known, Copied, Torn, Rooms

\* Nothing undoes an overlap.
LEMMA OverlapStays ==
  ASSUME TInv, TInv', [Next]_vars, ~overlapped' PROVE ~overlapped /\ overlapped' = overlapped
<1> DEFINE Sticks == overlapped' = overlapped \/ MayOverlap
<1>1. Sticks
  <2>1. CASE UNCHANGED vars \/ Tick \/ Stop \/ Boot \/ BootCrashes
    BY <2>1 DEF vars, Tick, Stop, Boot, BootCrashes
  <2>2. ASSUME NEW ip \in IPs, NEW mac \in MACs, AddRecord(ip, mac) PROVE Sticks
    BY <2>2 DEF AddRecord
  <2>3. ASSUME NEW ip \in IPs, RemoveIP(ip) PROVE Sticks
    BY <2>3 DEF RemoveIP
  <2>4. CASE Adding \/ RemoveFound
    BY <2>4 DEF Adding, AddPurge, AddFind, AddUpdate, AddNew, AddFull, RemoveFound
  <2>5. ASSUME NEW t \in StaleThreads, Checking(t) PROVE Sticks
    BY <2>5 DEF Checking, CheckStale, StaleTest, StaleRemove, StaleEnd
  <2>6. ASSUME NEW t \in Threads, Encoding(t) PROVE Sticks
    BY <2>6 DEF Encoding, EncodeOpen, EncodeOpenFails, EncodePrint, EncodeClose
  <2>7. QED
    BY <2>1, <2>2, <2>3, <2>4, <2>5, <2>6 DEF Next
<1>2. ~overlapped
  BY <1>1 DEF MayOverlap
<1>3. overlapped \in BOOLEAN /\ overlapped' \in BOOLEAN
  BY TypesOf DEF HistoryOK, TInv, TypeOK
<1>4. QED
  BY <1>2, <1>3

\* What holds until the first overlap, and only then.
BookInv == TInv /\ (~overlapped => SerialInv)

LEMMA NextBook ==
  ASSUME USED \notin HeapValues, BookInv, [Next]_vars
  PROVE  BookInv' /\ (Book!Next \/ UNCHANGED Book!vars)
<1>1. TInv /\ TInv'
  BY NextTInv DEF BookInv
<1>2. CASE ~overlapped'
  <2>1. SerialInv /\ overlapped' = overlapped
    BY <1>1, <1>2, OverlapStays DEF BookInv
  <2>2. SerialInv'
    BY <1>2, <2>1, NextSerial
  <2>3. Step
    BY <1>2, <2>1, <2>2, MapNext
  <2>4. QED
    BY <1>1, <2>1, <2>2, <2>3 DEF BookInv, Step, Book!Next
<1>3. CASE overlapped'
  <2>1. overlapped' = TRUE
    BY <1>1, <1>3 DEF TInv, TypeOK, HistoryOK
  <2>2. Book!GoesAstray
    BY <2>1 DEF Book!GoesAstray
  <2>3. QED
    BY <1>1, <1>3, <2>2 DEF BookInv, Book!Next
<1>4. QED
  BY <1>2, <1>3

\* The table, its file and the calls implement the set of phones of
\* PhoneBook.tla, which promises nothing any more once a call has begun before
\* another was over.  This holds for any size of the table, any phones and
\* threads, whether calls may overlap or not, with stops, restarts and failing
\* saves, and whatever malloc leaves in memory except a record that reads as
\* used: a registration removes what contradicts it and nothing else, only what
\* is too old expires, a phone is refused only when there is no room, and a start
\* has what was saved.
THEOREM Refinement == ASSUME USED \notin HeapValues PROVE Spec => ImplementsPhoneBook
<1>1. Init => BookInv /\ Book!Init
  BY InitTInv, InitSerial, MapInit DEF BookInv
<1>2. BookInv /\ [Next]_vars => BookInv'
  BY NextBook
<1>3. BookInv /\ [Next]_vars => [Book!Next]_(Book!vars)
  BY NextBook
<1>4. QED
  BY <1>1, <1>2, <1>3, PTL DEF Spec, ImplementsPhoneBook, Book!Spec
=============================================================================
