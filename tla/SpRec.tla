------------------------------- MODULE SpRec -------------------------------
(***************************************************************************)
(* spRec.c: the table of phone records and the file it is saved to.        *)
(*                                                                         *)
(* The table is a global array with no lock.  The web server's thread adds *)
(* records; a thread per _main_thread started (startup.c:100 and :130, so  *)
(* two of them in a plug-in) removes those not seen for long; both save    *)
(* the whole table afterwards.  A call is a sequence of steps, each about  *)
(* one record: what it has found out about a record may be out of date     *)
(* when it acts on it.                                                     *)
(*                                                                         *)
(* The file is what a later _spRec_ParseFile makes of it.  fopen( "w" )    *)
(* empties it, and stdio writes the text at fclose, as a table below       *)
(* stdio's buffer size has it.                                             *)
(***************************************************************************)
EXTENDS Integers, Sequences, FiniteSets, FiniteSetsExt

CONSTANTS
  max_SPphones,     \* records in the table ("phones/max_phones")
  MAX_LAST_SEEN,    \* "phones/max_last_seen"
  IPs, MACs,        \* addresses phones register with
  Garbage,          \* what malloc leaves in a field nobody has written
  HeapValues,       \* what malloc may leave in in_use
  Server,           \* the web server's thread
  StaleThreads,     \* the threads that run _main_thread
  Overlap,          \* may calls of two threads overlap?  In the program, yes
  DiskFaults,       \* may fopen fail?
  CrashPoints,      \* when the program may stop: "never", "quiet" or "anytime"
  MaxTime           \* bound: the clock stops here

Threads == StaleThreads \union {Server}

ASSUME SpRecAssumption ==
  /\ max_SPphones \in Nat \ {0}
  /\ MAX_LAST_SEEN \in Nat
  /\ MaxTime \in Nat
  /\ Garbage \notin IPs \union MACs
  /\ HeapValues \subseteq Int
  /\ Server \notin StaleThreads
  /\ Overlap \in BOOLEAN
  /\ DiskFaults \in BOOLEAN
  /\ CrashPoints \in {"never", "quiet", "anytime"}

VARIABLES
  SPphones,         \* [Slots -> record]; the sentinel after them never changes
  disk,             \* the file: whether it parses, and the records in it
  th,               \* [Threads -> where it is, and its local variables]
  clock,            \* time( NULL )
  system,           \* "up", "down", or "dead" once a start has crashed
  unsaved,          \* history: has fopen failed, and no save come after it?
  mixed,            \* history: has the table changed under a save in progress?
  overlapped        \* history: has a call begun before another was over?

vars == <<SPphones, disk, th, clock, system, unsaved, mixed, overlapped>>

-----------------------------------------------------------------------------
Slots == 0 .. max_SPphones - 1
Start == -1                       \* sptr = NULL: start at the beginning
NoRecord == max_SPphones          \* GetNextRecord returned NULL

\* in_use of a record: free, used, or the end of the array.
FREE == 0
USED == 1
END == -1

Record(in_use, mac, ip, seen) ==
  [in_use |-> in_use, mac |-> mac, ip_addr |-> ip, last_seen |-> seen]

Used(s) == SPphones[s].in_use = USED

\* spRec_GetNextRecord: the next used record before the end of the array.
GetNextRecord(s) ==
  LET ahead == {j \in Slots : j > s /\ Used(j)
                              /\ \A k \in Slots : s < k /\ k < j => SPphones[k].in_use # END}
  IN  IF ahead = {} THEN NoRecord ELSE Min(ahead)

\* The used records, in the order of the table.
Phones ==
  LET used == {s \in Slots : Used(s)}
      nth(i) == CHOOSE s \in used : Cardinality({r \in used : r < s}) = i - 1
  IN  [i \in 1 .. Cardinality(used) |-> SPphones[nth(i)]]

NoFile == [text |-> "missing", phones |-> <<>>]
EmptyFile == [text |-> "empty", phones |-> <<>>]
File(wellFormed, phones) ==
  [text |-> IF wellFormed THEN "json" ELSE "malformed", phones |-> phones]

(***************************************************************************)
(* The locals of a call: pc, the record in hand (sptr), the time read, the *)
(* dirty flag, the arguments of spRec_AddRecord, and of a save the records *)
(* printed so far, whether a comma followed the last one and whether the   *)
(* text is well formed up to here.                                         *)
(***************************************************************************)
Idle ==
  [pc |-> "idle", sptr |-> Start, curtime |-> 0, dirty |-> FALSE,
   ip |-> Garbage, mac |-> Garbage,
   printed |-> <<>>, comma |-> FALSE, wellFormed |-> TRUE]

Quiet == \A t \in Threads : th[t].pc = "idle"

\* spRec_Init: a table as malloc left it, then the records of the file.
Booted(heap, phones) ==
  [s \in Slots |->
     IF s < Len(phones) THEN phones[s + 1]
     ELSE Record(heap[s], Garbage, Garbage, 0)]

Init ==
  /\ \E heap \in [Slots -> HeapValues] : SPphones = Booted(heap, <<>>)
  /\ disk = NoFile
  /\ th = [t \in Threads |-> Idle]
  /\ clock = 0
  /\ system = "up"
  /\ unsaved = FALSE /\ mixed = FALSE /\ overlapped = FALSE

-----------------------------------------------------------------------------
Goes(t, pc) == th' = [th EXCEPT ![t].pc = pc]

\* A call begins where its caller finds the thread idle.
MayBegin(t) ==
  /\ system = "up"
  /\ th[t].pc = "idle"
  /\ Overlap \/ Quiet

At(t, pc) == system = "up" /\ th[t].pc = pc

Printing == \E t \in Threads : th[t].pc = "print"

\* What the history has to say of a step that may change the table, and of one
\* that begins a call.
MayMix == mixed' = (mixed \/ (Printing /\ SPphones' # SPphones))
MayOverlap == overlapped' = (overlapped \/ ~Quiet)

-----------------------------------------------------------------------------
(* spRec_AddRecord, on the web server's thread.                            *)

AddRecord(ip, mac) ==
  /\ MayBegin(Server)
  /\ th' = [th EXCEPT ![Server] = [Idle EXCEPT !.pc = "purge", !.ip = ip, !.mac = mac]]
  /\ MayOverlap
  /\ UNCHANGED <<SPphones, disk, clock, system, unsaved, mixed>>

\* Mutant: another phone's record of the address is left.
AddPurgeByMAC ==
  LET s == GetNextRecord(th[Server].sptr)
      same_mac == SPphones[s].mac = th[Server].mac
      same_ip == SPphones[s].ip_addr = th[Server].ip
  IN
  /\ At(Server, "purge")
  /\ s # NoRecord
  /\ SPphones' = IF same_mac /\ ~same_ip THEN [SPphones EXCEPT ![s].in_use = FREE] ELSE SPphones
  /\ th' = [th EXCEPT ![Server].sptr = s]
  /\ MayMix
  /\ UNCHANGED <<disk, clock, system, unsaved, overlapped>>

\* Mutant: the phone's record of another address is left.
AddPurgeByIP ==
  LET s == GetNextRecord(th[Server].sptr)
      same_mac == SPphones[s].mac = th[Server].mac
      same_ip == SPphones[s].ip_addr = th[Server].ip
  IN
  /\ At(Server, "purge")
  /\ s # NoRecord
  /\ SPphones' = IF same_ip /\ ~same_mac THEN [SPphones EXCEPT ![s].in_use = FREE] ELSE SPphones
  /\ th' = [th EXCEPT ![Server].sptr = s]
  /\ MayMix
  /\ UNCHANGED <<disk, clock, system, unsaved, overlapped>>

\* The next record: removed if it has one of the two addresses, not both.
AddPurge ==
  LET s == GetNextRecord(th[Server].sptr)
      same_mac == SPphones[s].mac = th[Server].mac
      same_ip == SPphones[s].ip_addr = th[Server].ip
  IN
  /\ At(Server, "purge")
  /\ s # NoRecord
  /\ SPphones' = IF same_mac # same_ip THEN [SPphones EXCEPT ![s].in_use = FREE] ELSE SPphones
  /\ th' = [th EXCEPT ![Server].sptr = s]
  /\ MayMix
  /\ UNCHANGED <<disk, clock, system, unsaved, overlapped>>

\* No more of them; spRec_FindIP.
AddFind ==
  LET same == {s \in Slots : Used(s) /\ SPphones[s].ip_addr = th[Server].ip}
  IN
  /\ At(Server, "purge")
  /\ GetNextRecord(th[Server].sptr) = NoRecord
  /\ th' = [th EXCEPT ![Server].pc = IF same # {} THEN "update" ELSE "add",
                      ![Server].sptr = IF same # {} THEN Min(same) ELSE Start]
  /\ UNCHANGED <<SPphones, disk, clock, system, unsaved, mixed, overlapped>>

AddUpdate ==
  /\ At(Server, "update")
  /\ SPphones' = [SPphones EXCEPT ![th[Server].sptr].last_seen = clock]
  /\ Goes(Server, "open")
  /\ MayMix
  /\ UNCHANGED <<disk, clock, system, unsaved, overlapped>>

\* The first record that is free, or the end of the array.
Vacant == {s \in Slots : SPphones[s].in_use \in {FREE, END}}

Full == Vacant # {} => SPphones[Min(Vacant)].in_use = END

AddNew ==
  /\ At(Server, "add")
  /\ ~Full
  /\ SPphones' = [SPphones EXCEPT
                    ![Min(Vacant)] = Record(USED, th[Server].mac, th[Server].ip, clock)]
  /\ Goes(Server, "open")
  /\ MayMix
  /\ UNCHANGED <<disk, clock, system, unsaved, overlapped>>

\* "Phone records are full!": return -1, and nothing is saved.
AddFull ==
  /\ At(Server, "add")
  /\ Full
  /\ th' = [th EXCEPT ![Server] = Idle]
  /\ UNCHANGED <<SPphones, disk, clock, system, unsaved, mixed, overlapped>>

-----------------------------------------------------------------------------
(* spRec_RemoveIP, which spRec.h offers and nothing calls yet.             *)

\* spRec_FindIP: with no record of the address nothing happens.
RemoveIP(ip) ==
  LET same == {s \in Slots : Used(s) /\ SPphones[s].ip_addr = ip} IN
  /\ MayBegin(Server)
  /\ same # {}
  /\ th' = [th EXCEPT ![Server] = [Idle EXCEPT !.pc = "unlist", !.sptr = Min(same)]]
  /\ MayOverlap
  /\ UNCHANGED <<SPphones, disk, clock, system, unsaved, mixed>>

RemoveFound ==
  /\ At(Server, "unlist")
  /\ SPphones' = [SPphones EXCEPT ![th[Server].sptr].in_use = FREE]
  /\ Goes(Server, "open")
  /\ MayMix
  /\ UNCHANGED <<disk, clock, system, unsaved, overlapped>>

-----------------------------------------------------------------------------
(* spRec_CheckStale.                                                       *)

\* Mutant: the time is not taken.
CheckStaleNoTime(t) ==
  /\ MayBegin(t)
  /\ th' = [th EXCEPT ![t] = [Idle EXCEPT !.pc = "test"]]
  /\ MayOverlap
  /\ UNCHANGED <<SPphones, disk, clock, system, unsaved, mixed>>

CheckStale(t) ==
  /\ MayBegin(t)
  /\ th' = [th EXCEPT ![t] = [Idle EXCEPT !.pc = "test", !.curtime = clock]]
  /\ MayOverlap
  /\ UNCHANGED <<SPphones, disk, clock, system, unsaved, mixed>>

TooOld(t, s) == th[t].curtime - SPphones[s].last_seen > MAX_LAST_SEEN

\* The next record, and whether it has not been seen for too long.
StaleTest(t) ==
  LET s == GetNextRecord(th[t].sptr) IN
  /\ At(t, "test")
  /\ s # NoRecord
  /\ th' = [th EXCEPT ![t].pc = IF TooOld(t, s) THEN "remove" ELSE "test",
                      ![t].sptr = s]
  /\ UNCHANGED <<SPphones, disk, clock, system, unsaved, mixed, overlapped>>

StaleRemove(t) ==
  /\ At(t, "remove")
  /\ SPphones' = [SPphones EXCEPT ![th[t].sptr].in_use = FREE]
  /\ th' = [th EXCEPT ![t].pc = "test", ![t].dirty = TRUE]
  /\ MayMix
  /\ UNCHANGED <<disk, clock, system, unsaved, overlapped>>

\* Mutant: nothing is saved.
StaleEndUnsaved(t) ==
  /\ At(t, "test")
  /\ GetNextRecord(th[t].sptr) = NoRecord
  /\ th' = [th EXCEPT ![t] = Idle]
  /\ UNCHANGED <<SPphones, disk, clock, system, unsaved, mixed, overlapped>>

\* No more records: save if any was removed.
StaleEnd(t) ==
  /\ At(t, "test")
  /\ GetNextRecord(th[t].sptr) = NoRecord
  /\ th' = [th EXCEPT ![t] = IF th[t].dirty THEN [Idle EXCEPT !.pc = "open"] ELSE Idle]
  /\ UNCHANGED <<SPphones, disk, clock, system, unsaved, mixed, overlapped>>

-----------------------------------------------------------------------------
(* _spRec_EncodePhones, the last thing either call does.                   *)

EncodeOpen(t) ==
  /\ At(t, "open")
  /\ disk' = EmptyFile
  /\ th' = [th EXCEPT ![t].pc = "print", ![t].sptr = Start]
  /\ mixed' = (mixed /\ \E u \in Threads \ {t} : th[u].pc = "print")
  /\ UNCHANGED <<SPphones, clock, system, unsaved, overlapped>>

\* Nothing is saved, and spRec_AddRecord returns 0 all the same.
EncodeOpenFails(t) ==
  /\ DiskFaults
  /\ At(t, "open")
  /\ th' = [th EXCEPT ![t] = Idle]
  /\ unsaved' = TRUE
  /\ UNCHANGED <<SPphones, disk, clock, system, mixed, overlapped>>

\* Mutant: a comma after every record.
EncodePrintComma(t) ==
  LET s == GetNextRecord(th[t].sptr)
      me == th[t]
  IN
  /\ At(t, "print")
  /\ s # NoRecord
  /\ th' = [th EXCEPT ![t].sptr = s,
                      ![t].printed = Append(me.printed, SPphones[s]),
                      ![t].comma = TRUE]
  /\ UNCHANGED <<SPphones, disk, clock, system, unsaved, mixed, overlapped>>

\* Mutant: the place in the table is not moved on.
EncodePrintStuck(t) ==
  LET s == GetNextRecord(th[t].sptr)
      me == th[t]
  IN
  /\ At(t, "print")
  /\ s # NoRecord
  /\ th' = [th EXCEPT ![t].printed = Append(me.printed, SPphones[s]),
                      ![t].comma = GetNextRecord(s) # NoRecord,
                      ![t].wellFormed = me.wellFormed /\ (me.printed = <<>> \/ me.comma)]
  /\ UNCHANGED <<SPphones, disk, clock, system, unsaved, mixed, overlapped>>

\* A record, and a comma after it if another record is coming: the loop looks
\* for that record again.
EncodePrint(t) ==
  LET s == GetNextRecord(th[t].sptr)
      me == th[t]
  IN
  /\ At(t, "print")
  /\ s # NoRecord
  /\ th' = [th EXCEPT ![t].sptr = s,
                      ![t].printed = Append(me.printed, SPphones[s]),
                      ![t].comma = GetNextRecord(s) # NoRecord,
                      ![t].wellFormed = me.wellFormed /\ (me.printed = <<>> \/ me.comma)]
  /\ UNCHANGED <<SPphones, disk, clock, system, unsaved, mixed, overlapped>>

EncodeClose(t) ==
  /\ At(t, "print")
  /\ GetNextRecord(th[t].sptr) = NoRecord
  /\ disk' = File(th[t].wellFormed /\ ~th[t].comma, th[t].printed)
  /\ th' = [th EXCEPT ![t] = Idle]
  /\ unsaved' = FALSE
  /\ UNCHANGED <<SPphones, clock, system, mixed, overlapped>>

-----------------------------------------------------------------------------
Tick ==
  /\ system = "up"
  /\ clock < MaxTime
  /\ clock' = clock + 1
  /\ UNCHANGED <<SPphones, disk, th, system, unsaved, mixed, overlapped>>

\* The program stops.  SPphones keeps, for comparison, what memory held.
Stop ==
  /\ system = "up"
  /\ \/ CrashPoints = "quiet" /\ Quiet
     \/ CrashPoints = "anytime"
  /\ system' = "down"
  /\ th' = [t \in Threads |-> Idle]
  /\ UNCHANGED <<SPphones, disk, clock, unsaved, mixed, overlapped>>

\* spRec_Init and _spRec_ParseFile.
Boot ==
  /\ system = "down"
  /\ disk.text \in {"missing", "json"}
  /\ \E heap \in [Slots -> HeapValues] : SPphones' = Booted(heap, disk.phones)
  /\ system' = "up"
  /\ unsaved' = FALSE
  /\ mixed' = FALSE
  /\ UNCHANGED <<disk, th, clock, overlapped>>

\* cJSON_Parse returns NULL, and cJSON_GetObjectItem reads through it.
BootCrashes ==
  /\ system = "down"
  /\ disk.text \in {"empty", "malformed"}
  /\ system' = "dead"
  /\ UNCHANGED <<SPphones, disk, th, clock, unsaved, mixed, overlapped>>

-----------------------------------------------------------------------------
Adding == AddPurge \/ AddFind \/ AddUpdate \/ AddNew \/ AddFull
Checking(t) == CheckStale(t) \/ StaleTest(t) \/ StaleRemove(t) \/ StaleEnd(t)
Encoding(t) == EncodeOpen(t) \/ EncodeOpenFails(t) \/ EncodePrint(t) \/ EncodeClose(t)

Next ==
  \/ \E ip \in IPs, mac \in MACs : AddRecord(ip, mac)
  \/ \E ip \in IPs : RemoveIP(ip)
  \/ Adding
  \/ RemoveFound
  \/ \E t \in StaleThreads : Checking(t)
  \/ \E t \in Threads : Encoding(t)
  \/ Tick
  \/ Stop
  \/ Boot
  \/ BootCrashes

Spec == Init /\ [][Next]_vars

\* _main_thread calls spRec_CheckStale in an endless loop, and a call that
\* has begun goes on; no phone need ever register.
FairSpec ==
  /\ Spec
  /\ WF_vars(Adding \/ RemoveFound \/ Encoding(Server))
  /\ \A t \in StaleThreads : WF_vars(Checking(t) \/ Encoding(t))

-----------------------------------------------------------------------------
Records ==
  [in_use : {FREE, USED} \union HeapValues, mac : MACs \union {Garbage},
   ip_addr : IPs \union {Garbage}, last_seen : 0 .. MaxTime]

HistoryOK == unsaved \in BOOLEAN /\ mixed \in BOOLEAN /\ overlapped \in BOOLEAN

\* The shape of the table, the file and the calls in progress.
TypeOK ==
  /\ SPphones \in [Slots -> Records]
  /\ disk \in [text : {"missing", "empty", "json", "malformed"}, phones : Seq(Records)]
  /\ Len(disk.phones) <= max_SPphones
  /\ \A t \in Threads :
       /\ th[t].pc \in {"idle", "purge", "update", "add", "unlist", "test", "remove", "open",
                       "print"}
       /\ th[t].sptr \in Slots \union {Start}
       /\ th[t].printed \in Seq(Records)
  /\ clock \in 0 .. MaxTime
  /\ system \in {"up", "down", "dead"}
  /\ HistoryOK

\* spRec_AddRecord keeps at most one record for an IP address and for a MAC
\* address, whatever order phones change addresses in and whatever other
\* threads remove meanwhile.
UniqueIdentity ==
  \A r, s \in Slots :
    Used(r) /\ Used(s) /\ r # s =>
      /\ SPphones[r].mac # SPphones[s].mac
      /\ SPphones[r].ip_addr # SPphones[s].ip_addr

\* "Status is saved to disk" (README.dox:45): with no call in progress the file
\* holds exactly the records of the table, unless the last fopen failed or the
\* table changed under the saves in progress.  However calls overlap otherwise,
\* each change is in the file in the end: the early return of a full table has
\* changed nothing that would need a save, the next save makes good for one that
\* failed or was mixed, and after a stop the table has what the file has.
SavedWhenQuiet == system = "up" /\ Quiet /\ ~unsaved /\ ~mixed => disk.phones = Phones

\* The same of saves that are mixed.
AlwaysSaved == system = "up" /\ Quiet /\ ~unsaved => disk.phones = Phones

(***************************************************************************)
(* The table as the set of phones PhoneBook.tla is about, the file as its  *)
(* copy, and the call in progress.                                         *)
(***************************************************************************)
Some(points) == \E t \in Threads : th[t].pc \in points

CallInProgress ==
  IF Some({"purge", "update", "add"})
    THEN [doing |-> "registering", ip |-> th[Server].ip, mac |-> th[Server].mac]
    ELSE [doing |-> IF Some({"test", "remove"}) THEN "cleaning"
                    ELSE IF Some({"open", "print"}) THEN "saving" ELSE "nothing",
          ip |-> Garbage, mac |-> Garbage]

\* The records spRec_AddRecord finds: none after the end of the array, and none
\* whose memory reads as neither free nor used.
Usable ==
  {s \in Slots : /\ SPphones[s].in_use \in {FREE, USED}
                 /\ \A k \in Slots : k < s => SPphones[k].in_use # END}

Entry(r) == [ip |-> r.ip_addr, mac |-> r.mac, seen |-> r.last_seen]

Book == INSTANCE PhoneBook WITH
  Nobody <- Garbage, MaxAge <- MAX_LAST_SEEN,
  phones <- IF system = "up" THEN {Entry(SPphones[s]) : s \in {r \in Slots : Used(r)}} ELSE {},
  saved <- {Entry(disk.phones[i]) : i \in DOMAIN disk.phones},
  torn <- disk.text \in {"empty", "malformed"},
  call <- CallInProgress,
  now <- clock, up <- system = "up", behind <- unsaved,
  Rooms <- IF HeapValues \subseteq {FREE} THEN {max_SPphones} ELSE 0 .. max_SPphones,
  room <- Cardinality(Usable), astray <- overlapped

\* Until a call begins before another is over the table is a set of phones: a
\* registration replaces what it contradicts and nothing else, only what is too
\* old expires, a phone is refused only if there is no room, every change is
\* saved before the call is over or the save failed, and a start brings back what
\* was saved.
ImplementsPhoneBook == Book!Spec

\* "Check for any phones not seen in a while. Remove them." (spRec.c:85): only
\* a phone not seen for MAX_LAST_SEEN is removed.
OnlyStaleRemoved ==
  [][ \A t \in StaleThreads :
        StaleRemove(t) => clock - SPphones[th[t].sptr].last_seen > MAX_LAST_SEEN ]_vars

\* "Return 0 if OK, -1 if array full" (spRec.c:126).
FullOnlyWhenFull == [][ AddFull => \A s \in Slots : Used(s) ]_vars

\* "... which is read in whenever the system boots" (README.dox:45-46): the
\* saved file can be read in at every boot.
SystemBoots == system # "dead"

\* What is saved is JSON that can be parsed, once the calls are over.
SavedFileParses == system = "up" /\ Quiet => disk.text \in {"missing", "json"}

\* Only a stop in the middle of a save, between fopen and fclose
\* (spRec.c:280-304), or after a save under which the table changed, leaves a
\* file that the next start crashes on.
OnlySavesAreFragile ==
  [][ Stop /\ ~Printing /\ ~mixed => disk.text \in {"missing", "json"} ]_vars

\* A phone that is not heard of any more is removed in the end.
Overdue(s) == Used(s) /\ clock - SPphones[s].last_seen > MAX_LAST_SEEN
StalePhonesGo == \A s \in Slots : Overdue(s) ~> ~Overdue(s)
=============================================================================
