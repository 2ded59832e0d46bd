------------------------------ MODULE Logging ------------------------------
(***************************************************************************)
(* logging.c: a log file that is rotated when it has grown too large.      *)
(*                                                                         *)
(* Log and PLog append a line under a mutex and rotate under the same      *)
(* mutex, so there is one line or one rotation at a time; but a rotation   *)
(* is a sequence of renames, and the program may stop between any two.     *)
(* Both logs are alike; this is one of them.  Lines are numbered in the    *)
(* order in which they are written; a line that is not written (above the  *)
(* log level, no log wanted, fopen fails) changes nothing and is left out. *)
(* A rotated file has lines in it, so an empty one is one there is not.    *)
(***************************************************************************)
EXTENDS Integers, Sequences, SequencesExt

CONSTANTS
  max_files,     \* "syslog_rotates", files kept besides the current one
  max_size,      \* "syslog_size", here in lines
  MaxCrashes,    \* bound: how often the program stops during a rotation
  MaxLines,      \* bound: lines written
  MaxTurns       \* bound: turns of the loop of a rotation below 0

ASSUME LoggingAssumption ==
  /\ max_files \in Nat
  /\ max_size \in Nat
  /\ MaxCrashes \in Nat
  /\ MaxLines \in Nat /\ MaxTurns \in Nat

VARIABLES
  current,       \* the lines of the file "fpath"
  file,          \* the lines of the files "fpath.n"
  written,       \* lines written so far
  step, i,       \* of the rotation in progress: where it is, the loop's counter
  old_file,      \* the number of the name in old_file
  crashes        \* how often the program has stopped in a rotation

vars == <<current, file, written, step, i, old_file, crashes>>

Numbers == 0 .. max_files

Init ==
  /\ current = <<>>
  /\ file = [n \in Numbers |-> <<>>]
  /\ written = 0
  /\ step = "idle" /\ i = 0 /\ old_file = 0
  /\ crashes = 0

-----------------------------------------------------------------------------
\* Mutant: rotates a file that is just full.
LogFull ==
  /\ step = "idle"
  /\ written < MaxLines
  /\ written' = written + 1
  /\ current' = Append(current, written')
  /\ step' = IF Len(current') >= max_size THEN "unlink" ELSE "idle"
  /\ UNCHANGED <<file, i, old_file, crashes>>

\* Append a line; _Log_ChkRotate rotates when the file is too large now.
Log ==
  /\ step = "idle"
  /\ written < MaxLines
  /\ written' = written + 1
  /\ current' = Append(current, written')
  /\ step' = IF Len(current') > max_size THEN "unlink" ELSE "idle"
  /\ UNCHANGED <<file, i, old_file, crashes>>

\* Mutant: deletes the file after the oldest.
RotateUnlinkBeyond ==
  /\ step = "unlink"
  /\ old_file' = max_files + 1
  /\ i' = max_files - 1
  /\ step' = "shift"
  /\ UNCHANGED <<current, file, written, crashes>>

\* Delete the oldest file, if there is one.
RotateUnlink ==
  /\ step = "unlink"
  /\ old_file' = max_files
  /\ file' = [file EXCEPT ![max_files] = <<>>]
  /\ i' = max_files - 1
  /\ step' = "shift"
  /\ UNCHANGED <<current, written, crashes>>

\* for ( i = max_files-1; i; i-- ): if there is a file i, it becomes i + 1.
RotateShift ==
  /\ step = "shift"
  /\ i # 0
  /\ i > -MaxTurns
  /\ old_file' = i
  /\ file' = IF i \in Numbers /\ file[i] # <<>>
               THEN [file EXCEPT ![i + 1] = file[i], ![i] = <<>>] ELSE file
  /\ i' = i - 1
  /\ UNCHANGED <<current, written, step, crashes>>

\* Mutant: the current file is copied, not renamed.
RotateCopy ==
  /\ step = "shift"
  /\ i = 0
  /\ file' = [file EXCEPT ![old_file] = current]
  /\ step' = "create"
  /\ UNCHANGED <<current, written, i, old_file, crashes>>

\* The current file gets the name the loop has left in old_file.
RotateCurrent ==
  /\ step = "shift"
  /\ i = 0
  /\ file' = [file EXCEPT ![old_file] = current]
  /\ current' = <<>>
  /\ step' = "create"
  /\ UNCHANGED <<written, i, old_file, crashes>>

\* A new, empty file.
RotateCreate ==
  /\ step = "create"
  /\ step' = "idle"
  /\ UNCHANGED <<current, file, written, i, old_file, crashes>>

\* The program stops, and is started again.  (It stops of itself when fopen
\* fails in RotateCreate, and fclose is given NULL.)
Crash ==
  /\ crashes < MaxCrashes
  /\ step # "idle"
  /\ step' = "idle"
  /\ crashes' = crashes + 1
  /\ UNCHANGED <<current, file, written, i, old_file>>

Next ==
  \/ Log
  \/ RotateUnlink \/ RotateShift \/ RotateCurrent \/ RotateCreate
  \/ Crash

Spec == Init /\ [][Next]_vars

-----------------------------------------------------------------------------
\* What can still be read.  The higher the number the older the file, and the
\* current one is the newest.
Files == [n \in Numbers |-> IF n = 0 THEN current ELSE file[n]]
Kept == FlattenSeq([n \in 1 .. max_files |-> file[max_files + 1 - n]]) \o current

\* The values of the variables.
TypeOK ==
  /\ current \in Seq(1 .. MaxLines)
  /\ file \in [Numbers -> Seq(1 .. MaxLines)]
  /\ written \in 0 .. MaxLines
  /\ step \in {"idle", "unlink", "shift", "create"}
  /\ i \in -MaxTurns .. max_files
  /\ old_file \in -MaxTurns .. max_files
  /\ crashes \in 0 .. MaxCrashes

InOrder(f) == \A k, l \in DOMAIN f : k < l => f[k] < f[l]

LinesIn(files) == [n \in Numbers |-> {files[n][k] : k \in DOMAIN files[n]}]

\* Lines of an older file are older, and none is missing up to the last.
NewestIn(lines, last) ==
  /\ \A m, n \in Numbers : m < n => \A x \in lines[n], y \in lines[m] : x < y
  /\ \A m \in Numbers : \A x \in lines[m] : \A y \in x .. last : \E n \in Numbers : y \in lines[n]
  /\ last > 0 => \E n \in Numbers : last \in lines[n]

\* What is kept is the newest lines, all of them up to the last, in order and
\* none twice, wherever the program stopped in a rotation (logging.c:243-289).
NewestKept ==
  /\ \A n \in Numbers : InOrder(Files[n])
  /\ NewestIn(LinesIn(Files), written)

\* "How many logs to rotate out" (logging.c:23): as many full files as the
\* configuration asks for are kept besides the current one, less one for every
\* time the program has stopped in a rotation and left a gap in the numbers.
Least(m, n) == IF m < n THEN m ELSE n
EnoughKept ==
  step = "idle" =>
    Len(Kept) >= Least(written, (max_files - crashes) * (max_size + 1))

\* The same sentence, for no logs: the loop of a rotation ends at 0.
LoopEnds == step = "shift" => i >= 0
=============================================================================
