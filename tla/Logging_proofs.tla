--------------------------- MODULE Logging_proofs ---------------------------
(***************************************************************************)
(* Theorems about Logging.tla, for any number of files, any size, and any  *)
(* number of stops in a rotation.                                          *)
(*                                                                         *)
(* Every rename moves the lines of one number to the next, which is empty: *)
(* the loop comes from the oldest file, and has just made that room.  So a *)
(* rename changes no order, and a rotation loses nothing but the oldest    *)
(* file, also when it starts again after a stop in the middle.             *)
(*                                                                         *)
(* A stop may leave a gap in the numbers, and a later rotation closes one  *)
(* up only in front of the oldest file.  So that enough is kept counts the *)
(* gaps: below a file that is there are no more of them than there were    *)
(* stops, and below the place after the last no more either once the first *)
(* line written is lost.  Every file that is there was full when it was    *)
(* renamed.  How long Kept is follows from its recursive function, by the  *)
(* least number of files for which it would be too short.                  *)
(***************************************************************************)
EXTENDS Logging, FiniteSetTheorems, WellFoundedInduction, TLAPS

Typed ==
  /\ current \in Seq(Int)
  /\ file \in [Numbers -> Seq(Int)]
  /\ written \in Nat

\* Where a rotation is.
Rotation ==
  /\ step \in {"idle", "unlink", "shift", "create"}
  /\ step = "unlink" => current # <<>>
  /\ step = "shift" => /\ i \in Int /\ old_file = i + 1 /\ old_file <= max_files
                       /\ i >= 0 => file[old_file] = <<>>

Past(lines, last) == \A n \in Numbers : lines[n] \subseteq 1 .. last

-----------------------------------------------------------------------------
(* What happens to the lines of the files.                                 *)

\* A rename to a number that is free.
LEMMA Moved ==
  ASSUME NEW L, NEW M, NEW last \in Nat, NewestIn(L, last), Past(L, last),
         NEW a \in Numbers, a + 1 \in Numbers,
         L[a + 1] = {}, M[a + 1] = L[a], M[a] = {},
         \A n \in Numbers : n # a /\ n # a + 1 => M[n] = L[n]
  PROVE  NewestIn(M, last) /\ Past(M, last)
<1>1. Numbers \subseteq Int
  BY DEF Numbers
<1>2. ASSUME NEW m \in Numbers, NEW n \in Numbers, m < n, NEW x \in M[n], NEW y \in M[m]
      PROVE  x < y
  <2> DEFINE from(k) == IF k = a + 1 THEN a ELSE k
  <2>1. m # a /\ n # a
    BY <1>2
  <2>2. /\ from(m) \in Numbers /\ from(n) \in Numbers
        /\ M[m] = L[from(m)] /\ M[n] = L[from(n)]
    BY <2>1
  <2>3. from(m) < from(n)
    BY <1>1, <1>2, <2>1
  <2>4. QED
    BY <1>2, <2>2, <2>3 DEF NewestIn
<1>3. ASSUME NEW m \in Numbers, NEW x \in L[m] PROVE \E n \in Numbers : x \in M[n]
  <2>1. CASE m = a
    BY <1>3, <2>1
  <2>2. CASE m # a
    BY <1>3, <2>2
  <2>3. QED
    BY <2>1, <2>2
<1>4. ASSUME NEW m \in Numbers, NEW x \in M[m] PROVE \E n \in Numbers : x \in L[n]
  <2>1. CASE m = a + 1
    BY <1>4, <2>1
  <2>2. CASE m # a + 1
    BY <1>4, <2>2
  <2>3. QED
    BY <2>1, <2>2
<1>5. ASSUME NEW m \in Numbers, NEW x \in M[m], NEW y \in x .. last
      PROVE  \E n \in Numbers : y \in M[n]
  <2>1. PICK n \in Numbers : x \in L[n]
    BY <1>4, <1>5
  <2>2. \E k \in Numbers : y \in L[k]
    BY <2>1 DEF NewestIn
  <2>3. QED
    BY <1>3, <2>2
<1>6. last > 0 => \E n \in Numbers : last \in M[n]
  BY <1>3 DEF NewestIn
<1>7. NewestIn(M, last)
  BY <1>2, <1>5, <1>6 DEF NewestIn
<1>8. Past(M, last)
  BY <1>4 DEF Past
<1>9. QED
  BY <1>7, <1>8

\* The oldest file goes, and it is not the only one.
LEMMA Dropped ==
  ASSUME NEW L, NEW M, NEW last \in Nat, NewestIn(L, last), Past(L, last),
         max_files > 0, L[0] # {}, M[max_files] = {},
         \A n \in Numbers : n # max_files => M[n] = L[n]
  PROVE  NewestIn(M, last) /\ Past(M, last)
<1>1. Numbers \subseteq Int /\ 0 \in Numbers /\ max_files \in Numbers
      /\ \A n \in Numbers : n # max_files => n < max_files
  BY LoggingAssumption DEF Numbers
<1>2. ASSUME NEW m \in Numbers, NEW n \in Numbers, m < n, NEW x \in M[n], NEW y \in M[m]
      PROVE  x < y
  BY <1>2 DEF NewestIn
<1>3. ASSUME NEW m \in Numbers, m # max_files, NEW x \in L[m], NEW y \in x .. last
      PROVE  \E n \in Numbers : y \in M[n]
  <2>1. PICK n \in Numbers : y \in L[n]
    BY <1>3 DEF NewestIn
  <2>2. x \in Int
    BY <1>3 DEF Past
  <2>3. n # max_files
    <3> SUFFICES ASSUME n = max_files PROVE FALSE
      OBVIOUS
    <3>1. y < x
      BY <1>1, <1>3, <2>1 DEF NewestIn
    <3>2. QED
      BY <1>3, <2>2, <3>1
  <2>4. QED
    BY <2>1, <2>3
<1>4. ASSUME NEW m \in Numbers, NEW x \in M[m], NEW y \in x .. last
      PROVE  \E n \in Numbers : y \in M[n]
  <2>1. m # max_files
    BY <1>4
  <2>2. QED
    BY <1>3, <1>4, <2>1
<1>5. last > 0 => \E n \in Numbers : last \in M[n]
  <2>1. PICK x : x \in L[0]
    OBVIOUS
  <2>2. x \in 1 .. last
    BY <1>1, <2>1 DEF Past
  <2>3. QED
    BY <1>1, <1>3, <2>1, <2>2
<1>6. NewestIn(M, last)
  BY <1>2, <1>4, <1>5 DEF NewestIn
<1>7. Past(M, last)
  BY DEF Past
<1>8. QED
  BY <1>6, <1>7

\* A new line in the current file.
LEMMA Added ==
  ASSUME NEW L, NEW M, NEW last \in Nat, NewestIn(L, last), Past(L, last),
         M[0] = L[0] \union {last + 1}, \A n \in Numbers : n # 0 => M[n] = L[n]
  PROVE  NewestIn(M, last + 1) /\ Past(M, last + 1)
<1>1. Numbers \subseteq Nat /\ 0 \in Numbers
  BY LoggingAssumption DEF Numbers
<1>2. ASSUME NEW m \in Numbers, NEW n \in Numbers, m < n, NEW x \in M[n], NEW y \in M[m]
      PROVE  x < y
  <2>1. n # 0
    BY <1>1, <1>2
  <2>2. x \in L[n] /\ x \in 1 .. last
    <3>1. x \in L[n]
      BY <1>2, <2>1
    <3>2. QED
      BY <3>1 DEF Past
  <2>3. CASE y \in L[m]
    BY <1>2, <2>2, <2>3 DEF NewestIn
  <2>4. CASE y = last + 1
    BY <2>2, <2>4
  <2>5. QED
    BY <1>2, <2>3, <2>4
<1>3. ASSUME NEW m \in Numbers, NEW x \in M[m], NEW y \in x .. last + 1
      PROVE  \E n \in Numbers : y \in M[n]
  <2>1. CASE y = last + 1
    BY <1>1, <2>1
  <2>2. CASE y # last + 1
    <3>1. x \in L[m] \/ x = last + 1
      BY <1>3
    <3>2. x \in L[m] /\ y \in x .. last
      BY <1>3, <2>2, <3>1 DEF Past
    <3>3. PICK n \in Numbers : y \in L[n]
      BY <3>2 DEF NewestIn
    <3>4. QED
      BY <1>1, <3>3
  <2>3. QED
    BY <2>1, <2>2
<1>4. \E n \in Numbers : last + 1 \in M[n]
  BY <1>1
<1>5. NewestIn(M, last + 1)
  BY <1>2, <1>3, <1>4 DEF NewestIn
<1>6. Past(M, last + 1)
  BY DEF Past
<1>7. QED
  BY <1>5, <1>6

-----------------------------------------------------------------------------
(* The same for the files.                                                 *)

Sound(files, last) ==
  /\ \A n \in Numbers : InOrder(files[n])
  /\ NewestIn(LinesIn(files), last)
  /\ Past(LinesIn(files), last)

LEMMA NoLines == ASSUME NEW files, NEW n \in Numbers, files[n] = <<>> PROVE LinesIn(files)[n] = {}
BY DEF LinesIn

LEMMA SameLines ==
  ASSUME NEW files, NEW new, NEW m \in Numbers, NEW n \in Numbers, new[n] = files[m]
  PROVE  LinesIn(new)[n] = LinesIn(files)[m]
BY DEF LinesIn

LEMMA EmptyInOrder == InOrder(<<>>)
<1>1. <<>> \in Seq(Int) /\ Len(<<>>) = 0
  OBVIOUS
<1>2. \A f \in Seq(Int) : Len(f) = 0 => DOMAIN f = {}
  OBVIOUS
<1>3. QED
  BY <1>1, <1>2 DEF InOrder

LEMMA MovedFile ==
  ASSUME NEW files, NEW new, NEW last \in Nat, Sound(files, last),
         NEW a \in Numbers, a + 1 \in Numbers,
         files[a + 1] = <<>>, new[a + 1] = files[a], new[a] = <<>>,
         \A n \in Numbers : n # a /\ n # a + 1 => new[n] = files[n]
  PROVE  Sound(new, last)
<1> DEFINE L == LinesIn(files)
           M == LinesIn(new)
<1>1. L[a + 1] = {} /\ M[a + 1] = L[a] /\ M[a] = {}
  BY NoLines, SameLines
<1>2. \A n \in Numbers : n # a /\ n # a + 1 => M[n] = L[n]
  BY SameLines
<1>3. NewestIn(L, last) /\ Past(L, last)
  BY DEF Sound
<1>4. NewestIn(M, last) /\ Past(M, last)
  <2> HIDE DEF L, M
  <2>1. QED
    BY <1>1, <1>2, <1>3, Moved, SMTT(30)
<1>5. \A n \in Numbers : new[n] = <<>> \/ \E m \in Numbers : new[n] = files[m]
  OBVIOUS
<1>6. \A n \in Numbers : InOrder(new[n])
  BY <1>5, EmptyInOrder DEF Sound
<1>7. QED
  BY <1>4, <1>6 DEF Sound

LEMMA DroppedFile ==
  ASSUME NEW files, NEW new, NEW last \in Nat, Sound(files, last),
         max_files > 0, files[0] \in Seq(Int), files[0] # <<>>, new[max_files] = <<>>,
         \A n \in Numbers : n # max_files => new[n] = files[n]
  PROVE  Sound(new, last)
<1> DEFINE L == LinesIn(files)
           M == LinesIn(new)
<1>1. 0 \in Numbers /\ max_files \in Numbers
  BY LoggingAssumption DEF Numbers
<1>2. L[0] # {}
  <2>1. 1 \in DOMAIN files[0]
    OBVIOUS
  <2>2. files[0][1] \in L[0]
    BY <1>1, <2>1 DEF LinesIn
  <2>3. QED
    BY <2>2
<1>3. M[max_files] = {} /\ \A n \in Numbers : n # max_files => M[n] = L[n]
  BY <1>1, NoLines, SameLines
<1>4. NewestIn(M, last) /\ Past(M, last)
  <2>1. NewestIn(L, last) /\ Past(L, last)
    BY DEF Sound
  <2> HIDE DEF L, M
  <2>2. QED
    BY <1>2, <1>3, <2>1, Dropped
<1>5. \A n \in Numbers : InOrder(new[n])
  BY DEF Sound, InOrder
<1>6. QED
  BY <1>4, <1>5 DEF Sound

LEMMA AddedLine ==
  ASSUME NEW files, NEW new, NEW last \in Nat, Sound(files, last),
         files[0] \in Seq(Int), new[0] = Append(files[0], last + 1),
         \A n \in Numbers : n # 0 => new[n] = files[n]
  PROVE  Sound(new, last + 1)
<1> DEFINE L == LinesIn(files)
           M == LinesIn(new)
<1>1. 0 \in Numbers
  BY LoggingAssumption DEF Numbers
<1>2. M[0] = L[0] \union {last + 1}
  <2>1. /\ DOMAIN new[0] = DOMAIN files[0] \union {Len(files[0]) + 1}
        /\ new[0][Len(files[0]) + 1] = last + 1
        /\ \A k \in DOMAIN files[0] : new[0][k] = files[0][k]
    OBVIOUS
  <2>2. M[0] = {new[0][k] : k \in DOMAIN new[0]} /\ L[0] = {files[0][k] : k \in DOMAIN files[0]}
    BY <1>1 DEF LinesIn
  <2> HIDE DEF L, M
  <2>3. ASSUME NEW x PROVE x \in M[0] <=> x \in L[0] \union {last + 1}
    <3>1. CASE x \in M[0]
      <4>1. PICK k \in DOMAIN new[0] : x = new[0][k]
        BY <2>2, <3>1
      <4>2. CASE k \in DOMAIN files[0]
        BY <2>1, <2>2, <3>1, <4>1, <4>2
      <4>3. CASE k = Len(files[0]) + 1
        BY <2>1, <3>1, <4>1, <4>3
      <4>4. QED
        BY <2>1, <4>1, <4>2, <4>3
    <3>2. CASE x \in L[0]
      <4>1. PICK k \in DOMAIN files[0] : x = files[0][k]
        BY <2>2, <3>2
      <4>2. k \in DOMAIN new[0] /\ new[0][k] = x
        BY <2>1, <4>1
      <4>3. QED
        BY <2>2, <3>2, <4>2
    <3>3. CASE x = last + 1
      BY <2>1, <2>2, <3>3
    <3>4. QED
      BY <3>1, <3>2, <3>3
  <2>4. QED
    BY <2>3
<1>3. \A n \in Numbers : n # 0 => M[n] = L[n]
  BY SameLines
<1>4. NewestIn(M, last + 1) /\ Past(M, last + 1)
  <2>1. NewestIn(L, last) /\ Past(L, last)
    BY DEF Sound
  <2> HIDE DEF L, M
  <2>2. QED
    BY <1>2, <1>3, <2>1, Added
<1>5. InOrder(new[0])
  <2>1. \A k \in DOMAIN files[0] : files[0][k] \in 1 .. last
    BY <1>1 DEF Sound, Past, LinesIn
  <2>2. InOrder(files[0])
    BY <1>1 DEF Sound
  <2>3. ASSUME NEW k \in DOMAIN new[0], NEW l \in DOMAIN new[0], k < l
        PROVE  new[0][k] < new[0][l]
    <3>1. k \in DOMAIN files[0] /\ new[0][k] = files[0][k]
      <4>1. /\ Len(new[0]) = Len(files[0]) + 1 /\ Len(files[0]) \in Nat
            /\ DOMAIN new[0] = 1 .. Len(new[0]) /\ DOMAIN files[0] = 1 .. Len(files[0])
        OBVIOUS
      <4>2. k \in DOMAIN files[0]
        BY <2>3, <4>1
      <4>3. QED
        BY <4>2
    <3>2. CASE l \in DOMAIN files[0]
      BY <2>2, <2>3, <3>1, <3>2 DEF InOrder
    <3>3. CASE l \notin DOMAIN files[0]
      <4>1. new[0][l] = last + 1
        BY <2>3, <3>3
      <4>2. new[0][k] \in 1 .. last
        BY <2>1, <3>1
      <4>3. QED
        BY <4>1, <4>2
    <3>4. QED
      BY <3>2, <3>3
  <2>4. QED
    BY <2>3 DEF InOrder
<1>6. \A n \in Numbers : InOrder(new[n])
  BY <1>5 DEF Sound
<1>7. QED
  BY <1>4, <1>6 DEF Sound

-----------------------------------------------------------------------------
(* The steps.                                                              *)

Inv ==
  /\ Typed
  /\ Rotation
  /\ Sound(Files, written)

LEMMA FilesTyped ==
  ASSUME Typed
  PROVE  /\ 0 \in Numbers /\ Files[0] = current /\ Files[0] \in Seq(Int)
         /\ \A n \in Numbers : n # 0 => Files[n] = file[n]
BY LoggingAssumption DEF Typed, Files, Numbers

\* The files after a step, from what it has made of the variables.
LEMMA FilesNext ==
  /\ 0 \in Numbers => Files'[0] = current'
  /\ \A n \in Numbers : n # 0 => Files'[n] = file'[n]
BY DEF Files

LEMMA Unchanged ==
  ASSUME Inv, current' = current, file' = file, written' = written PROVE Sound(Files, written)'
BY DEF Inv, Files, Sound, NewestIn, Past, LinesIn, InOrder

LEMMA LogKeeps == ASSUME Inv, Log PROVE Inv'
<1>1. Typed /\ written \in Nat /\ current \in Seq(Int)
  BY DEF Inv, Typed
<1>2. written' = written + 1 /\ current' = Append(current, written + 1) /\ file' = file
  BY DEF Log
<1>3. Sound(Files', written + 1)
  <2>1. Files'[0] = Append(Files[0], written + 1)
    BY <1>1, <1>2, FilesTyped, FilesNext
  <2>2. \A n \in Numbers : n # 0 => Files'[n] = Files[n]
    BY <1>1, <1>2, FilesTyped, FilesNext
  <2>3. QED
    BY <1>1, <2>1, <2>2, FilesTyped, AddedLine DEF Inv
<1>4. Typed'
  BY <1>1, <1>2 DEF Typed
<1>5. Rotation'
  <2>1. Len(current') = Len(current) + 1 /\ Len(current) \in Nat
    BY <1>1, <1>2
  <2>2. current' # <<>>
    BY <2>1
  <2>3. QED
    BY <2>2 DEF Log, Rotation
<1>6. QED
  BY <1>2, <1>3, <1>4, <1>5 DEF Inv

LEMMA UnlinkKeeps == ASSUME Inv, RotateUnlink PROVE Inv'
<1>1. Typed /\ written \in Nat /\ max_files \in Numbers /\ max_files \in Nat
  BY LoggingAssumption DEF Inv, Typed, Numbers
<1>2. /\ written' = written /\ current' = current /\ current # <<>>
      /\ file' = [file EXCEPT ![max_files] = <<>>]
      /\ step' = "shift" /\ i' = max_files - 1 /\ old_file' = max_files
  BY DEF RotateUnlink, Inv, Rotation
<1>3. file'[max_files] = <<>> /\ \A n \in Numbers : n # max_files => file'[n] = file[n]
  BY <1>1, <1>2 DEF Typed
<1>4. Sound(Files', written)
  <2>1. CASE max_files = 0
    <3>1. Files' = Files
      BY <1>2, <2>1, LoggingAssumption DEF Files, Numbers
    <3>2. QED
      BY <3>1 DEF Inv
  <2>2. CASE max_files > 0
    <3>1. Files'[max_files] = <<>>
      BY <1>1, <1>3, <2>2, FilesNext
    <3>2. \A n \in Numbers : n # max_files => Files'[n] = Files[n]
      BY <1>1, <1>2, <1>3, FilesTyped, FilesNext
    <3>3. QED
      BY <1>1, <1>2, <2>2, <3>1, <3>2, FilesTyped, DroppedFile DEF Inv
  <2>3. QED
    BY <1>1, <2>1, <2>2
<1>5. Typed'
  BY <1>1, <1>2 DEF Typed
<1>6. Rotation'
  BY <1>1, <1>2, <1>3 DEF Rotation
<1>7. QED
  BY <1>2, <1>4, <1>5, <1>6 DEF Inv

LEMMA ShiftKeeps == ASSUME Inv, RotateShift PROVE Inv'
<1>1. Typed /\ written \in Nat
  BY DEF Inv, Typed
<1>2. /\ written' = written /\ current' = current /\ step = "shift" /\ step' = step
      /\ i \in Int /\ i # 0 /\ old_file = i + 1 /\ old_file <= max_files
      /\ i >= 0 => file[old_file] = <<>>
      /\ i' = i - 1 /\ old_file' = i
  BY DEF RotateShift, Inv, Rotation
<1>3. CASE i \in Numbers /\ file[i] # <<>>
  <2>1. file' = [file EXCEPT ![i + 1] = file[i], ![i] = <<>>]
    BY <1>3 DEF RotateShift
  <2>2. i > 0 /\ i + 1 \in Numbers /\ file[i + 1] = <<>>
    BY <1>2, <1>3, LoggingAssumption DEF Numbers
  <2>3. /\ file'[i + 1] = file[i] /\ file'[i] = <<>>
        /\ \A n \in Numbers : n # i /\ n # i + 1 => file'[n] = file[n]
    BY <1>1, <1>2, <1>3, <2>1, <2>2 DEF Typed
  <2>4. /\ Files[i + 1] = <<>> /\ Files'[i + 1] = Files[i] /\ Files'[i] = <<>>
        /\ \A n \in Numbers : n # i /\ n # i + 1 => Files'[n] = Files[n]
    BY <1>1, <1>2, <1>3, <2>2, <2>3, FilesTyped, FilesNext
  <2>5. Sound(Files', written)
    BY <1>1, <1>3, <2>2, <2>4, MovedFile DEF Inv
  <2>6. Typed'
    BY <1>1, <1>2, <1>3, <2>1, <2>2 DEF Typed
  <2>7. Rotation'
    BY <1>2, <2>2, <2>3, LoggingAssumption DEF Rotation
  <2>8. QED
    BY <1>2, <2>5, <2>6, <2>7 DEF Inv
<1>4. CASE ~ (i \in Numbers /\ file[i] # <<>>)
  <2>1. file' = file
    BY <1>4 DEF RotateShift
  <2>2. ASSUME i - 1 >= 0 PROVE file[i] = <<>>
    <3>1. i \in Numbers
      BY <1>2, <2>2, LoggingAssumption DEF Numbers
    <3>2. QED
      BY <1>4, <3>1
  <2>3. Typed' /\ Rotation'
    BY <1>1, <1>2, <2>1, <2>2, LoggingAssumption DEF Typed, Rotation
  <2>4. QED
    BY <1>2, <2>1, <2>3, Unchanged DEF Inv
<1>5. QED
  BY <1>3, <1>4

LEMMA CurrentKeeps == ASSUME Inv, RotateCurrent PROVE Inv'
<1>1. Typed /\ written \in Nat
  BY DEF Inv, Typed
<1>2. /\ written' = written /\ current' = <<>> /\ step' = "create"
      /\ old_file = 1 /\ file[1] = <<>> /\ 1 <= max_files
      /\ file' = [file EXCEPT ![1] = current]
  BY LoggingAssumption DEF RotateCurrent, Inv, Rotation
<1>3. 0 \in Numbers /\ 0 + 1 \in Numbers /\ 0 + 1 = 1
  BY <1>2, LoggingAssumption DEF Numbers
<1>4. /\ Files[0 + 1] = <<>> /\ Files'[0 + 1] = Files[0] /\ Files'[0] = <<>>
      /\ \A n \in Numbers : n # 0 /\ n # 0 + 1 => Files'[n] = Files[n]
  BY <1>1, <1>2, <1>3, FilesTyped, FilesNext DEF Typed
<1>5. Sound(Files', written)
  BY <1>1, <1>3, <1>4, MovedFile DEF Inv
<1>6. Typed' /\ Rotation'
  BY <1>1, <1>2, <1>3 DEF Typed, Rotation
<1>7. QED
  BY <1>2, <1>5, <1>6 DEF Inv

LEMMA InitKeeps == Init => Inv
<1> SUFFICES ASSUME Init PROVE Inv
  OBVIOUS
<1>1. Typed /\ Rotation
  BY DEF Init, Typed, Rotation
<1>2. \A n \in Numbers : Files[n] = <<>>
  BY DEF Init, Files
<1>3. \A n \in Numbers : LinesIn(Files)[n] = {}
  BY <1>2, NoLines
<1>4. \A n \in Numbers : InOrder(Files[n])
  BY <1>2, EmptyInOrder
<1>5. NewestIn(LinesIn(Files), written) /\ Past(LinesIn(Files), written)
  BY <1>3 DEF Init, NewestIn, Past
<1>6. QED
  BY <1>1, <1>4, <1>5 DEF Inv, Sound

LEMMA NextKeeps == Inv /\ [Next]_vars => Inv'
<1> SUFFICES ASSUME Inv, [Next]_vars PROVE Inv'
  OBVIOUS
<1>1. ASSUME current' = current, file' = file, written' = written, Rotation' PROVE Inv'
  BY <1>1, Unchanged DEF Inv, Typed
<1>2. CASE UNCHANGED vars
  BY <1>1, <1>2 DEF vars, Inv, Rotation
<1>3. CASE RotateCreate
  BY <1>1, <1>3 DEF RotateCreate, Rotation
<1>4. CASE Crash
  BY <1>1, <1>4 DEF Crash, Rotation
<1>5. QED
  BY <1>2, <1>3, <1>4, LogKeeps, UnlinkKeeps, ShiftKeeps, CurrentKeeps DEF Next

LEMMA Inductive == Spec => []Inv
BY InitKeeps, NextKeeps, PTL DEF Spec

\* Whatever the number and the size of the files, and however often the program
\* stops in the middle of a rotation, the files hold the newest lines, each once,
\* in order, and with no gap up to the last one written.
THEOREM NewestAreKept == Spec => []NewestKept
<1>1. Inv => NewestKept
  BY DEF Inv, Sound, NewestKept
<1>2. QED
  BY <1>1, Inductive, PTL

-----------------------------------------------------------------------------
(* The types.                                                              *)

\* At the start all files are empty.
LEMMA InitTypes == Init => TypeOK
BY LoggingAssumption DEF Init, TypeOK, Numbers

\* Each step writes lines that are counted, or moves a file whole.
LEMMA NextTypes ==
  ASSUME max_files > 0 \/ MaxTurns > 0, TypeOK, [Next]_vars
  PROVE  TypeOK'
<1>1. CASE Log
  <2>1. written + 1 \in 1 .. MaxLines /\ written' = written + 1
    BY <1>1, LoggingAssumption DEF Log, TypeOK
  <2>2. current' \in Seq(1 .. MaxLines)
    BY <1>1, <2>1 DEF Log, TypeOK
  <2>3. QED
    BY <1>1, <2>1, <2>2, LoggingAssumption DEF Log, TypeOK
<1>2. CASE RotateUnlink
  <2>1. i' \in -MaxTurns .. max_files /\ old_file' \in -MaxTurns .. max_files
    <3>1. i' = max_files - 1 /\ old_file' = max_files
      BY <1>2 DEF RotateUnlink
    <3>2. max_files \in Nat /\ MaxTurns \in Nat
      BY LoggingAssumption
    <3>3. QED
      BY <3>1, <3>2
  <2>2. file' \in [Numbers -> Seq(1 .. MaxLines)]
    <3>1. <<>> \in Seq(1 .. MaxLines)
      OBVIOUS
    <3>2. QED
      BY <1>2, <3>1 DEF RotateUnlink, TypeOK
  <2>3. QED
    BY <1>2, <2>1, <2>2 DEF RotateUnlink, TypeOK
<1>3. CASE RotateShift
  <2>1. i' \in -MaxTurns .. max_files /\ old_file' \in -MaxTurns .. max_files
    BY <1>3, LoggingAssumption DEF RotateShift, TypeOK
  <2>2. file' \in [Numbers -> Seq(1 .. MaxLines)]
    <3>1. CASE i \in Numbers /\ file[i] # <<>>
      <4>1. file[i] \in Seq(1 .. MaxLines) /\ <<>> \in Seq(1 .. MaxLines)
        BY <3>1 DEF TypeOK
      <4>2. file' = [file EXCEPT ![i + 1] = file[i], ![i] = <<>>]
        BY <1>3, <3>1 DEF RotateShift
      <4>3. QED
        BY <4>1, <4>2 DEF TypeOK
    <3>2. CASE ~ (i \in Numbers /\ file[i] # <<>>)
      BY <1>3, <3>2 DEF RotateShift, TypeOK
    <3>3. QED
      BY <3>1, <3>2
  <2>3. QED
    BY <1>3, <2>1, <2>2 DEF RotateShift, TypeOK
<1>4. CASE RotateCurrent
  <2>1. file' \in [Numbers -> Seq(1 .. MaxLines)] /\ current' \in Seq(1 .. MaxLines)
    <3>1. current \in Seq(1 .. MaxLines) /\ <<>> \in Seq(1 .. MaxLines)
      BY DEF TypeOK
    <3>2. file' = [file EXCEPT ![old_file] = current] /\ current' = <<>>
      BY <1>4 DEF RotateCurrent
    <3>3. QED
      BY <3>1, <3>2 DEF TypeOK
  <2>2. QED
    BY <1>4, <2>1 DEF RotateCurrent, TypeOK
<1>5. CASE RotateCreate
  BY <1>5 DEF RotateCreate, TypeOK
<1>6. CASE Crash
  BY <1>6, LoggingAssumption DEF Crash, TypeOK
<1>7. CASE UNCHANGED vars
  BY <1>7 DEF vars, TypeOK
<1>8. QED
  BY <1>1, <1>2, <1>3, <1>4, <1>5, <1>6, <1>7 DEF Next

\* The values of the variables: the lines a file can hold and, with rotated logs
\* wanted or a turn below 0 to take, the numbers a rotation can name.
THEOREM TypeCorrect == ASSUME max_files > 0 \/ MaxTurns > 0 PROVE Spec => []TypeOK
BY InitTypes, NextTypes, PTL DEF Spec

-----------------------------------------------------------------------------
(* What Kept is.  FlattenSeq is a recursive function: that there is a       *)
(* function such as it asks for is shown first.                             *)

Joined(f, s, n) == f = [k \in 1 .. n |-> IF k = 1 THEN s[k] ELSE f[k - 1] \o s[k]]

\* The least number with a property, of those with it.
LEMMA Lowest ==
  ASSUME NEW S \in SUBSET Nat, S # {}
  PROVE  \E x \in S : \A y \in S : x <= y
<1>1. PICK x \in S : \A y \in S : ~ (<<y, x>> \in OpToRel(<, Nat))
  BY WFMin, NatLessThanWellFounded
<1>2. ASSUME NEW y \in S PROVE x <= y
  <2>1. y < x => <<y, x>> \in OpToRel(<, Nat)
    BY DEF OpToRel
  <2>2. ~ (y < x)
    BY <1>1, <2>1
  <2>3. QED
    BY <2>2
<1>3. QED
  BY <1>2

\* There is such a function for every n: the least n without one would have one.
LEMMA JoinedExists ==
  ASSUME NEW s, NEW n \in Nat
  PROVE  \E f : Joined(f, s, n)
<1> DEFINE None == {m \in Nat : ~ \E f : Joined(f, s, m)}
<1> SUFFICES ASSUME None # {} PROVE FALSE
  OBVIOUS
<1>1. None \in SUBSET Nat
  OBVIOUS
<1>2. PICK m \in None : \A y \in None : m <= y
  <2> HIDE DEF None
  <2>1. QED
    BY <1>1, Lowest
<1>3. m \in Nat /\ ~ \E f : Joined(f, s, m)
  OBVIOUS
<1>4. m # 0
  <2>1. Joined([k \in 1 .. 0 |-> s], s, 0)
    <3>1. \A k : k \notin 1 .. 0
      OBVIOUS
    <3>2. QED
      BY <3>1, Zenon DEF Joined
  <2>2. QED
    BY <1>3, <2>1
<1>5. PICK g : Joined(g, s, m - 1)
  <2>1. m - 1 \in Nat /\ m - 1 \notin None
    BY <1>2, <1>3, <1>4
  <2>2. QED
    BY <2>1
<1> DEFINE f == [k \in 1 .. m |-> IF k < m THEN g[k]
                                  ELSE IF k = 1 THEN s[k] ELSE g[k - 1] \o s[k]]
<1>6. Joined(f, s, m)
  <2>1. ASSUME NEW k \in 1 .. m PROVE f[k] = IF k = 1 THEN s[k] ELSE f[k - 1] \o s[k]
    <3>1. CASE k < m
      <4>1. k \in 1 .. m - 1 /\ f[k] = g[k]
        BY <1>3, <3>1
      <4>2. g[k] = IF k = 1 THEN s[k] ELSE g[k - 1] \o s[k]
        BY <1>5, <4>1 DEF Joined
      <4>3. k # 1 => f[k - 1] = g[k - 1]
        BY <1>3, <3>1
      <4>4. QED
        BY <4>1, <4>2, <4>3
    <3>2. CASE k = m
      <4>1. f[k] = IF k = 1 THEN s[k] ELSE g[k - 1] \o s[k]
        BY <3>2
      <4>2. k # 1 => f[k - 1] = g[k - 1]
        BY <1>3, <3>2
      <4>3. QED
        BY <4>1, <4>2
    <3>3. QED
      BY <1>3, <3>1, <3>2
  <2>2. f = [k \in 1 .. m |-> f[k]]
    OBVIOUS
  <2> HIDE DEF f
  <2>3. QED
    BY <2>1, <2>2 DEF Joined
<1>7. QED
  BY <1>3, <1>6

\* So what FlattenSeq chooses is one.
LEMMA FlattenIs ==
  ASSUME NEW s, NEW n \in Nat \ {0}, Len(s) = n
  PROVE  \E f : Joined(f, s, n) /\ FlattenSeq(s) = f[n]
<1> DEFINE flatten == CHOOSE f : Joined(f, s, n)
<1>1. FlattenSeq(s) = flatten[n]
  BY DEF FlattenSeq, Joined
<1>2. Joined(flatten, s, n)
  <2>1. \E f : Joined(f, s, n)
    BY JoinedExists
  <2>2. QED
    BY <2>1
<1>3. QED
  BY <1>1, <1>2

OldestFirst == [n \in 1 .. max_files |-> file[max_files + 1 - n]]

\* The numbers of files there are not.
Empty(a, b) == {m \in a .. b : file[m] = <<>>}

\* A rotated file is a full one.
Full == \A n \in 1 .. max_files : file[n] # <<>> => Len(file[n]) >= max_size + 1

\* What the k oldest files come to: their lines, and as many of them as the files
\* that are there hold.
Comprises(q, k) ==
  /\ q \in Seq(Int)
  /\ \A m \in max_files + 1 - k .. max_files : \A l \in DOMAIN file[m] :
       \E j \in DOMAIN q : q[j] = file[m][l]
  /\ Len(q) >= (k - Cardinality(Empty(max_files + 1 - k, max_files))) * (max_size + 1)

\* The missing files of a range are finitely many, and its first comes with the rest.
LEMMA EmptyFinite ==
  ASSUME NEW a \in Int, NEW b \in Int
  PROVE  /\ IsFiniteSet(Empty(a, b)) /\ Cardinality(Empty(a, b)) \in Nat
         /\ a <= b => Empty(a, b) = Empty(a + 1, b) \union Empty(a, a)
<1>1. IsFiniteSet(a .. b) /\ Empty(a, b) \in SUBSET (a .. b)
  BY FS_Interval DEF Empty
<1>2. IsFiniteSet(Empty(a, b))
  BY <1>1, FS_Subset
<1>3. a <= b => Empty(a, b) = Empty(a + 1, b) \union Empty(a, a)
  BY DEF Empty
<1>4. QED
  BY <1>2, <1>3, FS_CardinalityType

\* One more file, there or not.
LEMMA OneEmpty ==
  ASSUME NEW a \in Int, NEW b \in Int, a <= b
  PROVE  Cardinality(Empty(a, b))
           = IF file[a] = <<>> THEN Cardinality(Empty(a + 1, b)) + 1
             ELSE Cardinality(Empty(a + 1, b))
<1>1. /\ Empty(a, b) = IF file[a] = <<>> THEN Empty(a + 1, b) \union {a} ELSE Empty(a + 1, b)
      /\ a \notin Empty(a + 1, b)
  BY DEF Empty
<1>2. IsFiniteSet(Empty(a + 1, b))
  BY EmptyFinite
<1>3. QED
  BY <1>1, <1>2, FS_AddElement

\* What is in two sequences is in both together.
LEMMA Concat ==
  ASSUME NEW q \in Seq(Int), NEW t \in Seq(Int)
  PROVE  /\ q \o t \in Seq(Int) /\ Len(q \o t) = Len(q) + Len(t)
         /\ Len(q) \in Nat /\ Len(t) \in Nat
         /\ \A j \in DOMAIN q : j \in DOMAIN (q \o t) /\ (q \o t)[j] = q[j]
         /\ \A l \in DOMAIN t : Len(q) + l \in DOMAIN (q \o t) /\ (q \o t)[Len(q) + l] = t[l]
OBVIOUS

\* By the least k for which it would be wrong.
LEMMA JoinedLines ==
  ASSUME Typed, Full, NEW f, Joined(f, OldestFirst, max_files), NEW k \in 1 .. max_files
  PROVE  Comprises(f[k], k)
<1> DEFINE w == max_size + 1
           Bad == {n \in 1 .. max_files : ~ Comprises(f[n], n)}
<1> SUFFICES ASSUME Bad # {} PROVE FALSE
  OBVIOUS
<1>1. Bad \in SUBSET Nat
  BY LoggingAssumption
<1>2. PICK n \in Bad : \A y \in Bad : n <= y
  <2> HIDE DEF Bad
  <2>1. QED
    BY <1>1, Lowest
<1>3. /\ n \in 1 .. max_files /\ ~ Comprises(f[n], n)
      /\ max_files \in Nat /\ n \in Nat /\ w \in Nat
  BY LoggingAssumption
<1> DEFINE a == max_files + 1 - n
           g == Cardinality(Empty(a, max_files))
           h == Cardinality(Empty(a + 1, max_files))
<1>4. /\ a \in 1 .. max_files /\ a \in Numbers /\ OldestFirst[n] = file[a]
      /\ file[a] \in Seq(Int)
  BY <1>3 DEF OldestFirst, Typed, Numbers
<1>5. f[n] = IF n = 1 THEN file[a] ELSE f[n - 1] \o file[a]
  BY <1>3, <1>4 DEF Joined
<1>6. g \in Nat /\ h \in Nat /\ g = IF file[a] = <<>> THEN h + 1 ELSE h
  <2>1. a \in Int /\ a + 1 \in Int /\ max_files \in Int /\ a <= max_files
    BY <1>3
  <2> HIDE DEF a
  <2>2. QED
    BY <2>1, EmptyFinite, OneEmpty
<1>7. Len(file[a]) \in Nat /\ (file[a] # <<>> => Len(file[a]) >= w)
  BY <1>4 DEF Full
<1>8. CASE n = 1
  <2>1. f[n] = file[a] /\ a = max_files
    BY <1>3, <1>5, <1>8
  <2>2. h = 0
    <3>1. Empty(a + 1, max_files) = {}
      BY <1>3, <2>1 DEF Empty
    <3>2. QED
      BY <3>1, FS_EmptySet
  <2>3. Len(f[n]) >= (n - g) * w
    <3> HIDE DEF a, g, h, w
    <3>1. CASE file[a] = <<>>
      <4>1. n - g = 0
        BY <1>6, <1>8, <2>2, <3>1
      <4>2. (n - g) * w = 0
        BY <1>3, <4>1
      <4>3. QED
        BY <1>7, <2>1, <4>2
    <3>2. CASE file[a] # <<>>
      <4>1. n - g = 1
        BY <1>6, <1>8, <2>2, <3>2
      <4>2. (n - g) * w = w
        BY <1>3, <4>1
      <4>3. QED
        BY <1>7, <2>1, <3>2, <4>2
    <3>3. QED
      BY <3>1, <3>2
  <2>4. QED
    BY <1>3, <1>4, <2>1, <2>3 DEF Comprises
<1>9. CASE n # 1
  <2> DEFINE q == f[n - 1]
  <2>1. Comprises(q, n - 1)
    <3>1. n - 1 \notin Bad
      BY <1>2, <1>3
    <3>2. QED
      BY <1>3, <1>9, <3>1
  <2>2. max_files + 1 - (n - 1) = a + 1
    BY <1>3
  <2>3. /\ q \in Seq(Int)
        /\ \A m \in a + 1 .. max_files : \A l \in DOMAIN file[m] :
             \E j \in DOMAIN q : q[j] = file[m][l]
        /\ Len(q) >= (n - 1 - h) * w
    BY <2>1, <2>2 DEF Comprises
  <2>4. f[n] = q \o file[a]
    BY <1>5, <1>9
  <2> HIDE DEF q
  <2>5. /\ f[n] \in Seq(Int) /\ Len(f[n]) = Len(q) + Len(file[a]) /\ Len(q) \in Nat
        /\ \A j \in DOMAIN q : j \in DOMAIN f[n] /\ f[n][j] = q[j]
        /\ \A l \in DOMAIN file[a] :
             Len(q) + l \in DOMAIN f[n] /\ f[n][Len(q) + l] = file[a][l]
    <3> DEFINE t == file[a]
    <3>1. t \in Seq(Int) /\ f[n] = q \o t
      BY <1>4, <2>4
    <3> HIDE DEF t
    <3>2. /\ q \o t \in Seq(Int) /\ Len(q \o t) = Len(q) + Len(t) /\ Len(q) \in Nat
          /\ \A j \in DOMAIN q : j \in DOMAIN (q \o t) /\ (q \o t)[j] = q[j]
          /\ \A l \in DOMAIN t :
               Len(q) + l \in DOMAIN (q \o t) /\ (q \o t)[Len(q) + l] = t[l]
      BY <2>3, <3>1, Concat
    <3>3. QED
      BY <3>1, <3>2 DEF t
  <2>6. \A m \in a .. max_files : \A l \in DOMAIN file[m] :
          \E j \in DOMAIN f[n] : f[n][j] = file[m][l]
    <3>1. ASSUME NEW m \in a .. max_files, NEW l \in DOMAIN file[m]
          PROVE  \E j \in DOMAIN f[n] : f[n][j] = file[m][l]
      <4>1. CASE m = a
        BY <2>5, <3>1, <4>1
      <4>2. CASE m # a
        <5>1. m \in a + 1 .. max_files
          BY <1>4, <3>1, <4>2
        <5>2. PICK j \in DOMAIN q : q[j] = file[m][l]
          BY <2>3, <3>1, <5>1
        <5>3. QED
          BY <2>5, <5>2
      <4>3. QED
        BY <4>1, <4>2
    <3>2. QED
      BY <3>1
  <2>7. Len(f[n]) >= (n - g) * w
    <3> HIDE DEF a, g, h, w
    <3>1. CASE file[a] = <<>>
      <4>1. n - g = n - 1 - h
        BY <1>3, <1>6, <3>1
      <4>2. (n - g) * w = (n - 1 - h) * w /\ (n - 1 - h) * w \in Int
        BY <1>3, <1>6, <4>1
      <4>3. QED
        BY <1>7, <2>3, <2>5, <4>2
    <3>2. CASE file[a] # <<>>
      <4>1. n - g = (n - 1 - h) + 1
        BY <1>3, <1>6, <3>2
      <4>2. (n - g) * w = (n - 1 - h) * w + w
        BY <1>3, <1>6, <4>1
      <4>3. QED
        BY <1>3, <1>6, <1>7, <2>3, <2>5, <3>2, <4>2
    <3>3. QED
      BY <3>1, <3>2
  <2>8. QED
    BY <1>3, <2>5, <2>6, <2>7 DEF Comprises
<1>10. QED
  BY <1>8, <1>9

\* What can be read is the files' lines and the current ones.
LEMMA KeptHas ==
  ASSUME Typed, Full, max_files > 0
  PROVE  /\ Kept \in Seq(Int)
         /\ \A n \in Numbers : \A l \in DOMAIN Files[n] :
              \E j \in DOMAIN Kept : Kept[j] = Files[n][l]
         /\ Len(Kept) >= (max_files - Cardinality(Empty(1, max_files))) * (max_size + 1)
<1>1. max_files \in Nat \ {0} /\ max_files \in 1 .. max_files /\ current \in Seq(Int)
  BY LoggingAssumption DEF Typed
<1>2. Len(OldestFirst) = max_files
  BY <1>1 DEF OldestFirst
<1>3. PICK f : Joined(f, OldestFirst, max_files) /\ FlattenSeq(OldestFirst) = f[max_files]
  BY <1>1, <1>2, FlattenIs
<1> DEFINE q == f[max_files]
<1>4. Comprises(q, max_files)
  BY <1>1, <1>3, JoinedLines
<1>5. max_files + 1 - max_files = 1
  BY <1>1
<1>6. Kept = q \o current
  BY <1>3 DEF Kept, OldestFirst
<1>7. /\ q \in Seq(Int)
      /\ \A m \in 1 .. max_files : \A l \in DOMAIN file[m] : \E j \in DOMAIN q : q[j] = file[m][l]
      /\ Len(q) >= (max_files - Cardinality(Empty(1, max_files))) * (max_size + 1)
  BY <1>4, <1>5 DEF Comprises
<1> HIDE DEF q
<1>8. /\ Kept \in Seq(Int) /\ Len(Kept) = Len(q) + Len(current) /\ Len(q) \in Nat
      /\ Len(current) \in Nat
      /\ \A j \in DOMAIN q : j \in DOMAIN Kept /\ Kept[j] = q[j]
      /\ \A l \in DOMAIN current : Len(q) + l \in DOMAIN Kept /\ Kept[Len(q) + l] = current[l]
  BY <1>1, <1>6, <1>7, Concat
<1>9. ASSUME NEW n \in Numbers, NEW l \in DOMAIN Files[n]
      PROVE  \E j \in DOMAIN Kept : Kept[j] = Files[n][l]
  <2>1. CASE n = 0
    <3>1. Files[n] = current
      BY <2>1 DEF Files
    <3>2. QED
      BY <1>8, <1>9, <3>1
  <2>2. CASE n # 0
    <3>1. Files[n] = file[n] /\ n \in 1 .. max_files
      BY <1>1, <2>2 DEF Files, Numbers
    <3>2. PICK j \in DOMAIN q : q[j] = file[n][l]
      BY <1>7, <1>9, <3>1
    <3>3. QED
      BY <1>8, <3>1, <3>2
  <2>3. QED
    BY <2>1, <2>2
<1>10. (max_files - Cardinality(Empty(1, max_files))) * (max_size + 1) \in Int
  <2>1. Cardinality(Empty(1, max_files)) \in Nat
    <3>1. 1 \in Int /\ max_files \in Int
      BY <1>1
    <3>2. QED
      BY <3>1, EmptyFinite
  <2>2. QED
    BY <1>1, <2>1, LoggingAssumption
<1>11. QED
  BY <1>7, <1>8, <1>9, <1>10

-----------------------------------------------------------------------------
(* How many are kept.  A stop in a rotation leaves a gap in the numbers, and *)
(* a gap moves up with the files until it is dropped: below a file that is   *)
(* there, the oldest that was dropped included, are no more gaps than stops. *)

\* The first line is no longer there.
Lost == written > 0 /\ \A n \in Numbers : \A l \in DOMAIN Files[n] : Files[n][l] # 1

Occupied(n) == IF n = max_files + 1 THEN Lost ELSE file[n] # <<>>

\* The room a rotation has made, and will fill, is no gap.
Room(m) == step = "shift" /\ m = old_file
Gaps(n) == {m \in 1 .. n - 1 : file[m] = <<>> /\ ~Room(m)}

FewGaps == \A n \in 1 .. max_files + 1 : Occupied(n) => Cardinality(Gaps(n)) <= crashes

GapInv ==
  /\ Full
  /\ step \in {"unlink", "shift"} => Len(current) >= max_size + 1
  /\ step = "shift" => i >= 0
  /\ crashes \in Nat
  /\ FewGaps

\* The gaps below a number are finitely many.
LEMMA GapsFinite ==
  ASSUME NEW n \in Int PROVE IsFiniteSet(Gaps(n)) /\ Cardinality(Gaps(n)) \in Nat
<1>1. IsFiniteSet(1 .. n - 1) /\ Gaps(n) \in SUBSET (1 .. n - 1)
  BY FS_Interval DEF Gaps
<1>2. QED
  BY <1>1, FS_Subset, FS_CardinalityType

\* Fewer gaps are no more than the stops either.
LEMMA FewerGaps ==
  ASSUME NEW n \in Int, NEW S \in SUBSET Gaps(n), crashes \in Nat,
         Cardinality(Gaps(n)) <= crashes
  PROVE  Cardinality(S) <= crashes
<1>1. Cardinality(S) <= Cardinality(Gaps(n)) /\ IsFiniteSet(S)
  BY GapsFinite, FS_Subset
<1>2. Cardinality(S) \in Nat /\ Cardinality(Gaps(n)) \in Nat
  BY <1>1, GapsFinite, FS_CardinalityType
<1>3. QED
  BY <1>1, <1>2

\* What is moved is not lost.
LEMMA LostMoves ==
  ASSUME \A n \in Numbers : \E m \in Numbers : Files'[m] = Files[n],
         written' = written, Lost'
  PROVE  Lost
<1>1. written > 0
  BY DEF Lost
<1>2. ASSUME NEW n \in Numbers, NEW l \in DOMAIN Files[n] PROVE Files[n][l] # 1
  <2>1. PICK m \in Numbers : Files'[m] = Files[n]
    OBVIOUS
  <2>2. \A k \in DOMAIN Files'[m] : Files'[m][k] # 1
    BY DEF Lost
  <2>3. QED
    BY <1>2, <2>1, <2>2
<1>3. QED
  BY <1>1, <1>2 DEF Lost

\* A line that is appended is in the current file, the first one too.
LEMMA LostLog == ASSUME Inv, Log, Lost' PROVE Lost
<1>1. Typed /\ written \in Nat /\ current \in Seq(Int) /\ 0 \in Numbers
  BY LoggingAssumption DEF Inv, Typed, Numbers
<1>2. /\ written' = written + 1 /\ file' = file /\ current' = Append(current, written + 1)
      /\ Files[0] = current /\ Files'[0] = current'
      /\ \A n \in Numbers : n # 0 => Files'[n] = Files[n]
  BY <1>1, FilesTyped, FilesNext DEF Log
<1>3. \A n \in Numbers : \A l \in DOMAIN Files'[n] : Files'[n][l] # 1
  BY DEF Lost
<1>4. /\ Len(current) + 1 \in DOMAIN current' /\ current'[Len(current) + 1] = written + 1
      /\ \A l \in DOMAIN current : l \in DOMAIN current' /\ current'[l] = current[l]
  BY <1>1, <1>2
<1>5. written > 0
  BY <1>1, <1>2, <1>3, <1>4
<1>6. ASSUME NEW n \in Numbers, NEW l \in DOMAIN Files[n] PROVE Files[n][l] # 1
  <2>1. CASE n = 0
    BY <1>1, <1>2, <1>3, <1>4, <1>6, <2>1
  <2>2. CASE n # 0
    BY <1>2, <1>3, <1>6, <2>2
  <2>3. QED
    BY <2>1, <2>2
<1>7. QED
  BY <1>5, <1>6 DEF Lost

\* Steps that leave the rotated files, and the room among them, alone.
LEMMA GapsStay ==
  ASSUME FewGaps, file' = file, crashes' = crashes, Lost' => Lost,
         \A m \in 1 .. max_files : Room(m)' <=> Room(m)
  PROVE  FewGaps'
<1>1. ASSUME NEW n \in 1 .. max_files + 1 PROVE Gaps(n)' = Gaps(n)
  <2>1. \A m \in 1 .. n - 1 : m \in 1 .. max_files
    BY LoggingAssumption
  <2>2. QED
    BY <2>1 DEF Gaps
<1>2. QED
  BY <1>1 DEF FewGaps, Occupied

\* A line that is appended makes no gap; when it fills the file, a rotation follows.
LEMMA LogGaps == ASSUME Inv, GapInv, Log PROVE GapInv'
<1>1. Lost' => Lost
  BY LostLog
<1>2. Len(current') = Len(current) + 1 /\ Len(current) \in Nat
  BY DEF Inv, Typed, Log
<1>3. file' = file /\ crashes' = crashes /\ step = "idle" /\ step' # "shift"
  BY DEF Log
<1>4. FewGaps'
  BY <1>1, <1>3, GapsStay DEF GapInv, Room
<1>5. step' \in {"unlink", "shift"} => Len(current') >= max_size + 1
  BY <1>2, LoggingAssumption DEF Log
<1>6. Full'
  BY <1>3 DEF GapInv, Full
<1>7. QED
  BY <1>3, <1>4, <1>5, <1>6 DEF GapInv

\* The oldest file is dropped: it was full, and what is below it has few gaps.
LEMMA UnlinkGaps == ASSUME max_files > 0, Inv, GapInv, RotateUnlink PROVE GapInv'
<1>1. /\ Typed /\ max_files \in Nat
      /\ crashes \in Nat /\ crashes' = crashes /\ written' = written
  BY LoggingAssumption DEF Inv, Typed, GapInv, RotateUnlink
<1>2. /\ current' = current /\ step = "unlink" /\ step' = "shift" /\ i' = max_files - 1
      /\ old_file' = max_files /\ file'[max_files] = <<>>
      /\ \A n \in Numbers : n # max_files => file'[n] = file[n]
  BY <1>1 DEF RotateUnlink, Typed, Numbers
<1>3. Full'
  BY <1>1, <1>2 DEF GapInv, Full, Numbers
<1>4. ASSUME NEW n \in 1 .. max_files PROVE Gaps(n)' = Gaps(n)
  BY <1>1, <1>2, <1>4 DEF Gaps, Room, Numbers
<1>5. Gaps(max_files + 1)' = Gaps(max_files) /\ Gaps(max_files) \subseteq Gaps(max_files + 1)
  BY <1>1, <1>2 DEF Gaps, Room, Numbers
<1>6. ASSUME Lost' PROVE Lost \/ file[max_files] # <<>>
  <2>1. CASE file[max_files] = <<>>
    <3>1. \A n \in Numbers : file'[n] = file[n]
      BY <1>2, <2>1
    <3>2. \A n \in Numbers : Files'[n] = Files[n]
      BY <1>1, <1>2, <3>1, FilesTyped, FilesNext
    <3>3. QED
      BY <1>1, <1>6, <3>2, LostMoves
  <2>2. QED
    BY <2>1
<1>7. ASSUME NEW n \in 1 .. max_files + 1, Occupied(n)'
      PROVE  Cardinality(Gaps(n))' <= crashes'
  <2>1. CASE n = max_files + 1
    <3>1. Occupied(max_files) \/ Occupied(max_files + 1)
      BY <1>1, <1>6, <1>7, <2>1 DEF Occupied
    <3>2. Cardinality(Gaps(max_files)) <= crashes \/ Cardinality(Gaps(max_files + 1)) <= crashes
      <4>1. max_files \in 1 .. max_files + 1 /\ max_files + 1 \in 1 .. max_files + 1
        BY <1>1
      <4>2. QED
        BY <3>1, <4>1 DEF GapInv, FewGaps
    <3>3. Cardinality(Gaps(max_files)) <= crashes
      <4>1. max_files + 1 \in Int
        BY <1>1
      <4>2. QED
        BY <1>1, <1>5, <3>2, <4>1, FewerGaps
    <3>4. QED
      BY <1>1, <1>5, <2>1, <3>3
  <2>2. CASE n # max_files + 1
    <3>1. n \in 1 .. max_files /\ n # max_files
      BY <1>1, <1>2, <1>7, <2>2 DEF Occupied
    <3>2. Occupied(n)
      BY <1>2, <1>7, <2>2, <3>1 DEF Occupied, Numbers
    <3>3. QED
      BY <1>1, <1>4, <3>1, <3>2 DEF GapInv, FewGaps
  <2>3. QED
    BY <2>1, <2>2
<1>8. FewGaps'
  BY <1>7 DEF FewGaps
<1>9. QED
  BY <1>1, <1>2, <1>3, <1>8 DEF GapInv

\* A gap changes places with the room: as many are below any file as before.
LEMMA GapMoves ==
  ASSUME NEW n \in Int, NEW S, NEW a \in Gaps(n), NEW b, b \notin Gaps(n),
         S = (Gaps(n) \ {a}) \union {b}
  PROVE  Cardinality(S) = Cardinality(Gaps(n))
<1>1. IsFiniteSet(Gaps(n)) /\ Cardinality(Gaps(n)) \in Nat
  BY GapsFinite
<1>2. /\ IsFiniteSet(Gaps(n) \ {a})
      /\ Cardinality(Gaps(n) \ {a}) = Cardinality(Gaps(n)) - 1
  BY <1>1, FS_RemoveElement
<1>3. Cardinality(S) = Cardinality(Gaps(n) \ {a}) + 1
  BY <1>2, FS_AddElement
<1>4. QED
  BY <1>1, <1>2, <1>3

\* A file, or a gap, moves up into the room.
LEMMA ShiftGaps == ASSUME max_files > 0, Inv, GapInv, RotateShift PROVE GapInv'
<1>1. /\ Typed /\ max_files \in Nat
      /\ crashes \in Nat /\ crashes' = crashes /\ written' = written
  BY LoggingAssumption DEF Inv, Typed, GapInv, RotateShift
<1>2. /\ current' = current /\ step = "shift" /\ step' = "shift" /\ i' = i - 1
      /\ i \in Int /\ i > 0 /\ old_file = i + 1 /\ old_file' = i /\ i + 1 <= max_files
      /\ file[i + 1] = <<>> /\ i \in Numbers /\ i + 1 \in Numbers
  BY <1>1 DEF RotateShift, Inv, Rotation, GapInv, Numbers
<1>3. /\ file'[i + 1] = file[i] /\ file'[i] = <<>>
      /\ \A n \in Numbers : n # i /\ n # i + 1 => file'[n] = file[n]
  <2>1. CASE file[i] # <<>>
    <3>1. file' = [file EXCEPT ![i + 1] = file[i], ![i] = <<>>]
      BY <1>2, <2>1 DEF RotateShift
    <3>2. QED
      BY <1>1, <1>2, <3>1 DEF Typed
  <2>2. CASE file[i] = <<>>
    <3>1. file' = file
      BY <2>2 DEF RotateShift
    <3>2. QED
      BY <1>2, <2>2, <3>1
  <2>3. QED
    BY <2>1, <2>2
<1>4. Full'
  <2>1. ASSUME NEW n \in 1 .. max_files, file'[n] # <<>> PROVE Len(file'[n]) >= max_size + 1
    <3>1. n # i /\ n \in Numbers
      BY <1>1, <1>3, <2>1 DEF Numbers
    <3>2. CASE n = i + 1
      <4>1. file'[n] = file[i] /\ i \in 1 .. max_files
        BY <1>1, <1>2, <1>3, <3>2
      <4>2. QED
        BY <2>1, <4>1 DEF GapInv, Full
    <3>3. CASE n # i + 1
      <4>1. file'[n] = file[n]
        BY <1>3, <3>1, <3>3
      <4>2. QED
        BY <2>1, <4>1 DEF GapInv, Full
    <3>4. QED
      BY <3>2, <3>3
  <2>2. QED
    BY <2>1 DEF Full
<1>5. Lost' => Lost
  <2>1. Files'[i + 1] = Files[i] /\ Files'[i] = <<>> /\ Files[i + 1] = <<>>
    BY <1>1, <1>2, <1>3, FilesTyped, FilesNext
  <2>2. \A n \in Numbers : n # i /\ n # i + 1 => Files'[n] = Files[n]
    BY <1>1, <1>2, <1>3, FilesTyped, FilesNext
  <2>3. \A n \in Numbers : \E m \in Numbers : Files'[m] = Files[n]
    BY <1>2, <2>1, <2>2
  <2>4. QED
    BY <1>1, <2>3, LostMoves
<1>6. ASSUME NEW m \in 1 .. max_files, m # i, m # i + 1
      PROVE  m \in Gaps(max_files + 1)' <=> m \in Gaps(max_files + 1)
  BY <1>1, <1>2, <1>3, <1>6 DEF Gaps, Room, Numbers
<1>7. /\ i \notin Gaps(max_files + 1)' /\ i + 1 \notin Gaps(max_files + 1)
      /\ i + 1 \in Gaps(max_files + 1)' <=> i \in Gaps(max_files + 1)
  BY <1>1, <1>2, <1>3 DEF Gaps, Room
<1>8. ASSUME NEW n \in 1 .. max_files + 1, NEW m
      PROVE  /\ m \in Gaps(n) <=> m \in 1 .. n - 1 /\ m \in Gaps(max_files + 1)
             /\ m \in Gaps(n)' <=> m \in 1 .. n - 1 /\ m \in Gaps(max_files + 1)'
  <2>1. m \in 1 .. n - 1 => m \in 1 .. max_files + 1 - 1
    BY <1>1
  <2>2. m \in Gaps(n) <=> m \in 1 .. n - 1 /\ m \in Gaps(max_files + 1)
    BY <1>1, <2>1 DEF Gaps
  <2>3. m \in Gaps(n)' <=> m \in 1 .. n - 1 /\ m \in Gaps(max_files + 1)'
    BY <1>1, <2>1 DEF Gaps
  <2>4. QED
    BY <2>2, <2>3
<1>9. ASSUME NEW n \in 1 .. max_files + 1, Occupied(n)'
      PROVE  Cardinality(Gaps(n))' <= crashes'
  <2>1. n # i
    BY <1>1, <1>2, <1>3, <1>9 DEF Occupied
  <2>2. CASE n = i + 1
    <3>1. Occupied(i) /\ i \in 1 .. max_files + 1
      BY <1>1, <1>2, <1>3, <1>9, <2>2 DEF Occupied
    <3>2. Gaps(n)' = Gaps(i)
      <4>1. ASSUME NEW m PROVE m \in Gaps(n)' <=> m \in Gaps(i)
        <5>1. m \in Gaps(n)' <=> m \in 1 .. i /\ m \in Gaps(max_files + 1)'
          BY <1>2, <1>8, <2>2
        <5>2. m \in Gaps(i) <=> m \in 1 .. i - 1 /\ m \in Gaps(max_files + 1)
          BY <1>8, <3>1
        <5>3. m \in 1 .. i - 1 => (m \in Gaps(max_files + 1)' <=> m \in Gaps(max_files + 1))
          BY <1>1, <1>2, <1>6
        <5>4. QED
          BY <1>2, <1>7, <5>1, <5>2, <5>3
      <4>2. QED
        BY <4>1
    <3>3. QED
      BY <1>1, <3>1, <3>2 DEF GapInv, FewGaps
  <2>3. CASE n < i
    <3>1. Occupied(n)
      BY <1>1, <1>2, <1>3, <1>9, <2>3 DEF Occupied, Numbers
    <3>2. Gaps(n)' = Gaps(n)
      <4>1. ASSUME NEW m PROVE m \in Gaps(n)' <=> m \in Gaps(n)
        <5>1. m \in 1 .. n - 1 => (m \in Gaps(max_files + 1)' <=> m \in Gaps(max_files + 1))
          BY <1>1, <1>2, <1>6, <2>3
        <5>2. QED
          BY <1>8, <5>1
      <4>2. QED
        BY <4>1
    <3>3. QED
      BY <1>1, <3>1, <3>2 DEF GapInv, FewGaps
  <2>4. CASE n > i + 1
    <3>1. Occupied(n)
      BY <1>1, <1>2, <1>3, <1>5, <1>9, <2>4 DEF Occupied, Numbers
    <3>2. Cardinality(Gaps(n)) <= crashes
      BY <3>1 DEF GapInv, FewGaps
    <3>3. CASE i \in Gaps(max_files + 1)
      <4>1. i \in Gaps(n) /\ i + 1 \notin Gaps(n)
        BY <1>1, <1>2, <1>7, <1>8, <2>4, <3>3
      <4>2. Gaps(n)' = (Gaps(n) \ {i}) \union {i + 1}
        <5>1. ASSUME NEW m PROVE m \in Gaps(n)' <=> m \in (Gaps(n) \ {i}) \union {i + 1}
          BY <1>1, <1>2, <1>6, <1>7, <1>8, <2>4, <3>3
        <5>2. QED
          BY <5>1
      <4>3. Cardinality(Gaps(n)') = Cardinality(Gaps(n))
        BY <4>1, <4>2, GapMoves
      <4>4. QED
        BY <1>1, <3>2, <4>3
    <3>4. CASE i \notin Gaps(max_files + 1)
      <4>1. Gaps(n)' = Gaps(n)
        <5>1. ASSUME NEW m PROVE m \in Gaps(n)' <=> m \in Gaps(n)
          BY <1>1, <1>2, <1>6, <1>7, <1>8, <2>4, <3>4
        <5>2. QED
          BY <5>1
      <4>2. QED
        BY <1>1, <3>2, <4>1
    <3>5. QED
      BY <3>3, <3>4
  <2>5. QED
    BY <1>2, <2>1, <2>2, <2>3, <2>4
<1>10. FewGaps'
  BY <1>9 DEF FewGaps
<1>11. QED
  BY <1>1, <1>2, <1>4, <1>10 DEF GapInv

\* The current file, a full one, takes the room below all others.
LEMMA CurrentGaps == ASSUME max_files > 0, Inv, GapInv, RotateCurrent PROVE GapInv'
<1>1. /\ Typed /\ max_files \in Nat
      /\ crashes \in Nat /\ crashes' = crashes /\ written' = written
  BY LoggingAssumption DEF Inv, Typed, GapInv, RotateCurrent
<1>2. /\ step = "shift" /\ step' = "create" /\ old_file = 1 /\ file[1] = <<>>
      /\ 0 \in Numbers /\ 1 \in Numbers /\ current' = <<>>
      /\ Len(current) >= max_size + 1
  BY <1>1 DEF RotateCurrent, Inv, Rotation, GapInv, Numbers
<1>3. file'[1] = current /\ \A n \in Numbers : n # 1 => file'[n] = file[n]
  BY <1>1, <1>2 DEF RotateCurrent, Typed
<1>4. current # <<>>
  BY <1>1, <1>2, LoggingAssumption
<1>5. Full'
  BY <1>1, <1>2, <1>3 DEF GapInv, Full, Numbers
<1>6. Lost' => Lost
  <2>1. /\ Files'[1] = Files[0] /\ Files'[0] = <<>> /\ Files[1] = <<>>
        /\ \A n \in Numbers : n # 0 /\ n # 1 => Files'[n] = Files[n]
    BY <1>1, <1>2, <1>3, FilesTyped, FilesNext
  <2>2. \A n \in Numbers : \E m \in Numbers : Files'[m] = Files[n]
    BY <1>2, <2>1
  <2>3. QED
    BY <1>1, <2>2, LostMoves
<1>7. ASSUME NEW n \in 1 .. max_files + 1 PROVE Gaps(n)' = Gaps(n)
  BY <1>1, <1>2, <1>3, <1>4 DEF Gaps, Room, Numbers
<1>8. ASSUME NEW n \in 1 .. max_files + 1, Occupied(n)'
      PROVE  Cardinality(Gaps(n))' <= crashes'
  <2>1. CASE n = 1
    <3>1. Gaps(n)' = {}
      BY <2>1 DEF Gaps
    <3>2. QED
      BY <1>1, <3>1, FS_EmptySet
  <2>2. CASE n # 1
    <3>1. Occupied(n)
      BY <1>1, <1>3, <1>6, <1>8, <2>2 DEF Occupied, Numbers
    <3>2. QED
      BY <1>1, <1>7, <3>1 DEF GapInv, FewGaps
  <2>3. QED
    BY <2>1, <2>2
<1>9. FewGaps'
  BY <1>8 DEF FewGaps
<1>10. QED
  BY <1>1, <1>2, <1>5, <1>9 DEF GapInv

\* A stop turns the room, if there is one, into a gap.
LEMMA CrashGaps == ASSUME Inv, GapInv, Crash PROVE GapInv'
<1>1. /\ file' = file /\ current' = current /\ written' = written /\ step' = "idle"
      /\ crashes \in Nat /\ crashes' = crashes + 1 /\ max_files \in Nat
  BY LoggingAssumption DEF Crash, GapInv
<1>2. Lost' => Lost
  BY <1>1 DEF Lost, Files
<1>3. ASSUME NEW n \in 1 .. max_files + 1, Occupied(n)'
      PROVE  Cardinality(Gaps(n))' <= crashes'
  <2>1. Occupied(n)
    BY <1>1, <1>2, <1>3 DEF Occupied
  <2>2. Cardinality(Gaps(n)) <= crashes
    BY <2>1 DEF GapInv, FewGaps
  <2>3. n \in Int
    OBVIOUS
  <2>4. Gaps(n)' \subseteq Gaps(n) \union {old_file}
    BY <1>1 DEF Gaps, Room
  <2>5. /\ IsFiniteSet(Gaps(n) \union {old_file})
        /\ Cardinality(Gaps(n) \union {old_file}) <= Cardinality(Gaps(n)) + 1
        /\ Cardinality(Gaps(n)) \in Nat
    <3>1. IsFiniteSet(Gaps(n)) /\ Cardinality(Gaps(n)) \in Nat
      BY <2>3, GapsFinite
    <3> DEFINE T == Gaps(n) \union {old_file}
    <3>2. /\ IsFiniteSet(T)
          /\ Cardinality(T) = Cardinality(Gaps(n)) \/ Cardinality(T) = Cardinality(Gaps(n)) + 1
      BY <3>1, FS_AddElement
    <3> HIDE DEF T
    <3>3. Cardinality(T) <= Cardinality(Gaps(n)) + 1
      BY <3>1, <3>2
    <3>4. QED
      BY <3>1, <3>2, <3>3 DEF T
  <2>6. /\ Cardinality(Gaps(n)') <= Cardinality(Gaps(n) \union {old_file})
        /\ Cardinality(Gaps(n)') \in Nat
        /\ Cardinality(Gaps(n) \union {old_file}) \in Nat
    <3> DEFINE S == Gaps(n)'
               T == Gaps(n) \union {old_file}
    <3>1. IsFiniteSet(T) /\ S \in SUBSET T
      BY <2>4, <2>5
    <3> HIDE DEF S, T
    <3>2. IsFiniteSet(S) /\ Cardinality(S) <= Cardinality(T)
      BY <3>1, FS_Subset
    <3>3. Cardinality(S) \in Nat /\ Cardinality(T) \in Nat
      BY <3>1, <3>2, FS_CardinalityType
    <3>4. QED
      BY <3>2, <3>3 DEF S, T
  <2>7. QED
    BY <1>1, <2>2, <2>5, <2>6
<1>4. FewGaps'
  BY <1>3 DEF FewGaps
<1>5. Full'
  BY <1>1 DEF GapInv, Full
<1>6. QED
  BY <1>1, <1>4, <1>5 DEF GapInv

\* There is no file above a gap at the start.
LEMMA InitGaps == Init => GapInv
<1> SUFFICES ASSUME Init PROVE GapInv
  OBVIOUS
<1>1. max_files \in Nat /\ written = 0 /\ step = "idle" /\ crashes = 0
      /\ \A n \in 1 .. max_files : file[n] = <<>>
  BY LoggingAssumption DEF Init, Numbers
<1>2. \A n \in 1 .. max_files + 1 : ~Occupied(n)
  BY <1>1 DEF Occupied, Lost
<1>3. QED
  BY <1>1, <1>2 DEF GapInv, Full, FewGaps

\* Every step keeps the gaps few.
LEMMA NextGaps == ASSUME max_files > 0, Inv, GapInv, [Next]_vars PROVE GapInv'
<1>1. ASSUME UNCHANGED <<current, file, written, i, crashes>>,
             step' # "shift", step # "shift", step' = "idle" \/ step' = step
      PROVE  GapInv'
  <2>1. FewGaps'
    <3>1. Lost' => Lost
      BY <1>1 DEF Lost, Files
    <3>2. QED
      BY <1>1, <3>1, GapsStay DEF GapInv, Room
  <2>2. QED
    BY <1>1, <2>1 DEF GapInv, Full
<1>2. CASE UNCHANGED vars
  <2>1. FewGaps'
    <3>1. Lost' => Lost
      BY <1>2 DEF vars, Lost, Files
    <3>2. QED
      BY <1>2, <3>1, GapsStay DEF vars, GapInv, Room
  <2>2. QED
    BY <1>2, <2>1 DEF vars, GapInv, Full
<1>3. CASE RotateCreate
  BY <1>1, <1>3 DEF RotateCreate
<1>4. QED
  BY <1>2, <1>3, LogGaps, UnlinkGaps, ShiftGaps, CurrentGaps, CrashGaps DEF Next

-----------------------------------------------------------------------------
(* EnoughKept.                                                             *)

\* If the first line is there, all are; and a sequence with n lines in it is n long.
LEMMA NotLost ==
  ASSUME Inv, Full, max_files > 0, ~Lost
  PROVE  Len(Kept) >= written
<1>1. Typed /\ written \in Nat /\ Kept \in Seq(Int) /\ Len(Kept) \in Nat
  BY KeptHas DEF Inv, Typed
<1>2. CASE written = 0
  BY <1>1, <1>2
<1>3. CASE written > 0
  <2>1. PICK n \in Numbers : \E l \in DOMAIN Files[n] : Files[n][l] = 1
    BY <1>3 DEF Lost
  <2>2. 1 \in LinesIn(Files)[n]
    BY <2>1 DEF LinesIn
  <2>3. ASSUME NEW y \in 1 .. written PROVE \E j \in DOMAIN Kept : Kept[j] = y
    <3>1. PICK m \in Numbers : y \in LinesIn(Files)[m]
      BY <2>2 DEF Inv, Sound, NewestIn
    <3>2. PICK l \in DOMAIN Files[m] : Files[m][l] = y
      BY <3>1 DEF LinesIn
    <3>3. QED
      BY <1>1, <3>2, KeptHas DEF Inv
  <2> DEFINE at == [j \in 1 .. Len(Kept) |-> IF Kept[j] \in 1 .. written THEN Kept[j] ELSE 1]
  <2>4. at \in Surjection(1 .. Len(Kept), 1 .. written)
    <3>1. at \in [1 .. Len(Kept) -> 1 .. written]
      BY <1>1, <1>3
    <3>2. \A y \in 1 .. written : \E j \in 1 .. Len(Kept) : at[j] = y
      BY <1>1, <2>3
    <3> HIDE DEF at
    <3>3. QED
      BY <3>1, <3>2 DEF Surjection
  <2>5. IsFiniteSet(1 .. Len(Kept)) /\ Cardinality(1 .. Len(Kept)) = Len(Kept)
        /\ Cardinality(1 .. written) = written
    <3>1. 1 \in Int /\ Len(Kept) \in Int /\ written \in Int
      BY <1>1
    <3>2. IsFiniteSet(1 .. Len(Kept)) /\ Cardinality(1 .. Len(Kept)) = Len(Kept)
      <4>1. 1 > Len(Kept) => Len(Kept) = 0
        BY <1>1
      <4>2. Len(Kept) - 1 + 1 = Len(Kept)
        BY <1>1
      <4>3. QED
        BY <3>1, <4>1, <4>2, FS_Interval
    <3>3. Cardinality(1 .. written) = written
      <4>1. ~(1 > written) /\ written - 1 + 1 = written
        BY <1>1, <1>3
      <4>2. QED
        BY <3>1, <4>1, FS_Interval
    <3>4. QED
      BY <3>2, <3>3
  <2>6. Cardinality(1 .. written) <= Cardinality(1 .. Len(Kept))
    <3> HIDE DEF at
    <3>1. QED
      BY <2>4, <2>5, FS_Surjection
  <2>7. QED
    BY <2>5, <2>6
<1>4. QED
  BY <1>1, <1>2, <1>3

\* However often the program stops in a rotation, as many full files as are wanted
\* are kept, less one for each stop, or all lines that were written.
THEOREM EnoughIsKept == Spec => []EnoughKept
<1>1. CASE max_files = 0
  <2>1. Init => Inv /\ crashes \in Nat
    BY InitKeeps DEF Init
  <2>2. Inv /\ crashes \in Nat /\ [Next]_vars => (Inv /\ crashes \in Nat)'
    BY NextKeeps
       DEF Next, vars, Log, RotateUnlink, RotateShift, RotateCurrent, RotateCreate, Crash
  <2>3. Inv /\ crashes \in Nat => EnoughKept
    <3> SUFFICES ASSUME Inv, crashes \in Nat
                 PROVE  Len(Kept) >= Least(written, (max_files - crashes) * (max_size + 1))
      BY DEF EnoughKept
    <3>1. Kept \in Seq(Int)
      <4>1. [n \in 1 .. max_files |-> file[max_files + 1 - n]] = <<>>
        BY <1>1
      <4>2. Kept = <<>> \o current /\ current \in Seq(Int)
        BY <4>1 DEF Kept, FlattenSeq, Inv, Typed
      <4>3. QED
        BY <4>2
    <3>2. (max_files - crashes) * (max_size + 1) <= 0
      BY <1>1, LoggingAssumption
    <3>3. written \in Nat /\ (max_files - crashes) * (max_size + 1) \in Int /\ Len(Kept) \in Nat
      BY <3>1, LoggingAssumption DEF Inv, Typed
    <3>4. QED
      BY <3>2, <3>3 DEF Least
  <2>4. QED
    BY <2>1, <2>2, <2>3, PTL DEF Spec
<1>2. CASE max_files > 0
  <2>1. Init => Inv /\ GapInv
    BY InitKeeps, InitGaps
  <2>2. Inv /\ GapInv /\ [Next]_vars => (Inv /\ GapInv)'
    BY <1>2, NextKeeps, NextGaps
  <2>3. Inv /\ GapInv => EnoughKept
    <3> DEFINE w == max_size + 1
               g == Cardinality(Empty(1, max_files))
    <3> SUFFICES ASSUME Inv, GapInv, step = "idle"
                 PROVE  Len(Kept) >= Least(written, (max_files - crashes) * w)
      BY DEF EnoughKept
    <3>1. /\ Typed /\ Full /\ written \in Nat /\ crashes \in Nat /\ w \in Nat /\ max_files \in Nat
          /\ Kept \in Seq(Int) /\ Len(Kept) \in Nat
      BY <1>2, KeptHas, LoggingAssumption DEF Inv, Typed, GapInv
    <3>2. (max_files - crashes) * w \in Int
      <4> HIDE DEF w
      <4>1. QED
        BY <3>1
    <3>3. CASE ~Lost
      <4>1. Len(Kept) >= written
        BY <1>2, <3>1, <3>3, NotLost
      <4> HIDE DEF w
      <4>2. QED
        BY <3>1, <3>2, <4>1 DEF Least
    <3>4. CASE Lost
      <4>1. Empty(1, max_files) = Gaps(max_files + 1)
        BY <3>1 DEF Empty, Gaps, Room
      <4>2. g <= crashes /\ g \in Nat
        <5>1. max_files + 1 \in 1 .. max_files + 1 /\ Occupied(max_files + 1)
          BY <3>1, <3>4 DEF Occupied
        <5>2. Cardinality(Gaps(max_files + 1)) <= crashes
          BY <5>1 DEF GapInv, FewGaps
        <5>3. max_files + 1 \in Int
          BY <3>1
        <5>4. QED
          BY <4>1, <5>2, <5>3, GapsFinite
      <4>3. Len(Kept) >= (max_files - g) * w
        BY <1>2, <3>1, KeptHas
      <4> HIDE DEF w, g
      <4>4. (max_files - g) * w = (max_files - crashes) * w + (crashes - g) * w
        BY <3>1, <4>2
      <4>5. (crashes - g) * w >= 0
        <5>1. crashes - g \in Nat
          BY <3>1, <4>2
        <5>2. \A x \in Nat : x * w >= 0
          BY <3>1
        <5>3. QED
          BY <5>1, <5>2
      <4>6. (crashes - g) * w \in Int
        BY <3>1, <4>2
      <4>7. QED
        BY <3>1, <3>2, <4>3, <4>4, <4>5, <4>6 DEF Least
    <3>5. QED
      BY <3>3, <3>4
  <2>4. QED
    BY <2>1, <2>2, <2>3, PTL DEF Spec
<1>3. QED
  BY <1>1, <1>2, LoggingAssumption
=============================================================================
