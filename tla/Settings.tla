------------------------------ MODULE Settings ------------------------------
(***************************************************************************)
(* What a configuration file says, with no lists and no buffer: each line  *)
(* is taken once; a heading opens a section, and an assignment gives the   *)
(* variable of the section a value, in place of the one it may have had.   *)
(***************************************************************************)
CONSTANTS
  Lines,            \* the lines a file may have
  NoLine,           \* none has been taken, or the file has been closed
  Heading(_),       \* does the line open a section?
  Assignment(_),    \* does it give a variable a value?
  SectionOf(_),     \* the section a heading opens
  None              \* the value of a variable that has been given none

VARIABLES
  line,             \* the line taken last
  section,          \* the section open
  value             \* [section, variable -> value, or None]

vars == <<line, section, value>>

Init ==
  /\ line = NoLine
  /\ value = [x \in DOMAIN value |-> None]

Take(l) ==
  /\ line' = l
  /\ section' = IF Heading(l) THEN SectionOf(l) ELSE section
  /\ value' = IF Assignment(l) THEN [value EXCEPT ![<<section, l.var>>] = l.value] ELSE value

Close == line' = NoLine /\ UNCHANGED value

Next == Close \/ \E l \in Lines : Take(l)

Spec == Init /\ [][Next]_vars
=============================================================================
