------------------------------ MODULE JConfig ------------------------------
(***************************************************************************)
(* config.c and the part of jconfig.c it uses: a configuration file is     *)
(* read once, at the start, into a list of groups that have a list of      *)
(* variables each, the newest first; after that it is only looked into.    *)
(*                                                                         *)
(* jconfig_open reads until feof, which is set by the fgets that finds the *)
(* end.  A last line that ends in a newline does not: one more fgets reads *)
(* nothing, and the buffer is parsed again as the line before left it.     *)
(***************************************************************************)
EXTENDS Integers, Sequences, SequencesExt

CONSTANTS
  Spellings,        \* names of groups as a file or a caller may spell them
  strip(_),         \* jconfig_strip_spaces of one
  Vars, Values,     \* names of variables, and what they may be given
  Global,           \* the group of lines before any heading: ""
  Missing,          \* a variable the file does not give a value
  EmptyFile,        \* may the file be empty?
  MaxLines          \* bound: lines in the file

(***************************************************************************)
(* A line with comment and surrounding spaces taken off: a heading; one    *)
(* that starts with '[' and does not end with ']'; an assignment; any      *)
(* other.  Nothing is known of a buffer that fgets has never written.      *)
(***************************************************************************)
Line(kind, group, var, value) == [kind |-> kind, group |-> group, var |-> var, value |-> value]
Unread == Line("unread", Missing, Missing, Missing)
Lines ==
  {Line("heading", g, Missing, Missing) : g \in Spellings} \union
  {Line("unclosed", Missing, Missing, Missing), Line("other", Missing, Missing, Missing)} \union
  {Line("assignment", Missing, v, x) : v \in Vars, x \in Values}

ASSUME JConfigAssumption ==
  /\ Global \in Spellings /\ strip(Global) = Global
  /\ \A g \in Spellings : strip(g) \in Spellings /\ strip(strip(g)) = strip(g)
  /\ Missing \notin Vars /\ Missing \notin Values
  /\ EmptyFile \in BOOLEAN
  /\ MaxLines \in Nat

VARIABLES
  start,            \* where config_init is: "begin", "reading", "done", "failed"
  groups,           \* conf->groups
  group,            \* jconfig_open's locals: the group of the lines to come
  buffer,           \*   the line last read
  feof,             \*   has fgets met the end of the file?
  fed               \*   lines read

configVars == <<start, groups, group, buffer, feof, fed>>

JInit ==
  /\ start = "begin"
  /\ groups = <<>>
  /\ group = Global
  /\ buffer = Unread
  /\ feof = FALSE
  /\ fed = 0

-----------------------------------------------------------------------------
(* The lists.  Names are stripped before they are compared.                *)

find_group(gs, g) == SelectInSeq(gs, LAMBDA r : r.name = strip(g))
has_group(gs, g) == find_group(gs, g) # 0

add_group(gs, g) == IF has_group(gs, g) THEN gs ELSE <<[name |-> strip(g), vars |-> <<>>]>> \o gs

\* The place of the variable in the group's list, 0 if there is none.
find_var(gs, g, v) ==
  IF has_group(gs, g) THEN SelectInSeq(gs[find_group(gs, g)].vars, LAMBDA r : r.name = v) ELSE 0

add_var(gs, g, v) ==
  LET with == add_group(gs, g) IN
  IF find_var(gs, g, v) # 0 THEN gs
  ELSE [with EXCEPT ![find_group(with, g)].vars = <<[name |-> v, value |-> Missing]>> \o @]

\* Mutant: a variable that is there already is given no new value.
write_string_once(gs, g, v, x) ==
  LET with == add_var(gs, g, v) IN
  IF find_var(gs, g, v) # 0 THEN gs
  ELSE [with EXCEPT ![find_group(with, g)].vars[find_var(with, g, v)].value = x]

write_string(gs, g, v, x) ==
  LET with == add_var(gs, g, v) IN
  [with EXCEPT ![find_group(with, g)].vars[find_var(with, g, v)].value = x]

read_string(gs, g, v, def) ==
  IF find_var(gs, g, v) = 0 THEN def ELSE gs[find_group(gs, g)].vars[find_var(gs, g, v)].value

-----------------------------------------------------------------------------
(* config_init and jconfig_open.                                           *)

\* The file cannot be read: config_init returns 1, and there is no cfgPtr.
ConfigInitFails ==
  /\ start = "begin"
  /\ start' = "failed"
  /\ UNCHANGED <<groups, group, buffer, feof, fed>>

\* It could be a moment ago, but not any more: a configuration of no groups.
OpenFails ==
  /\ start = "begin"
  /\ start' = "done"
  /\ UNCHANGED <<groups, group, buffer, feof, fed>>

Open ==
  /\ start = "begin"
  /\ start' = "reading"
  /\ UNCHANGED <<groups, group, buffer, feof, fed>>

Parse(l) ==
  /\ group' = IF l.kind = "heading" THEN l.group ELSE group
  /\ groups' = CASE l.kind = "heading" -> add_group(groups, l.group)
                 [] l.kind = "assignment" -> write_string(groups, group, l.var, l.value)
                 [] OTHER -> groups

\* fgets gives a line; without a newline it is the last.
ReadLine ==
  /\ start = "reading" /\ ~feof
  /\ fed < MaxLines
  /\ \E l \in Lines : buffer' = l /\ Parse(l)
  /\ feof' \in BOOLEAN
  /\ fed' = fed + 1
  /\ UNCHANGED start

\* fgets gives nothing: what the buffer holds is parsed.
ReadNothing ==
  /\ start = "reading" /\ ~feof
  /\ fed = 0 => EmptyFile
  /\ IF buffer = Unread THEN \E l \in Lines : Parse(l) ELSE Parse(buffer)
  /\ feof' = TRUE
  /\ UNCHANGED <<start, buffer, fed>>

Close ==
  /\ start = "reading" /\ feof
  /\ start' = "done"
  /\ group' = Global /\ buffer' = Unread /\ feof' = FALSE /\ fed' = 0
  /\ UNCHANGED groups

Starting == ConfigInitFails \/ OpenFails \/ Open \/ ReadLine \/ ReadNothing \/ Close

\* config_readStr: jconfig is asked once config_init has its answer.
readStr(g, v, def) == IF start = "done" THEN read_string(groups, g, v, def) ELSE def

-----------------------------------------------------------------------------
(* The lists as the settings Settings.tla is about.                        *)

Said == INSTANCE Settings WITH
  Heading <- LAMBDA l : l.kind = "heading",
  Assignment <- LAMBDA l : l.kind = "assignment",
  SectionOf <- LAMBDA l : strip(l.group),
  NoLine <- Unread,
  None <- Missing,
  line <- buffer,
  section <- strip(group),
  value <- [x \in {strip(s) : s \in Spellings} \X Vars |->
              read_string(groups, x[1], x[2], Missing)]

\* The configuration answers as the lines of the file read so far say: the last
\* of several assignments counts, though lists grow at the head; a group may be
\* taken up again; a heading that is not closed does not end the section before
\* it; and parsing the last line twice changes nothing.
ReadAsWritten == Said!Spec
=============================================================================
