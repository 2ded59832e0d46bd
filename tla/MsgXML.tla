------------------------------- MODULE MsgXML -------------------------------
(***************************************************************************)
(* msgXML.c and the handler in server.c that calls it: what a phone posts, *)
(* how it is parsed, and the phone that is recorded for it.                *)
(*                                                                         *)
(* Expat (external) calls back for every start tag, run of characters and  *)
(* end tag of a message, in the order of a well-formed document, and may   *)
(* find it not well formed at any point.  What the callbacks find out is   *)
(* kept in static variables, which the next message finds as they were     *)
(* left; only the depth and the flag are set anew.                         *)
(*                                                                         *)
(* A text is a sequence of symbols.  Expat delivers the text of an element *)
(* in one run of characters or, at a line break or an entity, in several.  *)
(***************************************************************************)
EXTENDS Integers, Sequences

CONSTANTS
  Fields,        \* elements that are saved: PhoneIP, MACAddress, ...
  Registration,  \* an element whose name contains "registration"
  Other,         \* any other element
  Symbols,       \* what texts are made of
  Runs,          \* the runs of characters that expat delivers
  BufSize,       \* sizeof buf, the buffer of _charParse
  Capacity,      \* sizeof the place of a field in phone_reg
  Garbage,       \* the texts that buf may hold when nobody has written it
  NULL,          \* no element has been begun yet
  MaxDepth,      \* bound: nesting of elements
  MaxEvents,     \* bound: calls expat makes for a message
  MaxMessages    \* bound: messages

ASSUME MsgXMLAssumption ==
  /\ Registration \notin Fields /\ Other \notin Fields /\ Registration # Other
  /\ NULL \notin Fields \union {Registration, Other}
  /\ Runs \subseteq Seq(Symbols) /\ Garbage \subseteq Seq(Symbols)
  /\ BufSize \in Nat /\ Capacity \in [Fields -> Nat \ {0}]
  /\ MaxDepth \in Nat /\ MaxEvents \in Nat /\ MaxMessages \in Nat

VARIABLES
  expat_depth, expat_OK, last_el, phone_reg,     \* the static variables
  open,          \* expat: the elements that are open, the outermost first
  said,          \* expat: the runs of each field of this message's registration
  seen,          \* expat: "registration" once one has been begun, "stray" once an
                 \* element has been begun inside a field, or beside a registration
  parsing, events, messages,
  recorded       \* what spRec_AddRecord was called with for the last message

xmlVars == <<expat_depth, expat_OK, last_el, phone_reg, open, said, seen, parsing,
             events, messages, recorded>>

Names == Fields \union {Registration, Other}
NoFields == [f \in Fields |-> <<>>]
Nothing == [called |-> FALSE, with |-> NoFields]

XMLInit ==
  /\ expat_depth = 0
  /\ expat_OK = FALSE
  /\ last_el = NULL
  /\ phone_reg = NoFields
  /\ open = <<>>
  /\ said = NoFields
  /\ seen = "none"
  /\ parsing = FALSE
  /\ events = 0
  /\ messages = 0
  /\ recorded = Nothing

-----------------------------------------------------------------------------
\* Mutant: the depth is not set anew.
ReceiveDeep ==
  /\ ~parsing
  /\ messages < MaxMessages
  /\ messages' = messages + 1
  /\ parsing' = TRUE
  /\ events' = 0
  /\ expat_OK' = FALSE
  /\ open' = <<>>
  /\ said' = NoFields
  /\ seen' = "none"
  /\ recorded' = Nothing
  /\ UNCHANGED <<expat_depth, last_el, phone_reg>>

\* _server_post_handler, as far as XML_Parse.
Receive ==
  /\ ~parsing
  /\ messages < MaxMessages
  /\ messages' = messages + 1
  /\ parsing' = TRUE
  /\ events' = 0
  /\ expat_depth' = 0
  /\ expat_OK' = FALSE
  /\ open' = <<>>
  /\ said' = NoFields
  /\ seen' = "none"
  /\ recorded' = Nothing
  /\ UNCHANGED <<last_el, phone_reg>>

\* Another call from expat: a document has one outermost element.
Event ==
  /\ parsing
  /\ events < MaxEvents
  /\ events' = events + 1
  /\ open = <<>> => events = 0

\* What has been begun in the message, with the element that begins now.
Seen(name) ==
  IF Len(open) = 3 \/ (Len(open) = 1 /\ seen # "none" /\ name # Registration)
    THEN "stray"
  ELSE IF Len(open) = 1 /\ name = Registration /\ seen = "none" THEN "registration"
  ELSE seen

\* Mutant: the depth is tested before it is counted up.
StartElementLate(name) ==
  /\ Event
  /\ Len(open) < MaxDepth
  /\ open' = Append(open, name)
  /\ seen' = Seen(name)
  /\ expat_depth' = expat_depth + 1
  /\ last_el' = name
  /\ expat_OK' = (expat_OK \/ (expat_depth = 2 /\ name = Registration))
  /\ UNCHANGED <<phone_reg, said, parsing, messages, recorded>>

\* _startElement.
StartElement(name) ==
  /\ Event
  /\ Len(open) < MaxDepth
  /\ open' = Append(open, name)
  /\ seen' = Seen(name)
  /\ expat_depth' = expat_depth + 1
  /\ last_el' = name
  /\ expat_OK' = (expat_OK \/ (expat_depth' = 2 /\ name = Registration))
  /\ UNCHANGED <<phone_reg, said, parsing, messages, recorded>>

\* A text as strncpy and the 0 at the end leave it in a place of n characters.
Cut(text, n) == IF Len(text) < n THEN text ELSE SubSeq(text, 1, n - 1)

\* Mutant: a text is saved as far as buf goes, not as far as its own place.
CharParseAny(run) ==
  /\ Event
  /\ open # <<>>
  /\ \E data \in IF Len(run) < BufSize THEN {run} ELSE Garbage :
       phone_reg' = IF expat_depth = 3 /\ expat_OK /\ last_el \in Fields
                      THEN [phone_reg EXCEPT ![last_el] = Cut(data, BufSize)] ELSE phone_reg
  /\ said' = IF Len(open) = 3 /\ open[2] = Registration /\ open[3] \in Fields
               THEN [said EXCEPT ![open[3]] = Append(@, run)] ELSE said
  /\ UNCHANGED <<expat_depth, expat_OK, last_el, open, seen, parsing, messages, recorded>>

\* _charParse: a run that is too long is not copied, and buf holds what it held.
\* _msgXML_saveData, at depth 3 of a registration, saves buf over what an earlier
\* run has left, if the last element to start is one of the fields.
CharParse(run) ==
  /\ Event
  /\ open # <<>>
  /\ \E data \in IF Len(run) < BufSize THEN {run} ELSE Garbage :
       phone_reg' = IF expat_depth = 3 /\ expat_OK /\ last_el \in Fields
                      THEN [phone_reg EXCEPT ![last_el] = Cut(data, Capacity[last_el])]
                      ELSE phone_reg
  /\ said' = IF Len(open) = 3 /\ open[2] = Registration /\ open[3] \in Fields
               THEN [said EXCEPT ![open[3]] = Append(@, run)] ELSE said
  /\ UNCHANGED <<expat_depth, expat_OK, last_el, open, seen, parsing, messages, recorded>>

\* _endElement.
EndElement ==
  /\ Event
  /\ open # <<>>
  /\ open' = SubSeq(open, 1, Len(open) - 1)
  /\ expat_depth' = expat_depth - 1
  /\ expat_OK' = (expat_OK /\ expat_depth' # 0)
  /\ UNCHANGED <<last_el, phone_reg, said, seen, parsing, messages, recorded>>

\* The document is over: whatever it was, the fields are recorded.
ParseOK ==
  /\ parsing
  /\ open = <<>> /\ events > 0
  /\ parsing' = FALSE
  /\ recorded' = [called |-> TRUE, with |-> phone_reg]
  /\ UNCHANGED <<expat_depth, expat_OK, last_el, phone_reg, open, said, seen, events,
                 messages>>

\* "Parsing of phone registration failed!": nothing is recorded.
ParseFails ==
  /\ parsing
  /\ parsing' = FALSE
  /\ UNCHANGED <<expat_depth, expat_OK, last_el, phone_reg, open, said, seen, events,
                 messages, recorded>>

XMLNext ==
  \/ Receive
  \/ \E name \in Names : StartElement(name)
  \/ \E run \in Runs : CharParse(run)
  \/ EndElement
  \/ ParseOK
  \/ ParseFails

XMLSpec == XMLInit /\ [][XMLNext]_xmlVars

-----------------------------------------------------------------------------
\* The values of the variables; every text in phone_reg ends within its place.
XMLTypeOK ==
  /\ expat_depth \in 0 .. MaxDepth
  /\ expat_OK \in BOOLEAN
  /\ last_el \in Names \union {NULL}
  /\ seen \in {"none", "registration", "stray"}
  /\ phone_reg \in [Fields -> Seq(Symbols)]
  /\ \A f \in Fields : Len(phone_reg[f]) < Capacity[f]
  /\ recorded.with \in [Fields -> Seq(Symbols)]

\* While a message is parsed the depth is its nesting, whatever the message
\* before it left behind when it failed.
DepthIsNesting == parsing => expat_depth = Len(open)

\* A field that the registration of a message says in one run of characters that
\* fits both buf and the field's own place is recorded as the phone said it,
\* whatever the messages before this one left in the static variables: as long as
\* nothing is begun inside a field, or after the registration beside it.  A text
\* that expat delivers in several runs, or one too long for its place, is not
\* claimed: the last run is kept, and its end is cut off.
Fits(run, f) == Len(run) < BufSize /\ Len(run) < Capacity[f]
FieldsRecorded ==
  recorded.called /\ seen # "stray" =>
    \A f \in Fields : Len(said[f]) = 1 /\ Fits(said[f][1], f) => recorded.with[f] = said[f][1]

\* "Parses telephony registration info from phone" (msgXML.h:23): a phone is
\* recorded with no field that the message at hand does not say.
RecordedWasSaid ==
  recorded.called => \A f \in Fields : recorded.with[f] # <<>> => said[f] # <<>>
=============================================================================
