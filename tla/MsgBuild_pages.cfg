\* A configuration of up to four lines, then three pages, which the two threads may
\* make at the same time.
SPECIFICATION Spec
CONSTANTS
  Spellings <- FileSpellings
  strip <- Stripped
  Vars <- TwoVars
  Values <- Names
  Global = ""
  Missing = Missing
  EmptyFile = FALSE
  MaxLines = 4
  TemplateTexts <- Texts
  Departments <- Depts
  AlarmNumbers <- Numbers
  Accepting <- AcceptTexts
  AUDIO_SIZE = 2
  Behind <- Junk
  MaxPages = 3
INVARIANTS TypeOK
PROPERTIES ReadAsWritten PageAsMeant
CONSTRAINT OneName
CHECK_DEADLOCK FALSE
