\* Messages of every kind after each other.
SPECIFICATION XMLSpec
CONSTANTS
  PhoneIP = PhoneIP
  MACAddress = MACAddress
  a = a
  b = b
  Registration = Registration
  Other = Other
  NULL = NULL
  Fields <- TwoFields
  Symbols <- TwoSymbols
  Runs <- SomeRuns
  BufSize = 4
  Capacity <- Sizes
  Garbage <- SomeGarbage
  MaxDepth = 4
  MaxEvents = 10
  MaxMessages = 2
INVARIANTS XMLTypeOK DepthIsNesting FieldsRecorded
CHECK_DEADLOCK FALSE
