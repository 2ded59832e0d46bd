\* Phones come and go during a push, and templates are missing.
SPECIFICATION Spec
CONSTANTS
  ip1 = ip1
  ip2 = ip2
  a1 = a1
  NULL = NULL
  NPhones = 2
  MAX_SPPHONES = 2
  IPs <- TwoIPs
  PrefixPairs <- NoPrefix
  Alarms <- OneAlarm
  TIMEOUT = 1
  Overlap <- Phones
  TemplateFails = TRUE
  MaxAccepts = 1
INVARIANTS TypeOK MsgsSuffice
PROPERTIES EscalatedIffUntold
CHECK_DEADLOCK FALSE
