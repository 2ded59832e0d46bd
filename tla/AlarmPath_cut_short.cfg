\* An accept delay shorter than curl's timeout, as it is by default.
SPECIFICATION Spec
CONSTANTS
  host = host
  ip1 = ip1
  ip2 = ip2
  a1 = a1
  a2 = a2
  NULL = NULL
  Host = host
  Alarms <- TwoAlarms
  NameLength <- ShortNames
  MAX_DEPT_NAME = 2
  MAX_MSGS = 1
  ALERT_DELAY = 3
  ACCEPT_DELAY = 1
  Horizon = 4
  NPhones = 2
  MAX_SPPHONES = 2
  IPs <- TwoIPs
  PrefixPairs <- NoPrefix
  TIMEOUT = 2
  Overlap <- Nothing
  TemplateFails = FALSE
  MaxAccepts = 1
  MaxAdds = 2
INVARIANTS AllServed
CHECK_DEADLOCK FALSE
