\* An accept delay longer than curl's timeout.
SPECIFICATION MCSpec
CONSTANTS
  host = host
  ip1 = ip1
  ip2 = ip2
  a1 = a1
  a2 = a2
  NULL = NULL
  Host = host
  Alarms <- TwoAlarms
  NameLength <- ShortNames
  MAX_DEPT_NAME = 2
  MAX_MSGS = 1
  ALERT_DELAY = 3
  ACCEPT_DELAY = 2
  Horizon = 4
  NPhones = 2
  MAX_SPPHONES = 2
  IPs <- TwoIPs
  PrefixPairs <- NoPrefix
  TIMEOUT = 1
  Overlap <- Nothing
  TemplateFails = FALSE
  MaxAccepts = 1
  MaxAdds = 2
INVARIANTS TypeOK ServedInTime AcceptHeeded
 
ACTION_CONSTRAINT InOrder
CHECK_DEADLOCK FALSE
