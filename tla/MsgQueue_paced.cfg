\* One calling thread, a phone that accepts at any moment.
SPECIFICATION FairSpec
CONSTANTS
  c1 = c1
  c2 = c2
  a1 = a1
  a2 = a2
  NULL = NULL
  Callers <- OneCaller
  Alarms <- MCAlarms
  NameLength <- MCNameLength
  MAX_DEPT_NAME = 2
  MAX_MSGS = 2
  ALERT_DELAY = 3
  ACCEPT_DELAY = 2
  MaxAdds = 4
  Horizon = 4
INVARIANTS TypeOK NothingLostOrReordered Paced
PROPERTIES AcceptedIsPushed
