\* Startup in any time and with any outcome, and the end of the server.
SPECIFICATION FairSpec
CONSTANTS
  ConfigOpens = {TRUE, FALSE}
  ServerStarts = {"ok", "no_base", "bind_failed"}
  TimeOuts = TRUE
  SpuriousWakeups = TRUE
  SeesExited = TRUE
INVARIANTS TypeOK NoSignalLost RegisteredWhenUp
PROPERTIES HostDecides NoServerNoProgram
CHECK_DEADLOCK FALSE
