------------------------------ MODULE Startup ------------------------------
(***************************************************************************)
(* How the plug-in starts: init_plugin, sp8440_Start, MainSignal and       *)
(* _main_thread (startup.c), the start of the web server's thread          *)
(* (server.c), and the host that loads the library (plugins.c, main.c).    *)
(*                                                                         *)
(* The host's thread creates the starter, the starter the server; whoever  *)
(* knows the outcome signals the host, which waits for two seconds at most *)
(* and does not look at what it waited for.  The threads of the library    *)
(* live on when the library is unloaded.                                   *)
(***************************************************************************)
EXTENDS Integers

CONSTANTS
  ConfigOpens,      \* may the configuration file be there?  A set of BOOLEANs
  ServerStarts,     \* how evhttp_new and evhttp_bind_socket may end
  TimeOuts,         \* may startup take longer than two seconds?
  SpuriousWakeups,  \* may pthread_cond_timedwait return 0 unsignalled?
  SeesExited        \* does pthread_kill fail for a thread that has ended?

ASSUME StartupAssumption ==
  /\ ConfigOpens \subseteq BOOLEAN /\ ConfigOpens # {}
  /\ ServerStarts \subseteq {"ok", "no_base", "bind_failed"} /\ ServerStarts # {}
  /\ TimeOuts \in BOOLEAN
  /\ SpuriousWakeups \in BOOLEAN
  /\ SeesExited \in BOOLEAN

VARIABLES
  host,             \* where the host's thread is
  starter, server,  \* where sp8440_Start and _server_DispatchThread are
  mainThreads,      \* how many threads run _main_thread
  StartMutex,       \* is it locked while its holder waits for nothing?
  ret,              \* how the wait ended: by a signal "0", "ETIMEDOUT", or with
                    \* neither "unsignalled", which returns 0 too
  PluginStatus, PluginStatusString,   \* the string is "none" before any signal
  status,           \* plugin_stats[ ].status, which init_plugin has as stat
  rstat,            \* what init_plugin returned
  alarm_8440,       \* the alarm function the host has: NULL at first
  library,          \* is sp8440.so mapped?
  ended             \* how the program ended, if it has

vars == <<host, starter, server, mainThreads, StartMutex, ret, PluginStatus,
          PluginStatusString, status, rstat, alarm_8440, library, ended>>

signal == <<PluginStatus, PluginStatusString>>
plugin == <<status, rstat, alarm_8440, library>>

Init ==
  /\ host = "init"
  /\ starter = "none"
  /\ server = "none"
  /\ mainThreads = 0
  /\ StartMutex = "free"
  /\ ret = "0"
  /\ PluginStatus = 0
  /\ PluginStatusString = "none"
  /\ status = "PLUGIN_NONE"
  /\ rstat = 0
  /\ alarm_8440 = "NULL"
  /\ library = "mapped"
  /\ ended = "no"

Running == ended = "no"
InLibrary == Running /\ library = "mapped"

-----------------------------------------------------------------------------
(* The host: init_plugin, plugins_open, main.                              *)

\* Mutant: the mutex is not taken.
HostCreateUnlocked ==
  /\ Running /\ host = "init"
  /\ starter' = "config"
  /\ host' = "created"
  /\ UNCHANGED <<server, mainThreads, StartMutex, ret, signal, plugin, ended>>

\* Lock the mutex, create the starter.
HostCreate ==
  /\ Running /\ host = "init"
  /\ StartMutex' = "locked"
  /\ starter' = "config"
  /\ host' = "created"
  /\ UNCHANGED <<server, mainThreads, ret, signal, plugin, ended>>

\* Mutant: the mutex is held during the wait.
HostWaitLocked ==
  /\ Running /\ host = "created"
  /\ host' = "waiting"
  /\ UNCHANGED <<starter, server, mainThreads, StartMutex, ret, signal, plugin, ended>>

\* pthread_cond_timedwait: unlock the mutex and wait, as one step.
HostWait ==
  /\ Running /\ host = "created"
  /\ StartMutex' = "free"
  /\ host' = "waiting"
  /\ UNCHANGED <<starter, server, mainThreads, ret, signal, plugin, ended>>

\* The wait ends without a signal.
Unsignalled(value) ==
  /\ Running /\ host = "waiting"
  /\ ret' = value
  /\ host' = "woken"
  /\ UNCHANGED <<starter, server, mainThreads, StartMutex, signal, plugin, ended>>

HostTimesOut == TimeOuts /\ Unsignalled("ETIMEDOUT")
HostWakesUp == SpuriousWakeups /\ Unsignalled("unsignalled")

\* Mutant: the status that was signalled is not looked at.
HostJudgeTimeOnly ==
  /\ Running /\ host = "woken"
  /\ StartMutex = "free"
  /\ status' = IF ret = "ETIMEDOUT" THEN "PLUGIN_START_FAILED" ELSE "PLUGIN_RUNNING"
  /\ host' = "judged"
  /\ UNCHANGED <<starter, server, mainThreads, StartMutex, ret, signal,
                 rstat, alarm_8440, library, ended>>

\* Lock the mutex again, unlock it, and judge by what the variables hold then.
HostJudge ==
  /\ Running /\ host = "woken"
  /\ StartMutex = "free"
  /\ status' = IF ret = "ETIMEDOUT" \/ PluginStatus < 0
                 THEN "PLUGIN_START_FAILED" ELSE "PLUGIN_RUNNING"
  /\ host' = "judged"
  /\ UNCHANGED <<starter, server, mainThreads, StartMutex, ret, signal,
                 rstat, alarm_8440, library, ended>>

\* If it runs, register msgQueue_Add and create a main thread.  In either case
\* the value returned is PluginStatus, as it is now.
HostReturn ==
  /\ Running /\ host = "judged"
  /\ IF status = "PLUGIN_RUNNING"
       THEN alarm_8440' = "msgQueue_Add" /\ mainThreads' = mainThreads + 1
       ELSE UNCHANGED <<alarm_8440, mainThreads>>
  /\ rstat' = PluginStatus
  /\ host' = "returned"
  /\ UNCHANGED <<starter, server, StartMutex, ret, signal, status, library, ended>>

\* plugins_open: status is overwritten by what the value returned says.
HostOpened ==
  /\ Running /\ host = "returned"
  /\ status' = IF rstat < 0 THEN "PLUGIN_START_FAILED" ELSE "PLUGIN_RUNNING"
  /\ library' = IF rstat < 0 THEN "unmapped" ELSE "mapped"
  /\ host' = "opened"
  /\ UNCHANGED <<starter, server, mainThreads, StartMutex, ret, signal, rstat,
                 alarm_8440, ended>>

\* "Plugin failed!", and main returns.
HostFails ==
  /\ Running /\ host = "opened"
  /\ status # "PLUGIN_RUNNING"
  /\ host' = "failed"
  /\ ended' = "returned"
  /\ UNCHANGED <<starter, server, mainThreads, StartMutex, ret, signal, plugin>>

\* "8440 Plugin started successfully", and the first turn of _test_loop, which
\* calls the alarm function or exits for the lack of one.
HostLoops ==
  /\ Running /\ host = "opened"
  /\ status = "PLUGIN_RUNNING"
  /\ host' = "looping"
  /\ ended' = IF alarm_8440 # "NULL" THEN ended ELSE "exited"
  /\ UNCHANGED <<starter, server, mainThreads, StartMutex, ret, signal, plugin>>

-----------------------------------------------------------------------------
(* MainSignal, and the threads of the library.                             *)

\* Under the mutex: set the two variables and wake the host if it waits.
MainSignal(value, string) ==
  /\ StartMutex = "free"
  /\ PluginStatus' = value
  /\ PluginStatusString' = string
  /\ IF host = "waiting"
       THEN host' = "woken" /\ ret' = "0"
       ELSE UNCHANGED <<host, ret>>
  /\ UNCHANGED <<mainThreads, StartMutex, plugin>>

\* sp8440_Start: the configuration, the phone records, the server.
StarterConfig ==
  /\ InLibrary /\ starter = "config"
  /\ \E opens \in ConfigOpens :
       /\ starter' = IF opens THEN "main" ELSE "signal"
       /\ server' = IF opens THEN "start" ELSE server
  /\ UNCHANGED <<host, mainThreads, StartMutex, ret, signal, plugin, ended>>

StarterSignal ==
  /\ InLibrary /\ starter = "signal"
  /\ MainSignal(-1, "no_config")
  /\ starter' = "done"
  /\ UNCHANGED <<server, ended>>

\* Mutant: goes on creating main threads.
StarterMainAgain ==
  /\ InLibrary /\ starter = "main"
  /\ mainThreads' = mainThreads + 1
  /\ mainThreads < 4
  /\ UNCHANGED <<host, starter, server, StartMutex, ret, signal, plugin, ended>>

\* The first main thread is created whatever becomes of the server.
StarterMain ==
  /\ InLibrary /\ starter = "main"
  /\ mainThreads' = mainThreads + 1
  /\ starter' = "done"
  /\ UNCHANGED <<host, server, StartMutex, ret, signal, plugin, ended>>

\* _server_DispatchThread as far as the call of MainSignal.
ServerStart ==
  /\ InLibrary /\ server = "start"
  /\ server' \in ServerStarts
  /\ UNCHANGED <<host, starter, mainThreads, StartMutex, ret, signal, plugin, ended>>

ServerUp ==
  /\ InLibrary /\ server = "ok"
  /\ MainSignal(0, "OK")
  /\ server' = "dispatching"
  /\ UNCHANGED <<starter, ended>>

ServerBindFailed ==
  /\ InLibrary /\ server = "bind_failed"
  /\ MainSignal(-1, "bind_failed")
  /\ server' = "exited"
  /\ UNCHANGED <<starter, ended>>

\* No server: the failure is signalled, and the thread goes on to bind it.
ServerNoBase ==
  /\ InLibrary /\ server = "no_base"
  /\ MainSignal(-1, "no_base")
  /\ server' = "bind_null"
  /\ UNCHANGED <<starter, ended>>

\* evhttp_bind_socket binds the port first and then uses its server.
ServerBindsNull ==
  /\ InLibrary /\ server = "bind_null"
  /\ \/ "bind_failed" \in ServerStarts /\ server' = "bind_failed" /\ UNCHANGED ended
     \/ ended' = "crashed" /\ UNCHANGED server
  /\ UNCHANGED <<host, starter, mainThreads, StartMutex, ret, signal, plugin>>

\* event_base_dispatch returns.
ServerExits ==
  /\ InLibrary /\ server = "dispatching"
  /\ server' = "exited"
  /\ UNCHANGED <<host, starter, mainThreads, StartMutex, ret, signal, plugin, ended>>

\* Mutant: the thread ends, not the program.
MainReturns ==
  /\ InLibrary /\ mainThreads > 0
  /\ server = "exited" /\ SeesExited
  /\ mainThreads' = mainThreads - 1
  /\ UNCHANGED <<host, starter, server, StartMutex, ret, signal, plugin, ended>>

\* _main_thread finds the server's thread dead: _exit(1).  (What it does
\* otherwise is spRec_CheckStale, in module SpRec.)
MainExits ==
  /\ InLibrary /\ mainThreads > 0
  /\ server = "exited" /\ SeesExited
  /\ ended' = "exited"
  /\ UNCHANGED <<host, starter, server, mainThreads, StartMutex, ret, signal, plugin>>

LibraryThreads ==
  \/ starter \notin {"none", "done"}
  \/ server \notin {"none", "exited"}
  \/ mainThreads > 0

\* A thread of the library goes on where its code was.
RunsUnmapped ==
  /\ Running /\ library = "unmapped"
  /\ LibraryThreads
  /\ ended' = "crashed"
  /\ UNCHANGED <<host, starter, server, mainThreads, StartMutex, ret, signal, plugin>>

-----------------------------------------------------------------------------
Host == \/ HostCreate \/ HostWait \/ HostTimesOut \/ HostWakesUp \/ HostJudge
        \/ HostReturn \/ HostOpened \/ HostFails \/ HostLoops
Starter == StarterConfig \/ StarterSignal \/ StarterMain
ServerThread == ServerStart \/ ServerUp \/ ServerBindFailed \/ ServerNoBase \/ ServerBindsNull

Next == Host \/ Starter \/ ServerThread \/ ServerExits \/ MainExits \/ RunsUnmapped

Spec == Init /\ [][Next]_vars

\* The scheduler runs every thread; nothing makes event_base_dispatch return,
\* and nothing but the two seconds makes an unsignalled wait end.
FairSpec ==
  /\ Spec
  /\ WF_vars(Host)
  /\ WF_vars(Starter)
  /\ WF_vars(ServerThread)
  /\ WF_vars(MainExits)
  /\ WF_vars(RunsUnmapped)

-----------------------------------------------------------------------------
Statuses == {"PLUGIN_NONE", "PLUGIN_START_FAILED", "PLUGIN_RUNNING"}

\* Every variable has a value of its type.
TypeOK ==
  /\ host \in {"init", "created", "waiting", "woken", "judged", "returned",
               "opened", "failed", "looping"}
  /\ starter \in {"none", "config", "signal", "main", "done"}
  /\ server \in {"none", "start", "ok", "no_base", "bind_failed", "bind_null",
                 "dispatching", "exited"}
  /\ mainThreads \in 0 .. 2
  /\ StartMutex \in {"free", "locked"}
  /\ ret \in {"0", "unsignalled", "ETIMEDOUT"}
  /\ PluginStatus \in {-1, 0}
  /\ PluginStatusString \in {"none", "OK", "no_config", "bind_failed", "no_base"}
  /\ status \in Statuses
  /\ rstat \in {-1, 0}
  /\ alarm_8440 \in {"NULL", "msgQueue_Add"}
  /\ library \in {"mapped", "unmapped"}
  /\ ended \in {"no", "returned", "exited", "crashed"}

\* "mke sure thread doesn't signal before we're ready" (startup.c:69): the host
\* never waits for a signal that has been given already, however fast the
\* threads it started were.
NoSignalLost == host \in {"created", "waiting"} => PluginStatusString = "none"

\* The host is given the alarm function only when the server has reported that
\* it is up, however long that took and whatever else was signalled, unless the
\* wait ended by itself.
RegisteredWhenUp ==
  alarm_8440 # "NULL" /\ ret # "unsignalled" => PluginStatusString = "OK"

\* "Wait until we get startup confirmation" (startup.c:77): with no exception.
RegisteredOnConfirmation == alarm_8440 # "NULL" => PluginStatusString = "OK"

\* plugins_open's PLUGIN_RUNNING, "plugin running" (plugins.h:25), and main's
\* "8440 Plugin started successfully" (main.c:50): alarms can be sent.
RunningMeansRegistered == host = "looping" => alarm_8440 # "NULL"

\* main tells that the plug-in failed (main.c:45) before the program ends.
FailureReported == ended # "no" /\ PluginStatus < 0 => host = "failed"

\* Starting comes to an end: the host gets its answer or the program has ended.
HostDecides == <>(host \in {"failed", "looping"} \/ ended # "no")

\* "Main web server thread.  Should never exit" (server.c:72): when it does,
\* the program is ended and can be started again.
NoServerNoProgram == server = "exited" ~> ended # "no"
=============================================================================
