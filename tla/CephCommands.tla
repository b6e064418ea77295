----------------------------- MODULE CephCommands -----------------------------
(***************************************************************************)
(* The StorageClusterFitnessCheck handler in full: it runs `ceph status`   *)
(* and, unless the answer is HEALTH_OK, `ceph crash archive-all` in the    *)
(* tools pod.  A command goes over a WebSocket, or over SPDY when the      *)
(* server does not take the upgrade; the stream may break at any time,     *)
(* before or after the command has run.  NodeRecoveryController has this   *)
(* handler as one step.                                                    *)
(***************************************************************************)
EXTENDS Naturals

CONSTANTS
  WebSockets,         \* is the RemoteCommandWebsockets feature on
  MaxFaults           \* how many things go wrong: crashes of ceph daemons,
                      \* replaced pods, connections, streams, commands

ASSUME CommandAssumption == WebSockets \in BOOLEAN /\ MaxFaults \in Nat

Pieces == 2           \* the answer arrives in so many pieces

VARIABLES
  toolsPod,           \* is there a tools pod, and is it running
  health,             \* ceph's health
  crashReports,       \* are there crash reports not archived
  faults,             \* what went wrong so far
  pc,                 \* "idle", or where the call of Run is
  cmd,                \* the command it runs
  proto,              \* the protocol it tries
  process,            \* the command's process in the tools pod
  answer,             \* what ceph answered
  stdout,             \* pieces of the answer in buf
  stderr,             \* is there anything in errBuf
  late,               \* is an archive-all running whose stream has broken
  result,             \* what the handler last returned
  started             \* history: times the command was started in this Run

cephVars == <<toolsPod, health, crashReports>>
bufVars  == <<answer, stdout, stderr>>
runVars  == <<pc, cmd, proto, process, started>>
vars     == <<cephVars, bufVars, runVars, late, result, faults>>

Health  == {"HEALTH_OK", "HEALTH_WARN"}
Command == {"status", "archive-all"}

TypeOK ==
  /\ toolsPod \in {"none", "Pending", "Running"}
  /\ health \in Health /\ crashReports \in BOOLEAN
  /\ faults \in 0..MaxFaults
  /\ pc \in {"idle", "connect", "stream"}
  /\ cmd \in Command
  /\ proto \in {"WebSocket", "SPDY"}
  /\ process \in {"none", "running", "ended", "failed"}
  /\ answer \in Health \union {"none"} /\ stdout \in 0..Pieces /\ stderr \in BOOLEAN
  /\ late \in BOOLEAN
  /\ result \in {"none", "error", "requeue", "advance"}
  /\ started \in 0..2

Init ==
  /\ toolsPod = "Running" /\ health = "HEALTH_WARN" /\ crashReports = TRUE
  /\ pc = "idle" /\ cmd = "status" /\ proto = "SPDY" /\ process = "none"
  /\ answer = "none" /\ stdout = 0 /\ stderr = FALSE
  /\ late = FALSE /\ result = "none" /\ started = 0 /\ faults = 0

-------------------------------------------------------------------------------
(***************************************************************************)
(* External: ceph, the tools pod and the commands running in it.           *)
(***************************************************************************)
Fault == faults < MaxFaults /\ faults' = faults + 1

DaemonCrashes ==
  /\ Fault
  /\ crashReports' = TRUE /\ health' = "HEALTH_WARN"
  /\ UNCHANGED <<toolsPod, bufVars, runVars, late, result>>

HealthReturns ==
  /\ ~crashReports /\ health' = "HEALTH_OK"
  /\ UNCHANGED <<toolsPod, crashReports, bufVars, runVars, late, result, faults>>

\* A pod that is replaced takes its processes with it.
ToolsPodReplaced ==
  /\ Fault
  /\ toolsPod = "Running"
  /\ toolsPod' = "none" /\ late' = FALSE
  /\ process' = IF process = "running" THEN "failed" ELSE process
  /\ UNCHANGED <<health, crashReports, bufVars, pc, cmd, proto, started, result>>

ToolsPodStarts ==
  /\ toolsPod # "Running"
  /\ toolsPod' = IF toolsPod = "none" THEN "Pending" ELSE "Running"
  /\ UNCHANGED <<health, crashReports, bufVars, runVars, late, result, faults>>

CommandRuns ==
  /\ process = "running"
  /\ \/ /\ process' = "ended"
        /\ answer' = IF cmd = "status" THEN health ELSE answer
        /\ crashReports' = (crashReports /\ cmd = "status")
        /\ UNCHANGED faults
     \/ process' = "failed" /\ Fault /\ UNCHANGED <<answer, crashReports>>
  /\ UNCHANGED <<toolsPod, health, pc, cmd, proto, started, stdout, stderr, late, result>>

\* A command whose stream has broken runs on.
LateCommandRuns ==
  /\ late /\ late' = FALSE /\ crashReports' = FALSE
  /\ UNCHANGED <<toolsPod, health, bufVars, runVars, result, faults>>

OutputArrives ==
  /\ pc = "stream"
  /\ \/ /\ stdout < Pieces /\ answer # "none"
        /\ stdout' = stdout + 1
        /\ UNCHANGED <<stderr, faults>>
     \/ ~stderr /\ stderr' = TRUE /\ Fault /\ UNCHANGED stdout
  /\ UNCHANGED <<cephVars, answer, runVars, late, result>>

-------------------------------------------------------------------------------
(***************************************************************************)
(* remoteExecutor.Run and createExecutor.                                  *)
(***************************************************************************)
\* The handler returns.
Return(r) == result' = r /\ pc' = "idle" /\ cmd' = "status"

\* The stream of Run ends or fails for good; a command may be left running.
RunEnds ==
  /\ process' = "none"
  /\ late' = (late \/ (process = "running" /\ cmd = "archive-all"))
  /\ UNCHANGED <<cephVars, bufVars, proto, started>>

\* Mutant: neither executor is created.
noExecutor == "none"

\* createExecutor: SPDY is what a WebSocket falls back to, unless disabled.
createExecutor == IF WebSockets THEN "WebSocket" ELSE "SPDY"

\* getRunningCephToolsPod finds no pod, or there is no executor.
RunFails ==
  /\ pc = "idle" /\ result # "advance"
  /\ IF toolsPod = "none" THEN UNCHANGED faults ELSE Fault
  /\ Return("error")
  /\ UNCHANGED <<cephVars, bufVars, proto, process, started, late>>

\* getRunningCephToolsPod takes the first pod, in whatever phase.
Run ==
  /\ pc = "idle" /\ result # "advance"
  /\ toolsPod # "none"
  /\ answer' = "none" /\ stdout' = 0 /\ stderr' = FALSE
  /\ pc' = "connect" /\ started' = 0
  /\ proto' = createExecutor
  /\ UNCHANGED <<cephVars, cmd, process, late, result, faults>>

\* exec takes a running pod.
Connected ==
  /\ pc = "connect" /\ toolsPod = "Running"
  /\ pc' = "stream" /\ process' = "running" /\ started' = started + 1
  /\ UNCHANGED <<cephVars, bufVars, cmd, proto, late, result, faults>>

\* Mutant: the protocol is changed after any error.
fallsBackOnAnyError(upgraded) == proto = "WebSocket"

\* The other executor is tried if the server refused to switch protocols.
fallsBack(upgraded) == proto = "WebSocket" /\ ~upgraded

\* Run's stream fails; upgraded: after the server had switched protocols.
StreamError(upgraded) ==
  IF fallsBack(upgraded)
  THEN /\ proto' = "SPDY" /\ pc' = "connect"
       /\ UNCHANGED <<cephVars, bufVars, cmd, process, started, late, result>>
  ELSE RunEnds /\ Return("error")

\* An upgrade that is refused, or any other error in connecting.
ConnectFails ==
  /\ pc = "connect"
  /\ IF toolsPod = "Running" THEN Fault ELSE UNCHANGED faults
  /\ \E upgraded \in BOOLEAN : StreamError(upgraded)

\* The connection breaks, or the command ended with an error.
StreamFails ==
  /\ pc = "stream"
  /\ IF process = "failed" THEN UNCHANGED faults ELSE Fault
  /\ StreamError(TRUE)

\* Mutant: the crash reports are left where they are.
skipArchive == Return("requeue")

\* The status is not HEALTH_OK: the handler goes on to the second command.
archiveCephDaemonCrashMessages ==
  pc' = "idle" /\ cmd' = "archive-all" /\ UNCHANGED result

\* Run returns.  Anything on stderr, or an answer that is cut off, is an
\* error; what archive-all prints is not looked at.
StreamEnds ==
  /\ pc = "stream" /\ process = "ended"
  /\ RunEnds
  /\ \/ cmd = "archive-all" /\ Return("requeue") /\ UNCHANGED faults
     \/ cmd = "status" /\ stderr /\ Return("error") /\ UNCHANGED faults
     \/ cmd = "status" /\ stdout < Pieces /\ Fault /\ Return("error")
     \/ /\ cmd = "status" /\ ~stderr /\ stdout = Pieces
        /\ IF answer = "HEALTH_OK" THEN Return("advance") ELSE archiveCephDaemonCrashMessages
        /\ UNCHANGED faults

-------------------------------------------------------------------------------
Ceph == DaemonCrashes \/ HealthReturns \/ ToolsPodReplaced \/ ToolsPodStarts
        \/ CommandRuns \/ LateCommandRuns \/ OutputArrives

FitnessCheck == RunFails \/ Run \/ Connected \/ ConnectFails \/ StreamFails \/ StreamEnds

Next == Ceph \/ FitnessCheck

Spec == Init /\ [][Next]_vars

(***************************************************************************)
(* Ceph recovers, pods start, commands end and their output arrives; the   *)
(* operator does not stop.  Nothing in the code bounds the time a stream   *)
(* takes (Run has a context without a deadline): that streams end or fail  *)
(* is assumed.                                                             *)
(***************************************************************************)
Fairness ==
  /\ WF_vars(HealthReturns) /\ WF_vars(ToolsPodStarts)
  /\ WF_vars(CommandRuns) /\ WF_vars(OutputArrives)
  /\ WF_vars(FitnessCheck)

FairSpec == Spec /\ Fairness

-------------------------------------------------------------------------------
(***************************************************************************)
(* A call of Run starts its command at most once: the other protocol is    *)
(* only tried after the server has refused the upgrade, never after a      *)
(* stream has broken under a command that may have run.                    *)
(***************************************************************************)
CommandStartedOnce == started <= 1

(***************************************************************************)
(* However commands, streams and pods fail on the way, the handler keeps   *)
(* being repeated until ceph is healthy: it archives the crash reports     *)
(* that keep ceph from HEALTH_OK, also those of crashes in the meantime.   *)
(***************************************************************************)
FitnessReached == <>(result = "advance")
===============================================================================
