-------------------------- MODULE CephCommandsProofs --------------------------
(***************************************************************************)
(* A remote command is started at most once per call of Run, for any       *)
(* number of faults and whether or not WebSockets are on.                  *)
(***************************************************************************)
EXTENDS CephCommands, TLAPS

\* The counts, and everything else.
CountOK ==
  faults \in 0..MaxFaults /\ stdout \in 0..Pieces /\ started \in 0..1

ValueOK ==
  /\ toolsPod \in {"none", "Pending", "Running"}
  /\ health \in Health /\ crashReports \in BOOLEAN
  /\ pc \in {"idle", "connect", "stream"}
  /\ cmd \in Command
  /\ proto \in {"WebSocket", "SPDY"}
  /\ process \in {"none", "running", "ended", "failed"}
  /\ answer \in Health \union {"none"} /\ stderr \in BOOLEAN
  /\ late \in BOOLEAN
  /\ result \in {"none", "error", "requeue", "advance"}

(***************************************************************************)
(* CommandStartedOnce is not inductive, and TypeOK lets the count reach 2. *)
(* While Run connects, for the first time or after a refused upgrade, the  *)
(* command has not been started.                                           *)
(***************************************************************************)
NotStartedYet == pc = "connect" => started = 0

RunInv == CountOK /\ ValueOK /\ NotStartedYet

\* Initially no call of Run is under way.
LEMMA RunInit == Init => RunInv
<1> SUFFICES ASSUME Init PROVE RunInv
  OBVIOUS
<1>1. CountOK /\ NotStartedYet
  BY CommandAssumption DEF Init, CountOK, NotStartedYet, Pieces
<1>2. ValueOK
  BY Zenon DEF Init, ValueOK, Health, Command
<1> QED BY <1>1, <1>2 DEF RunInv

\* A fault is counted up to the bound.
LEMMA FaultCount ==
  ASSUME CountOK
  PROVE  /\ Fault => faults' \in 0..MaxFaults
         /\ UNCHANGED faults => faults' \in 0..MaxFaults
BY CommandAssumption DEF CountOK, Fault

\* Ceph, the tools pod and the output of a command do not start commands.
LEMMA CephRun ==
  ASSUME RunInv, Ceph
  PROVE  RunInv'
<1>1. pc' = pc /\ started' = started
  BY DEF Ceph, DaemonCrashes, HealthReturns, ToolsPodReplaced, ToolsPodStarts, CommandRuns,
         LateCommandRuns, OutputArrives, runVars
<1>2. faults' \in 0..MaxFaults
  BY FaultCount DEF RunInv, Ceph, DaemonCrashes, HealthReturns, ToolsPodReplaced,
                    ToolsPodStarts, CommandRuns, LateCommandRuns, OutputArrives
<1>3. stdout' \in 0..Pieces
  BY DEF RunInv, CountOK, Ceph, DaemonCrashes, HealthReturns, ToolsPodReplaced,
         ToolsPodStarts, CommandRuns, LateCommandRuns, OutputArrives, bufVars, Pieces
<1>4. ValueOK'
  <2> USE DEF RunInv, ValueOK, cephVars, bufVars, runVars
  <2>1. CASE DaemonCrashes
    BY <2>1, Zenon DEF DaemonCrashes, Health
  <2>2. CASE HealthReturns
    BY <2>2, Zenon DEF HealthReturns, Health
  <2>3. CASE ToolsPodReplaced
    BY <2>3, Zenon DEF ToolsPodReplaced
  <2>4. CASE ToolsPodStarts
    BY <2>4, Zenon DEF ToolsPodStarts
  <2>5. CASE CommandRuns
    BY <2>5, Zenon DEF CommandRuns
  <2>6. CASE LateCommandRuns
    BY <2>6, Zenon DEF LateCommandRuns
  <2>7. CASE OutputArrives
    BY <2>7, Zenon DEF OutputArrives
  <2> QED BY <2>1, <2>2, <2>3, <2>4, <2>5, <2>6, <2>7 DEF Ceph
<1> QED BY <1>1, <1>2, <1>3, <1>4 DEF RunInv, CountOK, NotStartedYet

\* A stream that fails is replaced by one over SPDY only when the server has
\* not switched protocols, which is before the command was started.
LEMMA StreamErrorRun ==
  ASSUME RunInv, NEW upgraded \in BOOLEAN, StreamError(upgraded),
         pc = "connect" \/ upgraded, faults' \in 0..MaxFaults
  PROVE  RunInv'
<1>1. CASE fallsBack(upgraded)
  <2>1. UNCHANGED <<cephVars, bufVars, cmd, process, started, late, result>>
        /\ proto' = "SPDY" /\ pc' = "connect"
    BY <1>1 DEF StreamError
  <2>2. CountOK' /\ NotStartedYet'
    BY <1>1, <2>1 DEF RunInv, CountOK, NotStartedYet, bufVars, fallsBack
  <2>3. ValueOK'
    BY <2>1, Zenon DEF RunInv, ValueOK, cephVars, bufVars
  <2> QED BY <2>2, <2>3 DEF RunInv
<1>2. CASE ~fallsBack(upgraded)
  <2>1. RunEnds /\ Return("error")
    BY <1>2 DEF StreamError
  <2>2. CountOK' /\ NotStartedYet'
    BY <2>1 DEF RunInv, CountOK, NotStartedYet, bufVars, RunEnds, Return
  <2>3. ValueOK'
    BY <2>1, Zenon DEF RunInv, ValueOK, cephVars, bufVars, RunEnds, Return, Command
  <2> QED BY <2>2, <2>3 DEF RunInv
<1> QED BY <1>1, <1>2

\* The steps of the handler and of Run.
LEMMA FitnessRun ==
  ASSUME RunInv, FitnessCheck
  PROVE  RunInv'
<1>1. faults' \in 0..MaxFaults
  BY FaultCount DEF RunInv, FitnessCheck, RunFails, Run, Connected, ConnectFails, StreamFails,
                    StreamEnds
<1>2. CASE RunFails
  <2>1. CountOK' /\ NotStartedYet'
    BY <1>1, <1>2 DEF RunFails, Return, RunInv, CountOK, NotStartedYet, bufVars
  <2>2. ValueOK'
    BY <1>2, Zenon DEF RunFails, Return, RunInv, ValueOK, Command, cephVars, bufVars
  <2> QED BY <2>1, <2>2 DEF RunInv
<1>3. CASE Run
  <2>1. CountOK' /\ NotStartedYet'
    BY <1>1, <1>3 DEF Run, RunInv, CountOK, NotStartedYet, Pieces
  <2>2. ValueOK'
    BY <1>3, Zenon DEF Run, createExecutor, RunInv, ValueOK, cephVars
  <2> QED BY <2>1, <2>2 DEF RunInv
<1>4. CASE Connected
  <2>1. CountOK' /\ NotStartedYet'
    BY <1>1, <1>4 DEF Connected, RunInv, CountOK, NotStartedYet, bufVars
  <2>2. ValueOK'
    BY <1>4, Zenon DEF Connected, RunInv, ValueOK, cephVars, bufVars
  <2> QED BY <2>1, <2>2 DEF RunInv
<1>5. CASE ConnectFails
  BY <1>1, <1>5, StreamErrorRun DEF ConnectFails
<1>6. CASE StreamFails
  BY <1>1, <1>6, StreamErrorRun DEF StreamFails
<1>7. CASE StreamEnds
  <2>1. RunEnds /\ pc' = "idle"
    BY <1>7 DEF StreamEnds, Return, archiveCephDaemonCrashMessages
  <2>2. cmd' \in Command /\ result' \in {"none", "error", "requeue", "advance"}
    BY <1>7 DEF StreamEnds, Return, archiveCephDaemonCrashMessages, Command, RunInv, ValueOK
  <2>3. CountOK' /\ NotStartedYet'
    BY <1>1, <2>1 DEF RunEnds, RunInv, CountOK, NotStartedYet, bufVars
  <2>4. ValueOK'
    BY <2>1, <2>2, Zenon DEF RunEnds, RunInv, ValueOK, cephVars, bufVars
  <2> QED BY <2>3, <2>4 DEF RunInv
<1> QED BY <1>2, <1>3, <1>4, <1>5, <1>6, <1>7 DEF FitnessCheck

\* The invariant holds in every reachable state.
LEMMA RunCorrect == Spec => []RunInv
<1>1. RunInv /\ [Next]_vars => RunInv'
  <2> SUFFICES ASSUME RunInv, [Next]_vars PROVE RunInv'
    OBVIOUS
  <2>1. CASE UNCHANGED vars
    <3>1. CountOK' /\ NotStartedYet'
      BY <2>1 DEF vars, bufVars, runVars, RunInv, CountOK, NotStartedYet
    <3>2. ValueOK'
      BY <2>1, Zenon DEF vars, cephVars, bufVars, runVars, RunInv, ValueOK
    <3> QED BY <3>1, <3>2 DEF RunInv
  <2> QED BY <2>1, CephRun, FitnessRun DEF Next
<1> QED BY <1>1, RunInit, PTL DEF Spec

\* Every value the handler, Run and its buffers work with is of its type; the
\* faults that happen are at most MaxFaults.
THEOREM CommandTypesCorrect == Spec => []TypeOK
<1>1. RunInv => TypeOK
  <2>1. CountOK => started \in 0..2
    BY DEF CountOK
  <2> QED BY <2>1, Zenon DEF RunInv, CountOK, ValueOK, TypeOK
<1> QED BY <1>1, RunCorrect, PTL

(***************************************************************************)
(* Whatever connections, streams, commands and pods do, a call of Run      *)
(* starts its command at most once: the fallback from WebSocket to SPDY    *)
(* (createExecutor) never repeats a command that may have run.             *)
(***************************************************************************)
THEOREM CommandStartedOnceCorrect == Spec => []CommandStartedOnce
<1>1. RunInv => CommandStartedOnce
  BY DEF RunInv, CountOK, CommandStartedOnce
<1> QED BY <1>1, RunCorrect, PTL
===============================================================================
