------------------------ MODULE NodeRecoveryController ------------------------
(***************************************************************************)
(* The operator: one worker that takes NodeRecovery resources from a queue,*)
(* reads one from the informer cache, runs the step its latest condition   *)
(* names (NodeRecovery.Reconcile) and saves the status                     *)
(* (NodeRecoveryReconciler.Reconcile).                                     *)
(*                                                                         *)
(* A reconciliation is a sequence of steps: Get, then the handler of the   *)
(* condition (in as many steps as it has writes another actor can come     *)
(* between), then the status update.  The cluster, the users and, between  *)
(* any two steps, a crash of the operator interleave with it.              *)
(***************************************************************************)
EXTENDS OdfCluster

CONSTANTS
  CR,                 \* names of the NodeRecovery resources
  NoCR,               \* what the idle worker holds
  Faults,             \* what may go wrong in this instance
  MaxForcedPods,      \* with at most so many OSD pods the removal is forced
  MaxCount            \* where the model stops counting metrics

(***************************************************************************)
(* "api": a call to the API server (or into a pod) fails.  "crash": the    *)
(* operator dies and is restarted.  "touch": someone else writes to the    *)
(* resource, "delete": deletes it.  "stale": a reconciliation may start    *)
(* before the cache has seen the last status update.  "slow": a condition  *)
(* may last until a deadline.                                              *)
(***************************************************************************)
FaultKind == {"api", "crash", "touch", "delete", "stale", "slow"}

ASSUME ControllerAssumption ==
  /\ NoCR \notin CR
  /\ Faults \subseteq FaultKind
  /\ MaxForcedPods \in Nat
  /\ MaxCount \in Nat

VARIABLES
  api,                \* a resource in the API server: absent, live or deleted
  view,               \* is the resource in the cache
  store,              \* its status in the API server
  cache,              \* its status in the cache
  synced,             \* has the cache the latest resourceVersion
  queue,              \* resources waiting for the worker
  pc,                 \* where the worker is
  cur,                \* the resource it works on
  inst,               \* its copy of the status
  fresh,              \* is the copy's resourceVersion still the latest
  todo,               \* failing OSDs whose deployment is still to be scaled
  nodePV,             \* entries handleCrashLoopBackOffPods has put together
  result,             \* what the handler returned
  metrics,            \* the prometheus counters
  restartOwed         \* history: resources whose recovery met pending or
                      \* failing pods and has not restarted rook since

apiVars    == <<api, view, store, cache, synced>>
workerVars == <<pc, cur, inst, fresh, todo, nodePV, result>>
vars == <<clusterVars, apiVars, queue, workerVars, metrics, restartOwed>>

ZeroMetrics ==
  [ total |-> 0, completed |-> 0, failed |-> 0,
    successForNode |-> [n \in Node |-> 0], failedForNode |-> [n \in Node |-> 0] ]

Count == 0..MaxCount
Metrics ==
  [ total : Count, completed : Count, failed : Count,
    successForNode : [Node -> Count], failedForNode : [Node -> Count] ]

TypeOK ==
  /\ ClusterTypeOK
  /\ api \in [CR -> {"absent", "live", "deleted"}]
  /\ view \in [CR -> BOOLEAN]
  /\ store \in [CR -> NodeRecoveryStatus]
  /\ cache \in [CR -> NodeRecoveryStatus]
  /\ synced \in [CR -> BOOLEAN]
  /\ queue \subseteq CR
  /\ pc \in {"idle", "reconcile", "enable", "scale", "create", "update"}
  /\ cur \in CR \union {NoCR}
  /\ pc # "idle" => cur \in CR
  /\ inst \in NodeRecoveryStatus
  /\ fresh \in BOOLEAN
  /\ todo \subseteq OSD
  /\ nodePV \in Seq(OSD)
  /\ result \in {"requeue", "error", "done"}
  /\ metrics \in Metrics
  /\ restartOwed \subseteq CR

Init ==
  /\ ClusterInit
  /\ api = [c \in CR |-> "absent"]
  /\ view = [c \in CR |-> FALSE]
  /\ store = [c \in CR |-> EmptyStatus]
  /\ cache = [c \in CR |-> EmptyStatus]
  /\ synced = [c \in CR |-> TRUE]
  /\ queue = {}
  /\ pc = "idle"
  /\ cur = NoCR
  /\ inst = EmptyStatus
  /\ fresh = FALSE
  /\ todo = {}
  /\ nodePV = <<>>
  /\ result = "done"
  /\ metrics = ZeroMetrics
  /\ restartOwed = {}

-------------------------------------------------------------------------------
(***************************************************************************)
(* Users, the API server, the informer, time.                              *)
(***************************************************************************)
CreateCR(c) ==
  /\ api[c] = "absent"
  /\ api' = [api EXCEPT ![c] = "live"]
  /\ synced' = [synced EXCEPT ![c] = FALSE]
  /\ UNCHANGED <<clusterVars, view, store, cache, queue, workerVars, metrics,
                 restartOwed>>

DeleteCR(c) ==
  /\ "delete" \in Faults
  /\ api[c] = "live"
  /\ api' = [api EXCEPT ![c] = "deleted"]
  /\ synced' = [synced EXCEPT ![c] = FALSE]
  /\ fresh' = (fresh /\ cur # c)
  /\ UNCHANGED <<clusterVars, view, store, cache, queue, pc, cur, inst, todo,
                 nodePV, result, metrics, restartOwed>>

\* A write to the metadata: a new resourceVersion, the same status.
Touch(c) ==
  /\ "touch" \in Faults
  /\ api[c] = "live"
  /\ synced' = [synced EXCEPT ![c] = FALSE]
  /\ fresh' = (fresh /\ cur # c)
  /\ UNCHANGED <<clusterVars, api, view, store, cache, queue, pc, cur, inst,
                 todo, nodePV, result, metrics, restartOwed>>

(***************************************************************************)
(* The informer catches up.  Creation and deletion put the resource on the *)
(* queue; a status update leaves the generation alone and the              *)
(* GenerationChangedPredicate drops its event.                             *)
(***************************************************************************)
CacheSync(c) ==
  /\ ~synced[c]
  /\ synced' = [synced EXCEPT ![c] = TRUE]
  /\ view' = [view EXCEPT ![c] = (api[c] = "live")]
  /\ cache' = [cache EXCEPT ![c] = store[c]]
  /\ queue' = IF view[c] = (api[c] = "live") THEN queue ELSE queue \union {c}
  /\ UNCHANGED <<clusterVars, api, store, workerVars, metrics, restartOwed>>

\* One of the two deadlines passes.  A reconciliation takes less than that.
Tick(c) ==
  /\ "slow" \in Faults
  /\ cur # c
  /\ Older(store[c]) # store[c] \/ Older(cache[c]) # cache[c]
  /\ store' = [store EXCEPT ![c] = Older(store[c])]
  /\ cache' = [cache EXCEPT ![c] = Older(cache[c])]
  /\ UNCHANGED <<clusterVars, api, view, synced, queue, workerVars, metrics,
                 restartOwed>>

Idle ==
  /\ pc' = "idle" /\ cur' = NoCR /\ inst' = EmptyStatus /\ fresh' = FALSE
  /\ todo' = {} /\ nodePV' = <<>> /\ result' = "done"

\* The pod of the operator is replaced: the informers list all objects.
OperatorRestart ==
  /\ "crash" \in Faults
  /\ Idle
  /\ view' = [c \in CR |-> api[c] = "live"]
  /\ cache' = store
  /\ synced' = [c \in CR |-> TRUE]
  /\ queue' = {c \in CR : api[c] = "live"}
  /\ metrics' = ZeroMetrics
  /\ seen' = Snapshot(Lagging)
  /\ UNCHANGED <<podVars, labelled, nodeAffinityFailed, crashReports, toolsVars,
                 jobVars, api, store, restartOwed>>

-------------------------------------------------------------------------------
(***************************************************************************)
(* NodeRecoveryReconciler.Reconcile up to the call of the recoverer.  (A   *)
(* Get that fails puts the resource back on the queue: no change.)         *)
(***************************************************************************)
Inc(n) == IF n < MaxCount THEN n + 1 ELSE n

\* Mutant: counts every reconciliation.
CountOperandAgain(s) == [metrics EXCEPT !.total = Inc(@)]

\* The first reconciliation of a resource counts it.
CountOperand(s) ==
  IF s.startTime THEN metrics ELSE [metrics EXCEPT !.total = Inc(@)]

Start(c) ==
  /\ pc = "idle" /\ c \in queue
  /\ synced[c] \/ "stale" \in Faults
  /\ view[c] /\ cache[c].phase \notin TerminalPhase
  /\ queue' = queue \ {c}
  /\ pc' = "reconcile" /\ cur' = c
  /\ inst' = IF cache[c].startTime THEN cache[c] ELSE initStatus(cache[c])
  /\ metrics' = CountOperand(cache[c])
  /\ fresh' = synced[c]
  /\ UNCHANGED <<clusterVars, apiVars, todo, nodePV, result, restartOwed>>

\* Deleted, or in a terminal phase.
Ignore(c) ==
  /\ pc = "idle" /\ c \in queue
  /\ synced[c] \/ "stale" \in Faults
  /\ ~view[c] \/ cache[c].phase \in TerminalPhase
  /\ queue' = queue \ {c}
  /\ UNCHANGED <<clusterVars, apiVars, workerVars, metrics, restartOwed>>

-------------------------------------------------------------------------------
(***************************************************************************)
(* NodeRecovery.Reconcile: one action per case of its switch.              *)
(***************************************************************************)
At(t) ==
  /\ pc = "reconcile"
  /\ inst.age < reconciliationTimeout
  /\ getLatestCondition(inst) = t

\* The handler returns r with the status s.
Return(s, r) ==
  /\ pc' = "update" /\ inst' = s /\ result' = r
  /\ todo' = {} /\ nodePV' = <<>>
  /\ UNCHANGED <<apiVars, queue, cur, fresh>>

Advance(s, t) == Return(transitionNextCondition(s, t), "requeue")

\* The handler goes on: another actor may come first.
GoOn(where) ==
  /\ pc' = where
  /\ UNCHANGED <<apiVars, queue, cur, inst, fresh, todo, nodePV, result>>

ApiFault == "api" \in Faults

\* controller-runtime recovers a panic: no status update, back on the queue.
Panic ==
  /\ Idle
  /\ queue' = queue \union {cur}
  /\ UNCHANGED <<clusterVars, apiVars>>

NoCall == UNCHANGED clusterVars
NoCount == UNCHANGED <<metrics, restartOwed>>

\* One count per failed device, on the counter of its node.
IncForNodes(counter, s) ==
  [n \in Node |->
     LET hits == Cardinality({i \in DOMAIN s.nodeDevice : NodeOf[s.nodeDevice[i]] = n})
     IN  IF counter[n] + hits <= MaxCount THEN counter[n] + hits ELSE MaxCount]

\* 30 minutes in one condition.
ReconciliationTimeout ==
  /\ pc = "reconcile" /\ inst.age >= reconciliationTimeout
  /\ Return([inst EXCEPT !.phase = "Failed"], "done")
  /\ metrics' = [metrics EXCEPT !.failed = Inc(@),
                                !.failedForNode = IncForNodes(@, inst)]
  /\ NoCall /\ UNCHANGED restartOwed

\* Mutant: forgets the pending pods.
restartIsNeededForFailing(s) == s.crashLoopBackOffPods

restartIsNeeded(s) == s.pendingPods \/ s.crashLoopBackOffPods

\* A handler without a call to the API server cannot fail on one.
MakesNoCall ==
  \/ At("ForceDeleteRookCephOSDPods") /\ ~inst.crashLoopBackOffPods
  \/ At("RestartStorageOperator") /\ ~restartIsNeeded(inst)
  \/ At("DisableCephTools") /\ inst.keepCephToolsPod

\* The first call of a handler fails: nothing is done.
CallFails ==
  /\ ApiFault
  /\ pc = "reconcile" /\ inst.age < reconciliationTimeout /\ ~MakesNoCall
  /\ Return(inst, "error")
  /\ NoCall /\ NoCount

\* Mutant: does not note that the tools pod was there before.
EnableWithoutKeep ==
  /\ At("EnableCephToolsPod")
  /\ IF isCephToolsEnabled
     THEN Advance(inst, "WaitForCephToolsPodRunning")
     ELSE GoOn("enable")
  /\ NoCall /\ NoCount

EnableCephToolsPod ==
  /\ At("EnableCephToolsPod")
  /\ IF isCephToolsEnabled
     THEN Advance([inst EXCEPT !.keepCephToolsPod = TRUE], "WaitForCephToolsPodRunning")
     ELSE GoOn("enable")
  /\ NoCall /\ NoCount

\* Mutant: notes a tools pod that was not there before.
enableAndKeepCephTools ==
  /\ pc = "enable"
  /\ setEnableCephToolsValue(TRUE)
  /\ Advance([inst EXCEPT !.keepCephToolsPod = TRUE], "WaitForCephToolsPodRunning")
  /\ NoCount

enableCephTools ==
  /\ pc = "enable"
  /\ \/ /\ setEnableCephToolsValue(TRUE)
        /\ Advance(inst, "WaitForCephToolsPodRunning")
     \/ ApiFault /\ NoCall /\ Return(inst, "error")
  /\ NoCount

\* No tools pod is an error, one that is not Running is waited for.
WaitForCephToolsPodRunning ==
  /\ At("WaitForCephToolsPodRunning")
  /\ \/ readToolsPod = "none" /\ Return(inst, "error")
     \/ readToolsPod = "Pending" /\ Return(inst, "requeue")
     \/ readToolsPod = "Running" /\ Advance(inst, "WaitForOSDPodsStabilize")
  /\ NoCall /\ NoCount

WaitForOSDPodsStabilize ==
  /\ At("WaitForOSDPodsStabilize")
  /\ \/ /\ TRUE \in hasPodsInCreatingOrInitializingState
        /\ Return(inst, "requeue")
     \/ /\ FALSE \in hasPodsInCreatingOrInitializingState
        /\ Advance(inst, "LabelNodesWithPendingPods")
  /\ NoCall /\ NoCount

\* Every node is tried; PendingPods is saved even when one of them fails.
LabelNodesWithPendingPods ==
  /\ At("LabelNodesWithPendingPods")
  /\ LET pending == getPodsInPendingPhase
         nodes   == {NodeOf[o] : o \in pending}
         noted   == [inst EXCEPT !.pendingPods = TRUE]
     IN  \/ /\ pending = {}
            /\ Advance(inst, "ManageCrashLoopBackOffPods")
            /\ NoCall /\ UNCHANGED restartOwed
         \/ /\ pending # {}
            /\ labelNodesWithPodsInPendingState(nodes)
            /\ Advance(noted, "ManageCrashLoopBackOffPods")
            /\ restartOwed' = restartOwed \union {cur}
         \/ /\ pending # {} /\ ApiFault
            /\ \E done \in SUBSET nodes : labelNodesWithPodsInPendingState(done)
            /\ Return(noted, "error")
            /\ restartOwed' = restartOwed \union {cur}
  /\ UNCHANGED metrics

-------------------------------------------------------------------------------
(***************************************************************************)
(* ManageCrashLoopBackOffPods: the pods are listed once, then one          *)
(* deployment after the other is scaled to zero.                           *)
(***************************************************************************)
ManageCrashLoopBackOffPods ==
  /\ At("ManageCrashLoopBackOffPods")
  /\ \/ /\ failingOSDPods = {}
        /\ Advance(inst, "RestartStorageOperator")
        /\ UNCHANGED restartOwed
     \/ /\ failingOSDPods # {}
        /\ pc' = "scale" /\ todo' = failingOSDPods
        /\ inst' = [inst EXCEPT
             !.operationalOSDIDs = IF operationalOSDPods = {} THEN @
                                   ELSE operationalOSDPods,
             !.crashLoopBackOffPods = TRUE]
        /\ restartOwed' = restartOwed \union {cur}
        /\ UNCHANGED <<apiVars, queue, cur, fresh, nodePV, result>>
  /\ NoCall /\ UNCHANGED metrics

handleCrashLoopBackOffPods(o) ==
  /\ pc = "scale" /\ o \in todo /\ hasNodeDevice(o)
  /\ scaleRookCephOSDDeploymentToZero(o)
  /\ todo' = todo \ {o}
  /\ nodePV' = Append(nodePV, o)
  /\ UNCHANGED <<apiVars, queue, pc, cur, inst, fresh, result>>
  /\ NoCount

\* The claim is gone or a call fails: the entries put together are lost.
handleCrashLoopBackOffPodsFails ==
  /\ pc = "scale"
  /\ \E o \in todo : ApiFault \/ (o \in OverPVC /\ ~hasNodeDevice(o))
  /\ Return(inst, "error")
  /\ NoCall /\ NoCount

\* Without the claim label there is no entry, and its id is read all the same.
handleCrashLoopBackOffPodsPanics ==
  /\ pc = "scale" /\ todo \ OverPVC # {}
  /\ Panic /\ NoCount

\* Mutant: keeps the entry of the last device only.
ManageDoneWithLastDevice ==
  /\ pc = "scale" /\ todo = {}
  /\ Advance([inst EXCEPT !.nodeDevice = SubSeq(nodePV, Len(nodePV), Len(nodePV))],
             "ForceDeleteRookCephOSDPods")
  /\ NoCall /\ NoCount

ManageDone ==
  /\ pc = "scale" /\ todo = {}
  /\ Advance([inst EXCEPT !.nodeDevice = nodePV], "ForceDeleteRookCephOSDPods")
  /\ NoCall /\ NoCount

(***************************************************************************)
(* Waits until the pods are gone; those terminating for over a minute are  *)
(* deleted by force.  Of each OSD the pod listed first is looked at, and   *)
(* the first such pod terminating for less decides; a pod without a        *)
(* deletion timestamp there is a nil dereference.                          *)
(***************************************************************************)
ForceDeleteRookCephOSDPods ==
  /\ At("ForceDeleteRookCephOSDPods")
  /\ LET nd   == inst.nodeDevice
         left == {i \in DOMAIN nd : getOSDPodsWithID(nd[i]) # {}}
     IN  IF ~inst.crashLoopBackOffPods
         THEN Advance(inst, "RestartStorageOperator") /\ NoCall
         ELSE \/ /\ left = {}
                 /\ Advance(inst, "ProcessOCSRemovalTemplate") /\ NoCall
              \/ \E items \in [left -> getOSDPods] :
                   LET stamp(i) == deletionTimestamp(items[i])
                       first == {i \in left : /\ stamp(i) < 2
                                              /\ \A j \in left : j < i => stamp(j) = 2}
                   IN  /\ left # {} /\ \A i \in left : items[i] \in getOSDPodsWithID(nd[i])
                       /\ \/ /\ first = {}
                             /\ forceDeleteRookCephOSDPods(getOSDIDsFromNodeDevices(nd))
                             /\ Advance(inst, "ForceDeleteRookCephOSDPods")
                          \/ /\ \E i \in first : stamp(i) = 1
                             /\ Return(inst, "requeue") /\ NoCall
                          \/ (\E i \in first : stamp(i) = 0) /\ Panic
  /\ NoCount

-------------------------------------------------------------------------------
(***************************************************************************)
(* The OSD removal job.                                                    *)
(***************************************************************************)
\* The pods cannot be deleted, or the informer still shows a job that is gone.
deleteOldOSDRemovalJobErrs ==
  \/ ApiFault /\ deleteOldOSDRemovalJobFails
  \/ readJob /\ ~job.exists /\ NoCall

ProcessOCSRemovalTemplate ==
  /\ At("ProcessOCSRemovalTemplate")
  /\ \/ deleteOldOSDRemovalJob /\ GoOn("create")
     \/ deleteOldOSDRemovalJobErrs /\ Return(inst, "error")
  /\ NoCount

\* ForcedOSDRemoval is set before the job is created, and saved if that fails.
CreateOSDRemovalJob ==
  /\ pc = "create" /\ getLatestCondition(inst) = "ProcessOCSRemovalTemplate"
  /\ LET forced == Cardinality(getOSDPods) <= MaxForcedPods
         s      == [inst EXCEPT !.forcedOSDRemoval = forced]
         ids    == getOSDIDsFromNodeDevices(inst.nodeDevice)
     IN  \/ processOCSOSDRemovalTemplate(ids, forced) /\ Advance(s, "CleanupOSDRemovalJob")
         \/ job.exists /\ NoCall /\ Return(s, "error")
         \/ ApiFault /\ NoCall /\ \E r \in {s, inst} : Return(r, "error")
  /\ NoCount

AtJob == At("CleanupOSDRemovalJob") \/ At("RetryForceCleanupOSDRemovalJob")

WaitForJob ==
  /\ AtJob
  /\ \/ readJobPod = "none" /\ Return(inst, "error")
     \/ /\ readJobPod \in {"Active", "Failed"} /\ inst.age < osdRemovalJobTimeout
        /\ Return(inst, "requeue")
  /\ NoCall /\ NoCount

JobTimedOut ==
  readJobPod \in {"Active", "Failed"} /\ inst.age >= osdRemovalJobTimeout

\* 10 minutes: the job is deleted and created anew with the force flag.
ReplaceOSDRemovalJob ==
  /\ At("CleanupOSDRemovalJob") /\ JobTimedOut
  /\ \/ deleteOldOSDRemovalJob /\ GoOn("create")
     \/ deleteOldOSDRemovalJobErrs /\ Return(inst, "error")
  /\ NoCount

CreateForcedOSDRemovalJob ==
  /\ pc = "create" /\ getLatestCondition(inst) = "CleanupOSDRemovalJob"
  /\ \/ /\ processOCSOSDRemovalTemplate(getOSDIDsFromNodeDevices(inst.nodeDevice), TRUE)
        /\ Advance([inst EXCEPT !.forcedOSDRemoval = TRUE], "RetryForceCleanupOSDRemovalJob")
     \/ (job.exists \/ ApiFault) /\ NoCall /\ Return(inst, "error")
  /\ NoCount

RetryTimedOut ==
  /\ At("RetryForceCleanupOSDRemovalJob") /\ JobTimedOut
  /\ Return([inst EXCEPT !.phase = "Failed"], "done")
  /\ NoCall /\ NoCount

\* The last line of the log decides; a log that cannot be read is a failure.
validateJobLogs ==
  /\ AtJob /\ readJobPod \in SucceededPod
  /\ GetLogs # "Removed" \/ ApiFault
  /\ Return([inst EXCEPT !.phase = "Failed"], "error")
  /\ NoCall /\ NoCount

JobSucceeded ==
  /\ AtJob /\ readJobPod \in SucceededPod /\ GetLogs = "Removed"
  /\ \/ deleteOldOSDRemovalJob /\ Advance(inst, "WaitForPersistenVolumeBound")
     \/ deleteOldOSDRemovalJobErrs /\ Return(inst, "error")
  /\ NoCount

-------------------------------------------------------------------------------
\* Mutant: forgets the devices to be replaced.
operationalPVCs(s) == Cardinality(s.operationalOSDIDs)

expectedPVCs(s) == Cardinality(s.operationalOSDIDs) + Len(s.nodeDevice)

(***************************************************************************)
(* Released volumes of the failed devices are deleted (processPVForNode);  *)
(* then there must be as many OSD pods on bound claims as there were       *)
(* operational pods and failed OSDs.  Errors here only requeue.            *)
(***************************************************************************)
WaitForPersistenVolumeBound ==
  /\ At("WaitForPersistenVolumeBound")
  /\ LET ids      == getOSDIDsFromNodeDevices(inst.nodeDevice)
         released == {o \in ids : readPV[o] = "Released"}
         missing  == {o \in ids : getPVsForNode(NodeOf[o]) = {}}
         expected == expectedPVCs(inst)
     IN  IF released \union missing # {}
         THEN /\ \E gone \in IF ApiFault THEN SUBSET released ELSE {released} : deletePVs(gone)
              /\ Return(inst, "requeue")
         ELSE /\ \/ /\ countPVCsBoundToODSPods >= expected
                    /\ Advance(inst, "RestartStorageOperator")
                 \/ /\ ApiFault \/ countPVCsBoundToODSPods < expected
                    /\ Return(inst, "requeue")
              /\ NoCall
  /\ NoCount

\* Its deployment starts the rook operator anew.
deleteRookCephOperatorPod == restartOwed' = restartOwed \ {cur}

RestartStorageOperator ==
  /\ At("RestartStorageOperator")
  /\ Advance(inst, "DeleteFailedPodsNodeAffinity")
  /\ IF restartIsNeeded(inst) THEN deleteRookCephOperatorPod ELSE UNCHANGED restartOwed
  /\ NoCall /\ UNCHANGED metrics

\* Every pod is tried; one that is gone already is an error.
DeleteFailedPodsNodeAffinity ==
  /\ At("DeleteFailedPodsNodeAffinity")
  /\ \/ /\ readAffinity \subseteq nodeAffinityFailed
        /\ deleteFailedPodsWithReasonNodeAffinity(readAffinity)
        /\ Advance(inst, "StorageClusterFitnessCheck")
     \/ /\ ApiFault \/ ~(readAffinity \subseteq nodeAffinityFailed)
        /\ \E pods \in IF ApiFault THEN SUBSET readAffinity ELSE {readAffinity} :
             deleteFailedPodsWithReasonNodeAffinity(pods)
        /\ Return(inst, "error")
  /\ NoCount

\* Both commands run in the first tools pod the informer shows.
StorageClusterFitnessCheck ==
  /\ At("StorageClusterFitnessCheck")
  /\ \/ /\ readToolsPod = "none" \/ toolsPod # "Running"
        /\ Return(inst, "error") /\ NoCall
     \/ /\ readToolsPod # "none" /\ toolsPod = "Running"
        /\ "HEALTH_OK" \in getCephHealthStatus
        /\ Advance(inst, "DisableCephTools") /\ NoCall
     \/ /\ readToolsPod # "none" /\ toolsPod = "Running"
        /\ "HEALTH_WARN" \in getCephHealthStatus
        /\ archiveCephDaemonCrashMessages
        /\ Return(inst, "requeue") \/ (ApiFault /\ Return(inst, "error"))
  /\ NoCount

DisableCephTools ==
  /\ At("DisableCephTools")
  /\ IF inst.keepCephToolsPod THEN NoCall ELSE setEnableCephToolsValue(FALSE)
  /\ Return([inst EXCEPT !.phase = "Completed", !.completionTime = TRUE], "done")
  /\ metrics' = [metrics EXCEPT !.completed = Inc(@),
                                !.successForNode = IncForNodes(@, inst)]
  /\ UNCHANGED restartOwed

-------------------------------------------------------------------------------
(***************************************************************************)
(* The status update at the end of NodeRecoveryReconciler.Reconcile.  The  *)
(* API server refuses it for a resource that is gone, on a resourceVersion *)
(* that is not the latest, and with two conditions of one type.            *)
(***************************************************************************)
\* Mutant: an update that carries no resourceVersion.
StatusAcceptedUnconditionally == api[cur] = "live" /\ UniqueConditionTypes(inst)

StatusAccepted ==
  /\ api[cur] = "live"
  /\ fresh
  /\ UniqueConditionTypes(inst)

StatusUpdate ==
  /\ pc = "update" /\ StatusAccepted
  /\ store' = [store EXCEPT ![cur] = inst]
  /\ synced' = [synced EXCEPT ![cur] = FALSE]
  /\ queue' = IF result = "done" THEN queue ELSE queue \union {cur}
  /\ Idle
  /\ UNCHANGED <<clusterVars, api, view, cache, metrics, restartOwed>>

\* Mutant: the error of the update is not returned.
StatusUpdateErrorDropped ==
  /\ pc = "update"
  /\ ApiFault \/ ~StatusAccepted
  /\ queue' = IF result = "done" THEN queue ELSE queue \union {cur}
  /\ Idle
  /\ UNCHANGED <<clusterVars, apiVars, metrics, restartOwed>>

StatusUpdateFails ==
  /\ pc = "update"
  /\ ApiFault \/ ~StatusAccepted
  /\ queue' = queue \union {cur}
  /\ Idle
  /\ UNCHANGED <<clusterVars, apiVars, metrics, restartOwed>>

-------------------------------------------------------------------------------
Handler ==
  \/ ReconciliationTimeout \/ CallFails
  \/ EnableCephToolsPod \/ enableCephTools
  \/ WaitForCephToolsPodRunning \/ WaitForOSDPodsStabilize
  \/ LabelNodesWithPendingPods
  \/ ManageCrashLoopBackOffPods
  \/ \E o \in OSD : handleCrashLoopBackOffPods(o)
  \/ handleCrashLoopBackOffPodsFails \/ handleCrashLoopBackOffPodsPanics
  \/ ManageDone
  \/ ForceDeleteRookCephOSDPods
  \/ ProcessOCSRemovalTemplate \/ CreateOSDRemovalJob
  \/ WaitForJob \/ ReplaceOSDRemovalJob \/ CreateForcedOSDRemovalJob
  \/ RetryTimedOut \/ validateJobLogs \/ JobSucceeded
  \/ WaitForPersistenVolumeBound
  \/ RestartStorageOperator \/ DeleteFailedPodsNodeAffinity
  \/ StorageClusterFitnessCheck \/ DisableCephTools

Environment ==
  \/ ClusterNext /\ UNCHANGED <<apiVars, queue, workerVars, metrics, restartOwed>>
  \/ \E c \in CR : CreateCR(c) \/ DeleteCR(c) \/ Touch(c) \/ CacheSync(c) \/ Tick(c)
  \/ OperatorRestart

Next ==
  \/ Environment
  \/ \E c \in CR : Start(c) \/ Ignore(c)
  \/ Handler
  \/ StatusUpdate \/ StatusUpdateFails

Spec == Init /\ [][Next]_vars

(***************************************************************************)
(* The worker does not stop, takes the queue's resources in turn, and the  *)
(* API server does not refuse a status update it could accept for ever;    *)
(* the informer catches up and time passes between reconciliations.        *)
(***************************************************************************)
Fairness ==
  /\ \A c \in CR : /\ SF_vars(Start(c) \/ Ignore(c))
                   /\ WF_vars(CacheSync(c)) /\ SF_vars(Tick(c))
  /\ WF_vars(Handler)
  /\ WF_vars(StatusUpdate \/ StatusUpdateFails) /\ SF_vars(StatusUpdate)

FairSpec == Spec /\ Fairness
===============================================================================
