----------------------------- MODULE RemovalProofs -----------------------------
(***************************************************************************)
(* The removal of the failed devices by a single recovery: what the job    *)
(* was given, what its log proves, and what is left of it.                 *)
(***************************************************************************)
EXTENDS CompletionProofs

\* OSDs taken out of ceph.  None of them comes back.
Purged == {o \in OSD : pv[o] \in {"Unclaimed", "Released", "Deleted"}}

BeforeRemoval ==
  { "New", "EnableCephToolsPod", "WaitForCephToolsPodRunning", "WaitForOSDPodsStabilize",
    "LabelNodesWithPendingPods", "ManageCrashLoopBackOffPods" }
JobWait == {"CleanupOSDRemovalJob", "RetryForceCleanupOSDRemovalJob"}

\* What a copy of a status, however old, says of its devices.
RecordOK(s, purged) ==
  /\ Latest(s) \in BeforeRemoval => Ids(s) = {}
  /\ Latest(s) \in AfterJob => Ids(s) \subseteq purged

\* What the job and its pod, whoever sees them, have to do with the devices
\* the only recovery has recorded.
JobOf(ids, purged) ==
  /\ ids = {} => ~job.exists /\ jobPod = "none"
  /\ job.exists \/ jobPod = "Active" => ids \subseteq job.ids
  /\ jobPod = "Removed" => ids \subseteq purged

(***************************************************************************)
(* The devices are recorded once, so that an old copy has none or the same *)
(* ones.  The worker may have put together others, on an old copy, but     *)
(* cannot save them.                                                       *)
(***************************************************************************)
RemovalInv ==
  /\ \A c \in CR : /\ RecordOK(store[c], Purged) /\ RecordOK(cache[c], Purged)
                   /\ Ids(cache[c]) \in {{}, Ids(store[c])}
                   /\ JobOf(Ids(store[c]), Purged)
  /\ pc # "idle" =>
       /\ RecordOK(inst, Purged)
       /\ \/ Ids(inst) \in {{}, Ids(store[cur])}
          \/ pc = "update" /\ Latest(inst) = "ForceDeleteRookCephOSDPods"

-------------------------------------------------------------------------------
\* What is recorded stays true while more OSDs are taken out.
LEMMA RecordMonotone ==
  ASSUME NEW s, NEW p, NEW q, p \subseteq q, RecordOK(s, p)
  PROVE  RecordOK(s, q)
  BY DEF RecordOK

\* A new status records no device.
LEMMA EmptyRecord == ASSUME NEW p PROVE RecordOK(EmptyStatus, p) /\ Ids(EmptyStatus) = {}
  BY EmptyStatusType, NoIds DEF RecordOK, Ids, Latest, Started, AfterJob

\* Growing older and starting change nothing that is recorded.
LEMMA FrameRecord ==
  ASSUME NEW s \in StartedStatus, WellKept(s), NEW p, RecordOK(s, p)
  PROVE  /\ RecordOK(Older(s), p) /\ Ids(Older(s)) = Ids(s)
         /\ RecordOK(Begun(s), p) /\ Ids(Begun(s)) = Ids(s)
<1>1. Latest(Older(s)) = Latest(s) /\ Ids(Older(s)) = Ids(s)
  BY OlderSame DEF SamePlace, Ids
<1>2. Ids(Begun(s)) = Ids(s) /\ Begun(s).startTime
  BY BegunFacts DEF SameFacts
<1>3. CASE s.startTime
  BY <1>1, <1>2, <1>3 DEF Begun, RecordOK
<1>4. CASE ~s.startTime
  <2>1. Latest(s) = "New" /\ Latest(Begun(s)) = "EnableCephToolsPod"
    BY <1>2, <1>4, BegunFacts DEF Latest, Started
  <2> QED BY <1>1, <1>2, <2>1 DEF RecordOK, BeforeRemoval, AfterJob
<1> QED BY <1>3, <1>4

\* The cluster purges what the job was given, and reports it afterwards.
LEMMA ClusterRemoval ==
  ASSUME TypeInv, JobInv, ClusterNext, NEW ids, ids \subseteq ScaledSet, JobOf(ids, Purged)
  PROVE  Purged \subseteq Purged' /\ JobOf(ids, Purged)'
<1> USE DEF TypeInv, ClusterTypeOK, Purged, JobOf, podVars, miscVars, toolsVars, jobVars
<1>1. CASE ToolsPodChanges \/ ClusterUpgrades
  BY <1>1 DEF ToolsPodChanges, ClusterUpgrades
<1>2. ASSUME NEW o \in OSD, PodChanges(o) \/ PodTerminates(o) \/ MinutePasses(o) \/ PodGone(o)
      PROVE  Purged \subseteq Purged' /\ JobOf(ids, Purged)'
  BY <1>2 DEF PodChanges, PodTerminates, MinutePasses, PodGone
<1>3. ASSUME NEW o \in OSD, NewOSD(o)
      PROVE  Purged \subseteq Purged' /\ JobOf(ids, Purged)'
  <2>1. Purged \subseteq Purged' /\ UNCHANGED jobVars
    BY <1>3 DEF NewOSD
  <2> QED BY <2>1
<1>4. ASSUME NEW o \in OSD, JobPurges(o)
      PROVE  Purged \subseteq Purged' /\ JobOf(ids, Purged)'
  <2>1. Purged \subseteq Purged' /\ UNCHANGED jobVars
    BY <1>4 DEF JobPurges
  <2> QED BY <2>1
<1>5. CASE JobPodStarts
  BY <1>5 DEF JobPodStarts
<1>6. CASE JobPodEnds
  <2>1. /\ jobPod = "Active" /\ UNCHANGED pv /\ job'.ids = job.ids /\ job'.exists = job.exists
        /\ jobPod' \in {"Removed", "NotRemoved", "Failed"}
        /\ jobPod' = "Removed" => \A o \in job.ids : pv[o] # "Bound"
    BY <1>6 DEF JobPodEnds, RemovalJob
  <2>2. jobPod' = "Removed" => ids \subseteq Purged
    <3>1. \A o \in ids : o \in job.ids /\ pv[o] \in VolumePhase /\ pv[o] # "Unused" /\ o \in OSD
      BY <2>1 DEF ScaledSet, WatchedSet
    <3> QED BY <2>1, <3>1 DEF VolumePhase
  <2> QED BY <2>1, <2>2
<1>7. ASSUME NEW kind \in Kind, InformerSync(kind)
      PROVE  Purged \subseteq Purged' /\ JobOf(ids, Purged)'
  BY <1>7 DEF InformerSync
<1>8. ASSUME NEW o \in OSD, PodRejected(o) \/ VolumeReleased(o)
      PROVE  Purged \subseteq Purged' /\ JobOf(ids, Purged)'
  <2>1. Purged \subseteq Purged' /\ UNCHANGED jobVars
    BY <1>8 DEF PodRejected, VolumeReleased
  <2> QED BY <2>1
<1> HIDE DEF TypeInv, ClusterTypeOK, Purged, JobOf, podVars, miscVars, toolsVars, jobVars
<1> QED BY <1>1, <1>2, <1>3, <1>4, <1>5, <1>6, <1>7, <1>8 DEF ClusterNext

\* What a handler can do to the job, its pod and the volumes.
HandlerJob ==
  \/ UNCHANGED jobVars
  \/ jobPod' = "none" /\ job' \in {job, NoJob}
  \/ UNCHANGED jobPod /\ job.exists /\ job' = [job EXCEPT !.exists = FALSE]
  \/ /\ UNCHANGED jobPod /\ job'.exists /\ job'.ids = Ids(inst)
     /\ pc = "create" /\ getLatestCondition(inst) \in JobConditions

RemovalStep == HandlerJob /\ Purged \subseteq Purged'

LEMMA HandlerJobs ==
  ASSUME TypeInv, Handler
  PROVE  RemovalStep
<1> USE DEF RemovalStep
<1>a. /\ NoCall => RemovalStep
      /\ \A nodes : labelNodesWithPodsInPendingState(nodes) => RemovalStep
      /\ \A o : scaleRookCephOSDDeploymentToZero(o) => RemovalStep
      /\ \A ids : forceDeleteRookCephOSDPods(ids) => RemovalStep
      /\ \A pods : deleteFailedPodsWithReasonNodeAffinity(pods) => RemovalStep
      /\ archiveCephDaemonCrashMessages => RemovalStep
  BY DEF NoCall, labelNodesWithPodsInPendingState, scaleRookCephOSDDeploymentToZero,
         forceDeleteRookCephOSDPods, deleteFailedPodsWithReasonNodeAffinity,
         archiveCephDaemonCrashMessages, HandlerJob, Purged, clusterVars, podVars, jobVars
<1>b. /\ toolsSpec' = [toolsSpec EXCEPT ![ToolsOwner] = TRUE] /\ UNCHANGED <<podVars, jobVars>>
           => RemovalStep
      /\ toolsSpec' = [toolsSpec EXCEPT ![ToolsOwner] = FALSE] /\ UNCHANGED <<podVars, jobVars>>
           => RemovalStep
  BY DEF HandlerJob, Purged, podVars
<1>c. deleteOldOSDRemovalJob => RemovalStep
  BY DEF deleteOldOSDRemovalJob, HandlerJob, Purged, podVars
<1>d. deleteOldOSDRemovalJobErrs => RemovalStep
  BY <1>a DEF deleteOldOSDRemovalJobErrs, deleteOldOSDRemovalJobFails, HandlerJob, Purged, podVars
<1>e. ASSUME NEW gone \in SUBSET OSD, deletePVs(gone) PROVE RemovalStep
  BY <1>e DEF deletePVs, HandlerJob, Purged, TypeInv, ClusterTypeOK
<1>f. ASSUME NEW b, processOCSOSDRemovalTemplate(Ids(inst), b), pc = "create",
             getLatestCondition(inst) \in JobConditions
      PROVE  RemovalStep
  BY <1>f DEF processOCSOSDRemovalTemplate, HandlerJob, Purged, podVars
<1> HIDE DEF RemovalStep
<1>1. CASE ReconciliationTimeout \/ CallFails \/ EnableCephToolsPod
           \/ WaitForCephToolsPodRunning \/ WaitForOSDPodsStabilize
  BY <1>1, <1>a DEF ReconciliationTimeout, CallFails, EnableCephToolsPod,
                    WaitForCephToolsPodRunning, WaitForOSDPodsStabilize
<1>2. CASE enableCephTools \/ DisableCephTools
  BY <1>2, <1>a, <1>b DEF enableCephTools, DisableCephTools, setEnableCephToolsValue
<1>3. CASE LabelNodesWithPendingPods
  BY <1>3, <1>a DEF LabelNodesWithPendingPods
<1>4. CASE \/ ManageCrashLoopBackOffPods \/ handleCrashLoopBackOffPodsFails
           \/ \E o \in OSD : handleCrashLoopBackOffPods(o)
           \/ handleCrashLoopBackOffPodsPanics \/ ManageDone
  BY <1>4, <1>a DEF ManageCrashLoopBackOffPods, handleCrashLoopBackOffPodsFails,
                    handleCrashLoopBackOffPods, handleCrashLoopBackOffPodsPanics, ManageDone,
                    Panic, NoCall
<1>5. CASE ForceDeleteRookCephOSDPods
  BY <1>5, <1>a DEF ForceDeleteRookCephOSDPods, Panic, NoCall
<1>6. CASE ProcessOCSRemovalTemplate \/ ReplaceOSDRemovalJob \/ JobSucceeded
  BY <1>6, <1>c, <1>d DEF ProcessOCSRemovalTemplate, ReplaceOSDRemovalJob, JobSucceeded
<1>7. CASE CreateOSDRemovalJob
  <2>1. \A b : processOCSOSDRemovalTemplate(Ids(inst), b) => RemovalStep
    BY <1>7, <1>f DEF CreateOSDRemovalJob, JobConditions
  <2> QED BY <1>7, <1>a, <2>1 DEF CreateOSDRemovalJob, Ids
<1>8. CASE CreateForcedOSDRemovalJob
  <2>1. pc = "create" /\ getLatestCondition(inst) \in JobConditions
    BY <1>8 DEF CreateForcedOSDRemovalJob, JobConditions
  <2>2. \/ NoCall
        \/ job' = [exists |-> TRUE, complete |-> FALSE, ids |-> Ids(inst), forced |-> TRUE]
           /\ UNCHANGED <<podVars, jobPod>>
    BY <1>8 DEF CreateForcedOSDRemovalJob, processOCSOSDRemovalTemplate, Ids
  <2> QED BY <1>a, <2>1, <2>2 DEF RemovalStep, HandlerJob, Purged, podVars
<1>9. CASE WaitForJob \/ RetryTimedOut \/ validateJobLogs \/ RestartStorageOperator
  BY <1>9, <1>a DEF WaitForJob, RetryTimedOut, validateJobLogs, RestartStorageOperator
<1>10. CASE WaitForPersistenVolumeBound
  <2>1. \/ NoCall
        \/ \E gone \in SUBSET OSD : deletePVs(gone)
    <3>1. inst \in StartedStatus
      BY DEF TypeInv, WorkerInv
    <3>2. getOSDIDsFromNodeDevices(inst.nodeDevice) \in SUBSET OSD
      BY <3>1, DeviceIds
    <3> QED BY <1>10, <3>2 DEF WaitForPersistenVolumeBound
  <2> QED BY <1>a, <1>e, <2>1
<1>11. CASE DeleteFailedPodsNodeAffinity \/ StorageClusterFitnessCheck
  BY <1>11, <1>a DEF DeleteFailedPodsNodeAffinity, StorageClusterFitnessCheck
<1> QED
  BY <1>1, <1>2, <1>3, <1>4, <1>5, <1>6, <1>7, <1>8, <1>9, <1>10, <1>11 DEF Handler

\* A recovery leaves the job behind only with the log of a removal.
LEMMA JobDone ==
  ASSUME TypeInv, CopyInv, Handler, getLatestCondition(inst) \in JobWait,
         getLatestCondition(inst') = "WaitForPersistenVolumeBound"
  PROVE  JobSucceeded /\ jobPod = "Removed"
<1>a. inst \in StartedStatus /\ inst \in NodeRecoveryStatus /\ inst.startTime
      /\ inst.conditions # <<>>
  BY HandlerBusy DEF StartedStatus
<1>b. inst' # inst /\ inst' # [inst EXCEPT !.phase = "Failed"]
  BY <1>a DEF getLatestCondition, JobWait, NodeRecoveryStatus
<1>1. ~ReconciliationTimeout /\ ~CallFails /\ ~WaitForJob /\ ~ReplaceOSDRemovalJob
      /\ ~RetryTimedOut /\ ~validateJobLogs
  BY <1>b DEF ReconciliationTimeout, CallFails, WaitForJob, ReplaceOSDRemovalJob, RetryTimedOut,
              validateJobLogs, Return, GoOn
<1>2. ~CreateForcedOSDRemovalJob
  <2> DEFINE n == [inst EXCEPT !.forcedOSDRemoval = TRUE]
             t == "RetryForceCleanupOSDRemovalJob"
  <2>1. n \in NodeRecoveryStatus /\ n.conditions # <<>> /\ t \in ConditionType
    BY <1>a DEF NodeRecoveryStatus, ConditionType
  <2>2. CreateForcedOSDRemovalJob => inst' = transitionNextCondition(n, t)
    BY <1>b DEF CreateForcedOSDRemovalJob, Advance, Return
  <2> HIDE DEF n
  <2> QED BY <2>1, <2>2, TransitionType
<1>3. ~EnableCephToolsPod /\ ~enableCephTools /\ ~WaitForCephToolsPodRunning
      /\ ~WaitForOSDPodsStabilize /\ ~LabelNodesWithPendingPods /\ ~ManageCrashLoopBackOffPods
  BY DEF EnableCephToolsPod, enableCephTools, WaitForCephToolsPodRunning, CopyInv, JobWait,
         WaitForOSDPodsStabilize, LabelNodesWithPendingPods, ManageCrashLoopBackOffPods, At
<1>4. /\ \A o \in OSD : ~handleCrashLoopBackOffPods(o)
      /\ ~handleCrashLoopBackOffPodsFails /\ ~handleCrashLoopBackOffPodsPanics
      /\ ~ManageDone /\ ~ForceDeleteRookCephOSDPods
      /\ ~ProcessOCSRemovalTemplate /\ ~CreateOSDRemovalJob
  BY DEF handleCrashLoopBackOffPods, handleCrashLoopBackOffPodsFails, CopyInv, JobWait,
         handleCrashLoopBackOffPodsPanics, ManageDone, ForceDeleteRookCephOSDPods,
         ProcessOCSRemovalTemplate, CreateOSDRemovalJob, At
<1>5. /\ ~WaitForPersistenVolumeBound /\ ~RestartStorageOperator
      /\ ~DeleteFailedPodsNodeAffinity /\ ~StorageClusterFitnessCheck /\ ~DisableCephTools
  BY DEF WaitForPersistenVolumeBound, RestartStorageOperator, DeleteFailedPodsNodeAffinity,
         StorageClusterFitnessCheck, DisableCephTools, At, JobWait
<1>6. JobSucceeded
  BY <1>1, <1>2, <1>3, <1>4, <1>5 DEF Handler
<1> QED BY <1>6 DEF JobSucceeded, GetLogs

(***************************************************************************)
(* A handler keeps the devices it has read, unless it is the one that      *)
(* records them; and enters a condition past the job only with no device   *)
(* or with devices that are out of ceph.                                   *)
(***************************************************************************)
LEMMA HandlerRecord ==
  ASSUME TypeInv, JobInv, CopyInv, Handler, RecordOK(inst, Purged),
         jobPod = "Removed" => Ids(inst) \subseteq Purged
  PROVE  /\ RecordOK(inst', Purged)
         /\ \/ pc' = "idle"
            \/ Ids(inst') = Ids(inst)
            \/ /\ Latest(inst) = "ManageCrashLoopBackOffPods"
               /\ pc' = "update" /\ Latest(inst') = "ForceDeleteRookCephOSDPods"
<1> DEFINE here == getLatestCondition(inst)
<1>a. /\ inst \in StartedStatus /\ inst \in NodeRecoveryStatus /\ inst.startTime
      /\ inst.conditions # <<>>
  BY HandlerBusy DEF StartedStatus
<1>b. HandlerStep
  BY HandlerSteps
<1>c. ASSUME inst'.conditions = inst.conditions, inst'.nodeDevice = inst.nodeDevice, inst'.startTime
      PROVE  RecordOK(inst', Purged) /\ Ids(inst') = Ids(inst)
  BY <1>a, <1>c DEF RecordOK, Ids, Latest, Started, getLatestCondition
<1>1. CASE Panics
  <2>1. inst' = EmptyStatus /\ pc' = "idle"
    BY <1>1 DEF Panics, Panic, Idle
  <2> QED BY <2>1, EmptyRecord
<1>2. CASE Stays \/ Works \/ Fails \/ Completes
  <2>1. inst'.conditions = inst.conditions /\ inst'.nodeDevice = inst.nodeDevice /\ inst'.startTime
    BY <1>2, <1>a DEF Stays, Works, Fails, Completes, Ends, Handles, SameRecord, Return
  <2> QED BY <1>c, <2>1
<1>3. CASE Repeats
  <2> DEFINE next == transitionNextCondition(inst, "ForceDeleteRookCephOSDPods")
  <2>1. inst' = next /\ "ForceDeleteRookCephOSDPods" \in ConditionType
    BY <1>3 DEF Repeats, Advance, Return, ConditionType
  <2>2. /\ getLatestCondition(next) = "ForceDeleteRookCephOSDPods" /\ next.startTime
        /\ next.nodeDevice = inst.nodeDevice
    BY <1>a, <2>1, TransitionType, TransitionKeeps
  <2> HIDE DEF next
  <2> QED BY <2>1, <2>2 DEF RecordOK, Ids, Latest, Started, BeforeRemoval, AfterJob
<1>4. CASE Proceeds
  <2>1. PICK n, t :
          /\ Handles(n) /\ t \in ConditionType /\ t \in Flow!Following(here)
          /\ t # "ForceDeleteRookCephOSDPods" => n.nodeDevice = inst.nodeDevice
          /\ Advance(n, t)
    BY <1>4 DEF Proceeds
  <2> DEFINE next == transitionNextCondition(n, t)
  <2>2. n \in NodeRecoveryStatus /\ n.startTime /\ n.conditions # <<>>
    BY <2>1 DEF Handles, StartedStatus
  <2>3. /\ getLatestCondition(next) = t /\ next.startTime /\ next.nodeDevice = n.nodeDevice
    BY <2>1, <2>2, TransitionType, TransitionKeeps
  <2>4. inst' = next /\ pc' = "update"
    BY <2>1 DEF Advance, Return
  <2> HIDE DEF next
  <2>5. Latest(inst') = t /\ Ids(inst') = Ids(n) /\ Latest(inst) = here
    BY <1>a, <2>3, <2>4 DEF Latest, Started, Ids
  <2>6. CASE t = "ForceDeleteRookCephOSDPods"
    <3>1. here \in ConditionType
      BY <1>a, LatestConditionType
    <3>2. here = "ManageCrashLoopBackOffPods"
      BY <2>1, <2>6, <3>1, FollowingValues DEF ConditionType
    <3> QED BY <2>4, <2>5, <2>6, <3>2 DEF RecordOK, BeforeRemoval, AfterJob
  <2>7. CASE t # "ForceDeleteRookCephOSDPods"
    <3>1. Ids(inst') = Ids(inst)
      BY <2>1, <2>5, <2>7 DEF Ids
    <3>2. here \in ConditionType
      BY <1>a, LatestConditionType
    <3>3. /\ t \in BeforeRemoval => here \in BeforeRemoval
          /\ t \in AfterJob => \/ here \in AfterJob \cup BeforeRemoval
                               \/ here \in JobWait /\ t = "WaitForPersistenVolumeBound"
      BY <2>1, <3>2, <2>7, FollowingValues DEF ConditionType, BeforeRemoval, AfterJob, JobWait
    <3>4. here \in JobWait /\ t = "WaitForPersistenVolumeBound" => Ids(inst) \subseteq Purged
      BY <2>3, <2>4, JobDone
    <3> QED BY <2>5, <3>1, <3>3, <3>4 DEF RecordOK
  <2> QED BY <2>6, <2>7
<1> QED BY <1>b, <1>1, <1>2, <1>3, <1>4 DEF HandlerStep

-------------------------------------------------------------------------------
\* The invariant is about the copies, the job and the volumes only.
LEMMA RemovalFrames ==
  ASSUME RemovalInv, UNCHANGED <<store, cache, inst, pc, cur, job, jobPod, pv>>
  PROVE  RemovalInv'
  BY DEF RemovalInv, JobOf, Purged

\* Steps of the environment.
LEMMA EnvironmentRemoval ==
  ASSUME TypeInv, JobInv, CopyInv, RemovalInv, Environment
  PROVE  RemovalInv'
<1>a. \A c \in CR : /\ store[c] \in StartedStatus /\ cache[c] \in StartedStatus
                    /\ WellKept(store[c]) /\ WellKept(cache[c])
                    /\ RecordOK(store[c], Purged) /\ RecordOK(cache[c], Purged)
                    /\ Ids(cache[c]) \in {{}, Ids(store[c])} /\ JobOf(Ids(store[c]), Purged)
                    /\ Ids(store[c]) \subseteq ScaledSet
  BY DEF TypeInv, ApiInv, CopyInv, RemovalInv, JobInv, RemovalOK
<1>1. CASE ClusterNext /\ UNCHANGED <<apiVars, queue, workerVars, metrics, restartOwed>>
  <2>0. UNCHANGED <<store, cache, inst, pc, cur>>
    BY <1>1 DEF apiVars, workerVars
  <2>1. ASSUME NEW c \in CR
        PROVE  Purged \subseteq Purged' /\ JobOf(Ids(store[c]), Purged)'
    <3>1. PICK ids : ids = Ids(store[c])
      OBVIOUS
    <3>2. ids \subseteq ScaledSet /\ JobOf(ids, Purged)
      BY <1>a, <3>1
    <3>3. Purged \subseteq Purged' /\ JobOf(ids, Purged)'
      BY <1>1, <3>2, ClusterRemoval
    <3>4. Ids(store'[c]) = ids
      BY <2>0, <3>1
    <3> QED BY <3>3, <3>4 DEF JobOf, Purged
  <2>2. CASE CR = {}
    <3>1. pc = "idle"
      BY <2>2 DEF TypeInv, WorkerInv
    <3> QED BY <2>0, <2>2, <3>1 DEF RemovalInv
  <2>3. CASE CR # {}
    <3>1. Purged \subseteq Purged'
      BY <2>1, <2>3
    <3> QED BY <2>0, <2>1, <3>1, RecordMonotone DEF RemovalInv
  <2> QED BY <2>2, <2>3
<1>2. ASSUME NEW c \in CR, CreateCR(c) \/ DeleteCR(c) \/ Touch(c) PROVE RemovalInv'
  BY <1>2, RemovalFrames DEF CreateCR, DeleteCR, Touch, clusterVars, podVars, jobVars, workerVars
<1>3. ASSUME NEW c \in CR, CacheSync(c) PROVE RemovalInv'
  <2>1. /\ UNCHANGED <<store, inst, pc, cur, job, jobPod, pv>>
        /\ \A d \in CR : cache'[d] \in {cache[d], store[d]}
    BY <1>3 DEF CacheSync, clusterVars, podVars, jobVars, workerVars, TypeInv, ApiInv
  <2> QED BY <1>a, <2>1 DEF RemovalInv, JobOf, Purged
<1>4. ASSUME NEW c \in CR, Tick(c) PROVE RemovalInv'
  <2>1. /\ UNCHANGED <<inst, pc, cur, job, jobPod, pv>>
        /\ \A d \in CR : /\ cache'[d] \in {cache[d], Older(cache[d])}
                         /\ store'[d] \in {store[d], Older(store[d])}
    BY <1>4 DEF Tick, clusterVars, podVars, jobVars, workerVars, TypeInv, ApiInv
  <2>2. ASSUME NEW d \in CR
        PROVE  /\ RecordOK(store'[d], Purged) /\ RecordOK(cache'[d], Purged)
               /\ Ids(store'[d]) = Ids(store[d]) /\ Ids(cache'[d]) = Ids(cache[d])
    BY <1>a, <2>1, FrameRecord
  <2>3. pc # "idle" => cur \in CR
    BY DEF TypeInv, WorkerInv
  <2> QED BY <1>a, <2>1, <2>2, <2>3 DEF RemovalInv, JobOf, Purged
<1>5. CASE OperatorRestart
  <2>1. /\ UNCHANGED <<store, job, jobPod, pv>> /\ cache' = store
        /\ inst' = EmptyStatus /\ pc' = "idle"
    BY <1>5 DEF OperatorRestart, Idle, podVars, jobVars
  <2> QED BY <1>a, <2>1 DEF RemovalInv, JobOf, Purged
<1> QED BY <1>1, <1>2, <1>3, <1>4, <1>5 DEF Environment

\* The worker takes a resource, leaves one alone, or saves its copy.
LEMMA ReconcileRemoval ==
  ASSUME TypeInv, CopyInv, FreshInv, RemovalInv
  PROVE  /\ \A c \in CR : Start(c) \/ Ignore(c) => RemovalInv'
         /\ StatusUpdate \/ StatusUpdateFails => RemovalInv'
<1>1. ASSUME NEW c \in CR, Start(c) PROVE RemovalInv'
  <2>1. /\ cache[c] \in StartedStatus /\ WellKept(cache[c]) /\ RecordOK(cache[c], Purged)
        /\ Ids(cache[c]) \in {{}, Ids(store[c])}
    BY DEF TypeInv, ApiInv, CopyInv, RemovalInv
  <2>2. /\ UNCHANGED <<store, cache, job, jobPod, pv>> /\ cur' = c /\ inst' = Begun(cache[c])
    BY <1>1 DEF Start, Begun, apiVars, clusterVars, podVars, jobVars
  <2>3. RecordOK(inst', Purged) /\ Ids(inst') = Ids(cache[c])
    BY <2>1, <2>2, FrameRecord
  <2> QED BY <2>1, <2>2, <2>3 DEF RemovalInv, JobOf, Purged
<1>2. ASSUME NEW c \in CR, Ignore(c) PROVE RemovalInv'
  BY <1>2, RemovalFrames DEF Ignore, apiVars, clusterVars, podVars, jobVars, workerVars
<1>3. CASE StatusUpdateFails
  <2>1. UNCHANGED <<store, cache, job, jobPod, pv>> /\ pc' = "idle"
    BY <1>3 DEF StatusUpdateFails, Idle, apiVars, clusterVars, podVars, jobVars
  <2> QED BY <2>1 DEF RemovalInv, JobOf, Purged
<1>4. CASE StatusUpdate
  <2>0. PICK me \in CR : me = cur
    BY <1>4 DEF StatusUpdate, TypeInv, WorkerInv
  <2> DEFINE s == store[me]
  <2>1. /\ UNCHANGED <<cache, job, jobPod, pv>> /\ pc' = "idle"
        /\ store' = [store EXCEPT ![me] = inst] /\ store \in [CR -> StartedStatus]
        /\ pc = "update" /\ fresh /\ UniqueConditionTypes(inst)
    BY <1>4, <2>0 DEF StatusUpdate, StatusAccepted, Idle, clusterVars, podVars, jobVars,
                      TypeInv, ApiInv
  <2>2. /\ s \in StartedStatus /\ WellKept(s) /\ cache[me] = s /\ MaySave(s, inst)
        /\ RecordOK(s, Purged) /\ RecordOK(inst, Purged) /\ JobOf(Ids(s), Purged)
    BY <2>0, <2>1 DEF TypeInv, ApiInv, CopyInv, FreshInv, RemovalInv
  <2>3. \/ Ids(inst) = Ids(s)
        \/ getLatestCondition(Begun(s)) = "ManageCrashLoopBackOffPods"
    <3>1. /\ getLatestCondition(Begun(s)) \in ConditionType
      BY <2>2, BegunFacts, LatestConditionType DEF StartedStatus
    <3>2. /\ FlowAt(inst) \in Flow!Following(getLatestCondition(Begun(s)))
          /\ FlowAt(inst) = "ForceDeleteRookCephOSDPods"
          => getLatestCondition(Begun(s)) = "ManageCrashLoopBackOffPods"
      BY <3>1, FollowingValues DEF ConditionType
    <3> QED BY <2>1, <2>2, <3>2 DEF MaySave, SameFacts
  <2>4. getLatestCondition(Begun(s)) = "ManageCrashLoopBackOffPods" => Ids(s) = {}
    <3>1. ~s.startTime => getLatestCondition(Begun(s)) = "EnableCephToolsPod"
      BY <2>2, BegunFacts
    <3> QED BY <2>2, <3>1 DEF Begun, RecordOK, Latest, Started, BeforeRemoval
  <2>5. /\ JobOf(Ids(inst), Purged)
        /\ Ids(cache[me]) \in {{}, Ids(inst)}
    BY <2>2, <2>3, <2>4 DEF JobOf
  <2>6. \A d \in CR : store'[d] = IF d = me THEN inst ELSE store[d]
    BY <2>1
  <2> HIDE DEF s
  <2>7. ASSUME NEW d \in CR
        PROVE  /\ RecordOK(store'[d], Purged) /\ RecordOK(cache[d], Purged)
               /\ Ids(cache[d]) \in {{}, Ids(store'[d])}
               /\ JobOf(Ids(store'[d]), Purged)
    BY <2>2, <2>5, <2>6 DEF RemovalInv
  <2> QED BY <2>1, <2>7 DEF RemovalInv, JobOf, Purged
<1> QED BY <1>1, <1>2, <1>3, <1>4

\* A handler, when its recovery is the only one.
LEMMA HandlerRemoval ==
  ASSUME TypeInv, JobInv, CopyInv, RemovalInv, Handler, \A c, d \in CR : c = d
  PROVE  RemovalInv'
<1>0. PICK me \in CR : me = cur
  BY HandlerBusy
<1>1. PICK ids : ids = Ids(store[me])
  OBVIOUS
<1>2. /\ pc \notin {"idle", "update"} /\ inst.conditions # <<>>
      /\ Ids(inst) \in {{}, ids} /\ RecordOK(inst, Purged) /\ JobOf(ids, Purged)
  BY <1>0, <1>1, HandlerBusy DEF RemovalInv
<1>3. Purged \subseteq Purged' /\ HandlerJob
  BY HandlerJobs DEF RemovalStep
<1>4. UNCHANGED <<store, cache>> /\ (pc' # "idle" => cur' = me)
  BY HandlerSteps, <1>0
     DEF HandlerStep, Panics, Panic, Idle, Stays, Works, Fails, Completes, Ends, Proceeds, Repeats,
         Advance, Return, apiVars
<1>5. /\ RecordOK(inst', Purged)
      /\ \/ pc' = "idle"
         \/ Ids(inst') = Ids(inst)
         \/ pc' = "update" /\ Latest(inst') = "ForceDeleteRookCephOSDPods"
  BY <1>2, HandlerRecord DEF JobOf
<1>6. JobOf(ids, Purged)'
  <2>1. CASE \/ UNCHANGED jobVars
             \/ jobPod' = "none" /\ job' \in {job, NoJob}
             \/ UNCHANGED jobPod /\ job.exists /\ job' = [job EXCEPT !.exists = FALSE]
    <3>1. job \in RemovalJob
      BY DEF TypeInv, ClusterTypeOK
    <3>2. job'.ids = job.ids \/ (~job'.exists /\ jobPod' = "none")
      BY <2>1, <3>1 DEF jobVars, RemovalJob, NoJob
    <3>3. /\ job'.exists => job.exists
          /\ jobPod' \in {jobPod, "none"}
      BY <2>1, <3>1 DEF jobVars, RemovalJob, NoJob
    <3> QED BY <1>2, <1>3, <3>2, <3>3 DEF JobOf
  <2>2. CASE /\ UNCHANGED jobPod /\ job'.exists /\ job'.ids = Ids(inst)
             /\ pc = "create" /\ getLatestCondition(inst) \in JobConditions
    <3>1. Ids(inst) # {}
      BY <1>2, <2>2 DEF JobInv, RemovalOK
    <3> QED BY <1>2, <1>3, <2>2, <3>1 DEF JobOf
  <2> QED BY <1>3, <2>1, <2>2 DEF HandlerJob
<1>7. \A c \in CR : c = me
  OBVIOUS
<1>8. \A c \in CR : /\ RecordOK(store'[c], Purged') /\ RecordOK(cache'[c], Purged')
                    /\ Ids(cache'[c]) \in {{}, Ids(store'[c])} /\ Ids(store'[c]) = ids
  BY <1>1, <1>3, <1>4, <1>7, RecordMonotone DEF RemovalInv
<1>9. pc' # "idle" =>
        /\ RecordOK(inst', Purged')
        /\ \/ Ids(inst') \in {{}, Ids(store'[cur'])}
           \/ pc' = "update" /\ Latest(inst') = "ForceDeleteRookCephOSDPods"
  BY <1>2, <1>3, <1>4, <1>5, <1>8, RecordMonotone
<1> QED BY <1>6, <1>8, <1>9 DEF RemovalInv, JobOf

LEMMA RemovalInvCorrect == ASSUME \A c, d \in CR : c = d PROVE Spec => []RemovalInv
<1>1. Init => RemovalInv
  <2> SUFFICES ASSUME Init PROVE RemovalInv
    OBVIOUS
  <2>1. ~job.exists /\ jobPod = "none"
    BY DEF Init, ClusterInit, NoJob
  <2> QED BY <2>1, EmptyRecord DEF Init, RemovalInv, JobOf
<1>2. TypeInv /\ JobInv /\ CopyInv /\ FreshInv /\ RemovalInv /\ [Next]_vars => RemovalInv'
  <2> SUFFICES ASSUME TypeInv, JobInv, CopyInv, FreshInv, RemovalInv, [Next]_vars
               PROVE  RemovalInv'
    OBVIOUS
  <2>1. CASE UNCHANGED vars
    BY <2>1, RemovalFrames DEF vars, apiVars, clusterVars, podVars, jobVars, workerVars
  <2> QED BY <2>1, EnvironmentRemoval, ReconcileRemoval, HandlerRemoval DEF Next
<1> QED BY <1>1, <1>2, TypeCorrect, JobInvCorrect, FlowInvCorrect, PTL DEF Spec

(***************************************************************************)
(* A recovery that is the only one goes past the removal job only when its *)
(* devices are out of ceph, whatever fails and however far the informers   *)
(* lag: the log that validateJobLogs reads is that of a pod that exists,   *)
(* and every job pod that exists was given these devices.                  *)
(***************************************************************************)
THEOREM RemovalConfirmedCorrect ==
  ASSUME \A c, d \in CR : c = d
  PROVE  Spec => []RemovalConfirmed
<1>1. RemovalInv => RemovalConfirmed
  <2> SUFFICES ASSUME RemovalInv, NEW c \in CR, Latest(store[c]) \in AfterJob,
                      NEW o \in Ids(store[c])
               PROVE  pv[o] # "Bound"
    BY DEF RemovalConfirmed, Ids
  <2> QED BY DEF RemovalInv, RecordOK, Purged
<1> QED BY <1>1, RemovalInvCorrect, PTL

-------------------------------------------------------------------------------
(***************************************************************************)
(* A recovery that has its devices removed never meets the job again, nor  *)
(* does a reconciliation that starts on an old copy of it: the copy is at  *)
(* most one step old, waits for a pod that is gone, and does nothing.      *)
(***************************************************************************)
NothingLeft == ~job.exists /\ jobPod = "none"
JobOver     == AfterJob \cup JobWait
PastJob(s)  == Latest(s) \in AfterJob /\ Ids(s) # {}

\* A copy that has the latest resourceVersion is where the stored status is,
\* or one step on, in a terminal phase too.
PlaceInv ==
  pc # "idle" /\ fresh =>
    LET from == getLatestCondition(Begun(store[cur]))
    IN  Latest(inst) = from \/ Latest(inst) \in Flow!Following(from)

BehindInv ==
  /\ PlaceInv
  /\ \A c \in CR : PastJob(store[c]) =>
       /\ Latest(cache[c]) \in JobOver /\ NothingLeft
       /\ pc # "idle" => Latest(inst) \in JobOver /\ pc # "create"
  /\ pc = "update" /\ fresh /\ Latest(inst) \in AfterJob => NothingLeft

\* A handler stays in its condition or enters one that follows.
LEMMA HandlerPlace ==
  ASSUME TypeInv, JobInv, CopyInv, Handler
  PROVE  /\ UNCHANGED <<store, cache>>
         /\ \/ pc' = "idle"
            \/ /\ cur' = cur /\ fresh' = fresh /\ pc' # "idle"
               /\ \/ Latest(inst') = Latest(inst)
                  \/ Latest(inst') \in Flow!Following(Latest(inst))
<1>a. /\ inst \in StartedStatus /\ inst \in NodeRecoveryStatus /\ inst.startTime
      /\ inst.conditions # <<>> /\ Latest(inst) = getLatestCondition(inst)
  BY HandlerBusy DEF StartedStatus, Latest, Started
<1>1. CASE Panics
  BY <1>1 DEF Panics, Panic, Idle, apiVars
<1>2. CASE Stays \/ Works \/ Fails \/ Completes
  <2>1. inst'.conditions = inst.conditions /\ inst'.startTime
    BY <1>2 DEF Stays, Works, Fails, Completes, Ends, Handles, Return
  <2>2. UNCHANGED <<apiVars, cur, fresh>> /\ pc' # "idle"
    BY <1>2 DEF Stays, Works, Fails, Completes, Ends, Return
  <2> QED BY <1>a, <2>1, <2>2 DEF Latest, Started, getLatestCondition, apiVars
<1>3. CASE Repeats
  <2>1. /\ inst' = transitionNextCondition(inst, "ForceDeleteRookCephOSDPods")
        /\ UNCHANGED <<apiVars, cur, fresh>> /\ pc' # "idle"
        /\ Latest(inst) = "ForceDeleteRookCephOSDPods"
        /\ "ForceDeleteRookCephOSDPods" \in ConditionType
    BY <1>3, <1>a DEF Repeats, Advance, Return, ConditionType
  <2>2. Latest(inst') = "ForceDeleteRookCephOSDPods"
    BY <1>a, <2>1, TransitionType, TransitionKeeps DEF Latest, Started
  <2> QED BY <2>1, <2>2 DEF apiVars
<1>4. CASE Proceeds
  <2>1. PICK n, t :
          /\ Handles(n) /\ t \in ConditionType /\ t \in Flow!Following(getLatestCondition(inst))
          /\ Advance(n, t)
    BY <1>4 DEF Proceeds
  <2>2. /\ inst' = transitionNextCondition(n, t)
        /\ UNCHANGED <<apiVars, cur, fresh>> /\ pc' # "idle"
    BY <2>1 DEF Advance, Return
  <2>3. n \in NodeRecoveryStatus /\ n.startTime /\ n.conditions # <<>>
    BY <2>1 DEF Handles, StartedStatus
  <2>4. Latest(inst') = t
    BY <2>1, <2>2, <2>3, TransitionType, TransitionKeeps DEF Latest, Started
  <2> QED BY <1>a, <2>1, <2>2, <2>4 DEF apiVars
<1> QED BY <1>1, <1>2, <1>3, <1>4, HandlerSteps DEF HandlerStep

\* The two handlers that go on to create a job.
LEMMA HandlerCreates ==
  ASSUME Handler, pc' = "create"
  PROVE  ProcessOCSRemovalTemplate \/ ReplaceOSDRemovalJob
<1>1. ~ReconciliationTimeout /\ ~CallFails /\ ~EnableCephToolsPod /\ ~enableCephTools
      /\ ~WaitForCephToolsPodRunning /\ ~WaitForOSDPodsStabilize /\ ~LabelNodesWithPendingPods
  BY DEF ReconciliationTimeout, CallFails, EnableCephToolsPod, enableCephTools,
         WaitForCephToolsPodRunning, WaitForOSDPodsStabilize, LabelNodesWithPendingPods,
         Advance, Return, GoOn
<1>2. ~ManageCrashLoopBackOffPods /\ ~handleCrashLoopBackOffPodsFails
      /\ ~handleCrashLoopBackOffPodsPanics /\ ~ManageDone /\ ~ForceDeleteRookCephOSDPods
      /\ \A o \in OSD : ~handleCrashLoopBackOffPods(o)
  BY DEF ManageCrashLoopBackOffPods, handleCrashLoopBackOffPodsFails,
         handleCrashLoopBackOffPodsPanics, ManageDone, ForceDeleteRookCephOSDPods,
         handleCrashLoopBackOffPods, Advance, Return, Panic, Idle
<1>3. ~CreateOSDRemovalJob /\ ~WaitForJob /\ ~CreateForcedOSDRemovalJob /\ ~RetryTimedOut
      /\ ~validateJobLogs /\ ~JobSucceeded
  BY DEF CreateOSDRemovalJob, WaitForJob, CreateForcedOSDRemovalJob, RetryTimedOut,
         validateJobLogs, JobSucceeded, Advance, Return
<1>4. ~WaitForPersistenVolumeBound /\ ~RestartStorageOperator /\ ~DeleteFailedPodsNodeAffinity
      /\ ~StorageClusterFitnessCheck /\ ~DisableCephTools
  BY DEF WaitForPersistenVolumeBound, RestartStorageOperator, DeleteFailedPodsNodeAffinity,
         StorageClusterFitnessCheck, DisableCephTools, Advance, Return
<1> QED BY <1>1, <1>2, <1>3, <1>4 DEF Handler

\* With no job and no pod of one, a handler past the job, or waiting for it,
\* makes none.
LEMMA NothingMade ==
  ASSUME TypeInv, JobInv, CopyInv, Handler, NothingLeft, pc # "create",
         Latest(inst) \in JobOver, "Pod" \notin Lagging
  PROVE  NothingLeft' /\ pc' # "create" /\ (pc' # "idle" => Latest(inst') \in JobOver)
<1>1. NothingLeft'
  <2>1. job' \in {job, NoJob} /\ jobPod' \in {jobPod, "none"}
    BY HandlerJobs DEF RemovalStep, HandlerJob, NothingLeft, jobVars
  <2> QED BY <2>1 DEF NothingLeft, NoJob
<1>2. Latest(inst) = getLatestCondition(inst)
  BY HandlerBusy DEF Latest, Started
<1>3. pc' # "create"
  <2>1. ~ProcessOCSRemovalTemplate
    BY <1>2 DEF ProcessOCSRemovalTemplate, At, JobOver, AfterJob, JobWait
  <2>2. ~ReplaceOSDRemovalJob
    BY DEF ReplaceOSDRemovalJob, JobTimedOut, readJobPod, NothingLeft
  <2> QED BY <2>1, <2>2, HandlerCreates
<1>4. \A t : t \in Flow!Following(Latest(inst)) => t \in JobOver
  BY FollowingValues DEF JobOver, AfterJob, JobWait
<1> QED BY <1>1, <1>3, <1>4, HandlerPlace

\* A copy that has the latest resourceVersion is where the stored status is.
LEMMA FreshPlace ==
  ASSUME TypeInv, CopyInv, FreshInv, Handler, fresh
  PROVE  /\ Latest(inst) = getLatestCondition(Begun(store[cur]))
         /\ Latest(inst) # "EnableCephToolsPod" => Latest(store[cur]) = Latest(inst)
<1>1. pc \notin {"idle", "update"} /\ inst.startTime /\ cur \in CR
  BY HandlerBusy
<1>2. /\ Latest(inst) = getLatestCondition(Begun(store[cur]))
      /\ Latest(inst) # "EnableCephToolsPod" => store[cur].startTime
  BY <1>1, FreshFacts DEF Latest, Started
<1> QED BY <1>2 DEF Begun, Latest, Started

\* What a handler leaves when it returns past the job.
LEMMA HandlerLeaves ==
  ASSUME TypeInv, JobInv, CopyInv, FreshInv, RemovalInv, RemovalInv', BehindInv, Handler,
         \A c, d \in CR : c = d, Lagging \cap {"Pod", "Job"} = {},
         pc' = "update", fresh', Latest(inst') \in AfterJob
  PROVE  NothingLeft'
<1>0. PICK me \in CR : me = cur
  BY HandlerBusy
<1>1. pc \notin {"idle", "update"} /\ Latest(inst) = getLatestCondition(inst)
      /\ Latest(inst) \in ConditionType
  BY HandlerBusy, LatestConditionType DEF Latest, Started, StartedStatus
<1>2. /\ fresh /\ store' = store
      /\ Latest(inst') = Latest(inst) \/ Latest(inst') \in Flow!Following(Latest(inst))
  BY HandlerPlace
<1>3. Latest(inst) # "EnableCephToolsPod" => Latest(store[me]) = Latest(inst)
  BY <1>0, <1>2, FreshPlace
<1>4. Ids(store[me]) = {} => NothingLeft'
  BY <1>2 DEF RemovalInv, JobOf, NothingLeft
<1>5. \/ Latest(inst) \in AfterJob
      \/ Latest(inst) = "ManageCrashLoopBackOffPods"
      \/ Latest(inst) \in JobWait /\ Latest(inst') = "WaitForPersistenVolumeBound"
  BY <1>1, <1>2, FollowingValues DEF ConditionType, AfterJob, JobWait
<1>6. CASE Latest(inst) \in AfterJob
  <2>1. Latest(store[me]) \in AfterJob
    BY <1>3, <1>6 DEF AfterJob
  <2>2. CASE Ids(store[me]) # {}
    <3>1. NothingLeft /\ Latest(inst) \in JobOver /\ pc # "create"
      BY <1>1, <2>1, <2>2 DEF BehindInv, PastJob
    <3> QED BY <3>1, NothingMade
  <2> QED BY <1>4, <2>2
<1>7. CASE Latest(inst) = "ManageCrashLoopBackOffPods"
  <2>1. Ids(store[me]) = {}
    BY <1>3, <1>7 DEF RemovalInv, RecordOK, BeforeRemoval
  <2> QED BY <1>4, <2>1
<1>8. CASE Latest(inst) \in JobWait /\ Latest(inst') = "WaitForPersistenVolumeBound"
  <2>1. getLatestCondition(inst') = "WaitForPersistenVolumeBound"
    BY <1>8 DEF Latest, Started
  <2>2. JobSucceeded
    BY <1>1, <1>8, <2>1, JobDone
  <2>3. ~Return(inst, "error")
    BY <1>8, <1>1 DEF Return, JobWait
  <2>4. deleteOldOSDRemovalJob
    BY <2>2, <2>3 DEF JobSucceeded
  <2> QED BY <2>4 DEF deleteOldOSDRemovalJob, readJob, NothingLeft, NoJob
<1> QED BY <1>5, <1>6, <1>7, <1>8

LEMMA HandlerBehind ==
  ASSUME TypeInv, JobInv, CopyInv, FreshInv, RemovalInv, RemovalInv', BehindInv, Handler,
         \A c, d \in CR : c = d, Lagging \cap {"Pod", "Job"} = {}
  PROVE  BehindInv'
<1>0. PICK me \in CR : me = cur
  BY HandlerBusy
<1>1. pc \notin {"idle", "update"}
  BY HandlerBusy
<1>2. /\ UNCHANGED <<store, cache>>
      /\ \/ pc' = "idle"
         \/ /\ cur' = cur /\ fresh' = fresh /\ pc' # "idle"
            /\ Latest(inst') = Latest(inst) \/ Latest(inst') \in Flow!Following(Latest(inst))
  BY HandlerPlace
<1>3. PlaceInv'
  BY <1>2, FreshPlace DEF PlaceInv
<1>4. ASSUME NEW c \in CR, PastJob(store'[c])
      PROVE  /\ Latest(cache'[c]) \in JobOver /\ NothingLeft'
             /\ pc' # "idle" => Latest(inst') \in JobOver /\ pc' # "create"
  <2>1. /\ Latest(cache[c]) \in JobOver /\ NothingLeft
        /\ Latest(inst) \in JobOver /\ pc # "create"
    BY <1>1, <1>2, <1>4 DEF BehindInv
  <2> QED BY <1>2, <2>1, NothingMade
<1>5. pc' = "update" /\ fresh' /\ Latest(inst') \in AfterJob => NothingLeft'
  BY HandlerLeaves
<1> QED BY <1>3, <1>4, <1>5 DEF BehindInv

\* The cluster makes no pod without a job.
LEMMA ClusterNothing ==
  ASSUME ClusterNext, NothingLeft
  PROVE  NothingLeft'
<1> USE DEF NothingLeft, jobVars
<1>1. CASE ToolsPodChanges \/ ClusterUpgrades \/ JobPodStarts \/ JobPodEnds
  BY <1>1 DEF ToolsPodChanges, ClusterUpgrades, JobPodStarts, JobPodEnds
<1>2. ASSUME NEW o \in OSD, PodChanges(o) \/ PodTerminates(o) \/ MinutePasses(o) \/ PodGone(o)
                            \/ NewOSD(o) \/ JobPurges(o) \/ PodRejected(o) \/ VolumeReleased(o)
      PROVE  NothingLeft'
  BY <1>2 DEF PodChanges, PodTerminates, MinutePasses, PodGone, NewOSD, JobPurges, PodRejected,
              VolumeReleased
<1>3. ASSUME NEW kind \in Kind, InformerSync(kind) PROVE NothingLeft'
  BY <1>3 DEF InformerSync
<1> QED BY <1>1, <1>2, <1>3 DEF ClusterNext

LEMMA EnvironmentBehind ==
  ASSUME TypeInv, CopyInv, BehindInv, Environment
  PROVE  BehindInv'
<1>a. AfterJob \subseteq JobOver
  BY DEF JobOver
<1>1. CASE ClusterNext /\ UNCHANGED <<apiVars, queue, workerVars, metrics, restartOwed>>
  <2>1. UNCHANGED <<store, cache, inst, pc, cur, fresh>>
    BY <1>1 DEF apiVars, workerVars
  <2>2. NothingLeft => NothingLeft'
    BY <1>1, ClusterNothing
  <2> QED BY <2>1, <2>2 DEF BehindInv, PlaceInv
<1>2. ASSUME NEW c \in CR, CreateCR(c) \/ DeleteCR(c) \/ Touch(c) PROVE BehindInv'
  <2>1. UNCHANGED <<store, cache, inst, pc, cur, job, jobPod>> /\ (fresh' => fresh)
    <3>1. UNCHANGED <<store, cache, inst, pc, cur, job, jobPod>>
      BY <1>2 DEF CreateCR, DeleteCR, Touch, clusterVars, jobVars, workerVars
    <3>2. fresh' => fresh
      BY <1>2, Zenon DEF CreateCR, DeleteCR, Touch, workerVars
    <3> QED BY <3>1, <3>2
  <2> QED BY <2>1 DEF BehindInv, PlaceInv, NothingLeft
<1>3. ASSUME NEW c \in CR, CacheSync(c) PROVE BehindInv'
  <2>1. /\ UNCHANGED <<store, inst, pc, cur, fresh, job, jobPod>>
        /\ \A d \in CR : cache'[d] \in {cache[d], store[d]}
    BY <1>3 DEF CacheSync, clusterVars, jobVars, workerVars, TypeInv, ApiInv
  <2> QED BY <1>a, <2>1 DEF BehindInv, PlaceInv, NothingLeft, PastJob
<1>4. ASSUME NEW c \in CR, Tick(c) PROVE BehindInv'
  <2>1. /\ UNCHANGED <<inst, pc, cur, fresh, job, jobPod>>
        /\ \A d \in CR : /\ cache'[d] \in {cache[d], Older(cache[d])}
                         /\ store'[d] \in {store[d], Older(store[d])}
                         /\ d = cur => store'[d] = store[d]
    BY <1>4 DEF Tick, clusterVars, jobVars, workerVars, TypeInv, ApiInv
  <2>2. ASSUME NEW d \in CR
        PROVE  /\ Latest(store'[d]) = Latest(store[d]) /\ Ids(store'[d]) = Ids(store[d])
               /\ Latest(cache'[d]) = Latest(cache[d])
    BY <2>1, OlderSame DEF TypeInv, ApiInv, CopyInv, SamePlace, Ids
  <2>3. pc # "idle" => cur \in CR
    BY DEF TypeInv, WorkerInv
  <2>4. PlaceInv'
    BY <2>1, <2>3 DEF BehindInv, PlaceInv
  <2>5. \A d \in CR : PastJob(store'[d]) => PastJob(store[d])
    BY <2>2 DEF PastJob
  <2>6. NothingLeft' = NothingLeft /\ Latest(inst)' = Latest(inst)
    BY <2>1 DEF NothingLeft, Latest, Started, getLatestCondition
  <2> QED BY <2>1, <2>2, <2>4, <2>5, <2>6 DEF BehindInv
<1>5. CASE OperatorRestart
  <2>1. UNCHANGED <<store, job, jobPod>> /\ cache' = store /\ pc' = "idle"
    BY <1>5 DEF OperatorRestart, Idle, jobVars
  <2> QED BY <1>a, <2>1 DEF BehindInv, PlaceInv, NothingLeft, PastJob
<1> QED BY <1>1, <1>2, <1>3, <1>4, <1>5 DEF Environment

LEMMA ReconcileBehind ==
  ASSUME TypeInv, CopyInv, FreshInv, RemovalInv, BehindInv
  PROVE  /\ \A c \in CR : (Start(c) \/ Ignore(c)) /\ (\A d \in CR : c = d) => BehindInv'
         /\ StatusUpdate \/ StatusUpdateFails => BehindInv'
<1>1. ASSUME NEW c \in CR, Start(c), \A d \in CR : c = d PROVE BehindInv'
  <2>1. /\ cache[c] \in StartedStatus /\ WellKept(cache[c])
        /\ PastJob(store[c]) => Latest(cache[c]) \in JobOver /\ NothingLeft
        /\ synced[c] => cache[c] = store[c]
    BY DEF TypeInv, ApiInv, CopyInv, FreshInv, BehindInv
  <2>2. /\ UNCHANGED <<store, cache, job, jobPod>> /\ cur' = c /\ inst' = Begun(cache[c])
        /\ pc' = "reconcile" /\ fresh' = synced[c]
    BY <1>1 DEF Start, Begun, apiVars, clusterVars, jobVars
  <2>3. Latest(inst') = getLatestCondition(Begun(cache[c]))
    BY <2>1, <2>2, BegunFacts DEF Latest, Started
  <2>4. PlaceInv'
    BY <2>1, <2>2, <2>3 DEF PlaceInv
  <2>5. PastJob(store[c]) => Latest(inst') \in JobOver
    BY <2>1, <2>2 DEF Latest, Started, Begun, JobOver, AfterJob, JobWait
  <2> QED BY <1>1, <2>1, <2>2, <2>4, <2>5 DEF BehindInv, NothingLeft
<1>2. ASSUME NEW c \in CR, Ignore(c) PROVE BehindInv'
  <2>1. UNCHANGED <<store, cache, inst, pc, cur, fresh, job, jobPod>>
    BY <1>2 DEF Ignore, apiVars, clusterVars, jobVars, workerVars
  <2> QED BY <2>1 DEF BehindInv, PlaceInv, NothingLeft
<1>3. CASE StatusUpdateFails
  <2>1. UNCHANGED <<store, cache, job, jobPod>> /\ pc' = "idle"
    BY <1>3 DEF StatusUpdateFails, Idle, apiVars, clusterVars, jobVars
  <2> QED BY <2>1 DEF BehindInv, PlaceInv, NothingLeft
<1>4. CASE StatusUpdate
  <2>0. PICK me \in CR : me = cur
    BY <1>4 DEF StatusUpdate, TypeInv, WorkerInv
  <2> DEFINE s    == store[me]
             from == getLatestCondition(Begun(s))
  <2>1. /\ UNCHANGED <<cache, job, jobPod>> /\ pc' = "idle"
        /\ store' = [store EXCEPT ![me] = inst] /\ store \in [CR -> StartedStatus]
        /\ pc = "update" /\ fresh /\ UniqueConditionTypes(inst)
    BY <1>4, <2>0 DEF StatusUpdate, StatusAccepted, Idle, clusterVars, jobVars, TypeInv, ApiInv
  <2>2. /\ s \in StartedStatus /\ WellKept(s) /\ cache[me] = s /\ MaySave(s, inst)
        /\ RecordOK(s, Purged)
    BY <2>0, <2>1 DEF TypeInv, ApiInv, CopyInv, FreshInv, RemovalInv
  <2>3. Latest(inst) = from \/ Latest(inst) \in Flow!Following(from)
    BY <2>0, <2>1 DEF BehindInv, PlaceInv
  <2>4. from \in ConditionType /\ (from # "EnableCephToolsPod" => Latest(s) = from)
    <3>1. from \in ConditionType
      BY <2>2, BegunFacts, LatestConditionType DEF StartedStatus
    <3>2. ~s.startTime => from = "EnableCephToolsPod"
      BY <2>2, BegunFacts
    <3> QED BY <3>1, <3>2 DEF Begun, Latest, Started
  <2>5. ASSUME PastJob(inst) PROVE Latest(cache[me]) \in JobOver /\ NothingLeft
    <3>1. NothingLeft /\ Latest(inst) \in AfterJob
      BY <2>1, <2>5 DEF BehindInv, PastJob
    <3>2. from \in JobOver \/ from = "ManageCrashLoopBackOffPods"
      BY <2>3, <2>4, <3>1, FollowingValues DEF ConditionType, JobOver, AfterJob, JobWait
    <3>3. from # "ManageCrashLoopBackOffPods"
      <4>1. SUFFICES ASSUME from = "ManageCrashLoopBackOffPods" PROVE FALSE
        OBVIOUS
      <4>2. Ids(s) = {}
        BY <2>2, <2>4, <4>1 DEF RecordOK, BeforeRemoval
      <4>3. FlowAt(inst) # "ForceDeleteRookCephOSDPods"
        BY <3>1 DEF FlowAt, AfterJob, TerminalPhase
      <4>4. Ids(inst) = Ids(s)
        BY <2>1, <2>2, <4>3 DEF MaySave, SameFacts
      <4> QED BY <2>5, <4>2, <4>4 DEF PastJob
    <3> QED BY <2>2, <2>4, <3>1, <3>2, <3>3 DEF JobOver, AfterJob, JobWait
  <2>6. \A d \in CR : store'[d] = IF d = me THEN inst ELSE store[d]
    BY <2>1
  <2> HIDE DEF s, from
  <2>7. ASSUME NEW d \in CR, PastJob(store'[d])
        PROVE  Latest(cache[d]) \in JobOver /\ NothingLeft
    BY <2>5, <2>6, <2>7 DEF BehindInv
  <2> QED BY <2>1, <2>7 DEF BehindInv, PlaceInv, NothingLeft
<1> QED BY <1>1, <1>2, <1>3, <1>4

LEMMA BehindInvCorrect ==
  ASSUME \A c, d \in CR : c = d, Lagging \cap {"Pod", "Job"} = {}
  PROVE  Spec => []BehindInv
<1>1. Init => BehindInv
  <2> SUFFICES ASSUME Init PROVE BehindInv
    OBVIOUS
  <2>1. Ids(EmptyStatus) = {}
    BY EmptyRecord
  <2> QED BY <2>1 DEF Init, BehindInv, PlaceInv, PastJob
<1>2. /\ TypeInv /\ JobInv /\ CopyInv /\ FreshInv /\ RemovalInv /\ RemovalInv' /\ BehindInv
      /\ [Next]_vars
      => BehindInv'
  <2> SUFFICES ASSUME TypeInv, JobInv, CopyInv, FreshInv, RemovalInv, RemovalInv', BehindInv,
                      [Next]_vars
               PROVE  BehindInv'
    OBVIOUS
  <2>1. CASE UNCHANGED vars
    BY <2>1 DEF vars, apiVars, clusterVars, jobVars, workerVars, BehindInv, PlaceInv, NothingLeft
  <2> QED BY <2>1, EnvironmentBehind, ReconcileBehind, HandlerBehind DEF Next
<1> QED BY <1>1, <1>2, TypeCorrect, JobInvCorrect, FlowInvCorrect, RemovalInvCorrect, PTL DEF Spec

(***************************************************************************)
(* A recovery that is the only one, with informers that show pods and jobs *)
(* as they are, has left neither job nor job pod behind once it is past    *)
(* the removal, whatever fails: JobSucceeded deletes both before the       *)
(* condition is saved, and a reconciliation on the condition before it     *)
(* finds no pod and creates nothing.                                       *)
(***************************************************************************)
THEOREM NoJobLeftBehindCorrect ==
  ASSUME \A c, d \in CR : c = d, Lagging \cap {"Pod", "Job"} = {}
  PROVE  Spec => []NoJobLeftBehind
<1>1. RemovalInv /\ BehindInv => NoJobLeftBehind
  <2> SUFFICES ASSUME RemovalInv, BehindInv, NEW c \in CR, Latest(store[c]) \in AfterJob
               PROVE  ~job.exists /\ jobPod = "none"
    BY DEF NoJobLeftBehind
  <2>1. CASE Ids(store[c]) = {}
    BY <2>1 DEF RemovalInv, JobOf
  <2>2. CASE Ids(store[c]) # {}
    BY <2>2 DEF BehindInv, PastJob, NothingLeft
  <2> QED BY <2>1, <2>2
<1> QED BY <1>1, RemovalInvCorrect, BehindInvCorrect, PTL

-------------------------------------------------------------------------------
(***************************************************************************)
(* Every OSD that a quiet recovery has scaled down is one it has recorded, *)
(* or is about to: no reconciliation is lost between the first deployment  *)
(* it scales and the condition that names them all.  Before that, no       *)
(* volume has been given up.                                               *)
(***************************************************************************)
OrphanInv ==
  /\ pc # "scale" => nodePV = <<>>
  /\ \A c \in CR : Ids(store[c]) = {} => \A o \in OSD : pv[o] \in {"Unused", "Bound"}
  /\ \A c \in CR, o \in OSD :
       replicas[o] = 0 /\ pv[o] = "Bound" =>
         o \in getOSDIDsFromNodeDevices(nodePV) \cup Ids(Now(c))

\* What the worker does while it scales the deployments.
LEMMA ScaleHandlers ==
  ASSUME Handler, pc = "scale"
  PROVE  \/ \E o \in OSD : handleCrashLoopBackOffPods(o)
         \/ handleCrashLoopBackOffPodsFails \/ handleCrashLoopBackOffPodsPanics \/ ManageDone
  BY DEF Handler, ReconciliationTimeout, CallFails, EnableCephToolsPod, enableCephTools,
         WaitForCephToolsPodRunning, WaitForOSDPodsStabilize, LabelNodesWithPendingPods,
         ManageCrashLoopBackOffPods, ForceDeleteRookCephOSDPods, ProcessOCSRemovalTemplate,
         CreateOSDRemovalJob, WaitForJob, ReplaceOSDRemovalJob, CreateForcedOSDRemovalJob,
         RetryTimedOut, validateJobLogs, JobSucceeded, WaitForPersistenVolumeBound,
         RestartStorageOperator, DeleteFailedPodsNodeAffinity, StorageClusterFitnessCheck,
         DisableCephTools, AtJob, At

\* The other handlers scale nothing, and touch no pod and no volume but those
\* of their devices.
VolumesKept ==
  /\ \A o \in OSD \ Ids(inst) : pod'[o] = pod[o]
  /\ \A o \in OSD : term'[o] \in {0, term[o]}
  /\ UNCHANGED replicas
  /\ \/ UNCHANGED pv
     \/ \E gone \in SUBSET Ids(inst) : pv' = [o \in OSD |-> IF o \in gone THEN "Deleted" ELSE pv[o]]
  /\ nodePV' \in {<<>>, nodePV}

LEMMA HandlerVolumes ==
  ASSUME Handler, \A o \in OSD : ~handleCrashLoopBackOffPods(o)
  PROVE  VolumesKept
<1> USE DEF VolumesKept
<1>a. /\ NoCall => UNCHANGED <<pod, term, pv, replicas>>
      /\ \A nodes : labelNodesWithPodsInPendingState(nodes) => UNCHANGED <<pod, term, pv, replicas>>
      /\ \A ids : forceDeleteRookCephOSDPods(ids) =>
           /\ UNCHANGED <<pv, replicas>> /\ \A o \in OSD \ ids : pod'[o] = pod[o]
           /\ \A o \in OSD : term'[o] \in {0, term[o]}
      /\ \A pods : deleteFailedPodsWithReasonNodeAffinity(pods) => UNCHANGED <<pod, term, pv, replicas>>
      /\ archiveCephDaemonCrashMessages => UNCHANGED <<pod, term, pv, replicas>>
      /\ deleteOldOSDRemovalJob => UNCHANGED <<pod, term, pv, replicas>>
      /\ deleteOldOSDRemovalJobErrs => UNCHANGED <<pod, term, pv, replicas>>
      /\ \A ids, b : processOCSOSDRemovalTemplate(ids, b) => UNCHANGED <<pod, term, pv, replicas>>
  BY DEF NoCall, labelNodesWithPodsInPendingState, forceDeleteRookCephOSDPods,
         deleteFailedPodsWithReasonNodeAffinity, archiveCephDaemonCrashMessages,
         deleteOldOSDRemovalJob, deleteOldOSDRemovalJobErrs, deleteOldOSDRemovalJobFails,
         processOCSOSDRemovalTemplate, clusterVars, podVars
<1>1. CASE ReconciliationTimeout \/ CallFails \/ EnableCephToolsPod
           \/ WaitForCephToolsPodRunning \/ WaitForOSDPodsStabilize
  BY <1>1, <1>a DEF ReconciliationTimeout, CallFails, EnableCephToolsPod, Advance, Return, GoOn,
                    WaitForCephToolsPodRunning, WaitForOSDPodsStabilize
<1>2. CASE enableCephTools \/ DisableCephTools
  BY <1>2, <1>a DEF enableCephTools, DisableCephTools, setEnableCephToolsValue, podVars,
                    Advance, Return
<1>3. CASE LabelNodesWithPendingPods
  BY <1>3, <1>a DEF LabelNodesWithPendingPods, Advance, Return
<1>4. CASE \/ ManageCrashLoopBackOffPods \/ handleCrashLoopBackOffPodsFails
           \/ handleCrashLoopBackOffPodsPanics \/ ManageDone
  BY <1>4, <1>a DEF ManageCrashLoopBackOffPods, handleCrashLoopBackOffPodsFails, NoCall,
                    handleCrashLoopBackOffPodsPanics, ManageDone, Panic, Idle, Advance, Return
<1>5. CASE ForceDeleteRookCephOSDPods
  BY <1>5, <1>a DEF ForceDeleteRookCephOSDPods, Ids, Panic, Idle, NoCall, Advance, Return
<1>6. CASE ProcessOCSRemovalTemplate \/ ReplaceOSDRemovalJob \/ JobSucceeded
  BY <1>6, <1>a DEF ProcessOCSRemovalTemplate, ReplaceOSDRemovalJob, JobSucceeded, Advance, Return,
                    GoOn
<1>7. CASE CreateOSDRemovalJob \/ CreateForcedOSDRemovalJob
  <2>1. UNCHANGED <<pod, term, pv, replicas>>
    BY <1>7, <1>a DEF CreateOSDRemovalJob, CreateForcedOSDRemovalJob, processOCSOSDRemovalTemplate,
                      podVars
  <2>2. nodePV' = <<>>
    BY <1>7 DEF CreateOSDRemovalJob, CreateForcedOSDRemovalJob, Advance, Return
  <2> QED BY <2>1, <2>2
<1>8. CASE WaitForJob \/ RetryTimedOut \/ validateJobLogs \/ RestartStorageOperator
  BY <1>8, <1>a DEF WaitForJob, RetryTimedOut, validateJobLogs, RestartStorageOperator,
                    Advance, Return
<1>9. CASE WaitForPersistenVolumeBound
  <2>1. NoCall \/ \E gone \in SUBSET Ids(inst) : deletePVs(gone)
    BY <1>9 DEF WaitForPersistenVolumeBound, Ids
  <2>2. nodePV' = <<>>
    BY <1>9 DEF WaitForPersistenVolumeBound, Advance, Return
  <2> QED BY <1>a, <2>1, <2>2 DEF deletePVs
<1>10. CASE DeleteFailedPodsNodeAffinity \/ StorageClusterFitnessCheck
  BY <1>10, <1>a DEF DeleteFailedPodsNodeAffinity, StorageClusterFitnessCheck, Advance, Return
<1> HIDE DEF VolumesKept
<1> QED BY <1>1, <1>2, <1>3, <1>4, <1>5, <1>6, <1>7, <1>8, <1>9, <1>10 DEF Handler

\* The entries handleCrashLoopBackOffPods puts together.
LEMMA OneMoreEntry ==
  ASSUME NEW devices \in Seq(OSD), NEW o \in OSD
  PROVE  getOSDIDsFromNodeDevices(devices) \cup {o}
           \subseteq getOSDIDsFromNodeDevices(Append(devices, o))
<1>1. /\ Len(devices) \in Nat /\ DOMAIN devices = 1..Len(devices)
      /\ DOMAIN Append(devices, o) = 1..(Len(devices) + 1)
      /\ Append(devices, o)[Len(devices) + 1] = o
      /\ \A i \in 1..Len(devices) : Append(devices, o)[i] = devices[i]
  OBVIOUS
<1>2. /\ Len(devices) + 1 \in DOMAIN Append(devices, o)
      /\ \A i \in DOMAIN devices : i \in DOMAIN Append(devices, o)
  BY <1>1
<1> QED BY <1>1, <1>2 DEF getOSDIDsFromNodeDevices

\* With every OSD on a claim, and claims and volumes read as they are, the loop
\* of handleCrashLoopBackOffPods is not broken off.
LEMMA LoopGoesOn ==
  ASSUME TypeInv, JobInv, CopyInv, Quiet, RemovalInv, OrphanInv, Handler, pc = "scale",
         Ids(inst) = Ids(store[cur]), OverPVC = OSD,
         Lagging \cap {"PersistentVolume", "PersistentVolumeClaim"} = {}
  PROVE  /\ Ids(inst) = {}
         /\ ManageDone \/ \E o \in OSD : handleCrashLoopBackOffPods(o)
<1>1. Ids(inst) = {}
  <2>1. Latest(inst) = "ManageCrashLoopBackOffPods" /\ RecordOK(inst, Purged)
    BY HandlerBusy DEF CopyInv, RemovalInv, Latest, Started
  <2> QED BY <2>1 DEF RecordOK, BeforeRemoval
<1>2. todo \subseteq OSD /\ \A o \in todo : pv[o] = "Bound"
  <2>1. cur \in CR
    BY HandlerBusy
  <2>2. \A o \in OSD : pv[o] \in {"Unused", "Bound"}
    BY <1>1, <2>1 DEF OrphanInv
  <2> QED BY <2>2 DEF TypeInv, WorkerInv, JobInv, LoopOK, WatchedSet
<1>3. \A o \in todo : hasNodeDevice(o)
  BY <1>2 DEF hasNodeDevice, readClaims, readPV, boundClaims, VolumeThere
<1>4. ~handleCrashLoopBackOffPodsFails /\ ~handleCrashLoopBackOffPodsPanics
  BY <1>2, <1>3 DEF handleCrashLoopBackOffPodsFails, handleCrashLoopBackOffPodsPanics, ApiFault,
                    Quiet
<1> QED BY <1>1, <1>4, ScaleHandlers

\* What a handler has read, and what becomes of it.
LEMMA HandlerNow ==
  ASSUME TypeInv, JobInv, CopyInv, FreshInv, QuietInv, RemovalInv, Handler,
         NEW me \in CR, me = cur
  PROVE  /\ Now(me) = inst /\ Ids(inst) = Ids(store[me]) /\ RecordOK(inst, Purged)
         /\ Now(me)' = IF pc' = "idle" THEN store[me] ELSE inst'
         /\ Ids(inst) \subseteq Ids(Now(me)')
<1>1. pc \notin {"idle", "update"} /\ inst \in StartedStatus
  BY HandlerBusy
<1>2. Ids(inst) = Ids(store[me]) /\ Now(me) = inst
  BY <1>1, FreshFacts DEF QuietInv, SameFacts, Now
<1>3. Now(me)' = IF pc' = "idle" THEN store[me] ELSE inst'
  BY HandlerPlace DEF Now
<1>4. RecordOK(inst, Purged) /\ (jobPod = "Removed" => Ids(inst) \subseteq Purged)
  BY <1>1, <1>2 DEF RemovalInv, JobOf
<1>5. Ids(inst) \subseteq Ids(Now(me)')
  <2>1. CASE pc' = "idle"
    BY <1>2, <1>3, <2>1
  <2>2. CASE pc' # "idle" /\ Ids(inst') = Ids(inst)
    BY <1>3, <2>2
  <2>3. CASE Latest(inst) = "ManageCrashLoopBackOffPods"
    BY <1>4, <2>3 DEF RecordOK, BeforeRemoval
  <2> QED BY <1>4, <2>1, <2>2, <2>3, HandlerRecord
<1> QED BY <1>2, <1>3, <1>4, <1>5

LEMMA HandlerOrphan ==
  ASSUME TypeInv, JobInv, CopyInv, FreshInv, QuietInv, Quiet, RemovalInv, OrphanInv, Handler,
         \A c, d \in CR : c = d, OverPVC = OSD,
         Lagging \cap {"PersistentVolume", "PersistentVolumeClaim"} = {}
  PROVE  OrphanInv'
<1>0. PICK me \in CR : me = cur /\ \A c \in CR : c = me
  BY HandlerBusy
<1>1. /\ pc \notin {"idle", "update"} /\ inst \in StartedStatus /\ inst.startTime
      /\ inst \in NodeRecoveryStatus /\ inst.conditions # <<>>
  BY HandlerBusy DEF StartedStatus
<1>2. /\ Ids(inst) = Ids(store[me]) /\ Now(me) = inst /\ Ids(inst) \subseteq Ids(Now(me)')
      /\ Now(me)' = IF pc' = "idle" THEN store[me] ELSE inst'
  BY <1>0, HandlerNow
<1>3. UNCHANGED <<store, cache>>
  BY HandlerPlace
<1>a. ASSUME pc' # "scale" => nodePV' = <<>>,
             Ids(store[me]) = {} => \A o \in OSD : pv'[o] \in {"Unused", "Bound"},
             \A o \in OSD : replicas'[o] = 0 /\ pv'[o] = "Bound" =>
                              o \in getOSDIDsFromNodeDevices(nodePV') \cup Ids(Now(me)')
      PROVE  OrphanInv'
  BY <1>0, <1>3, <1>a DEF OrphanInv
<1>b. /\ \A o \in OSD : replicas[o] = 0 /\ pv[o] = "Bound" =>
                          o \in getOSDIDsFromNodeDevices(nodePV) \cup Ids(inst)
      /\ Ids(store[me]) = {} => \A o \in OSD : pv[o] \in {"Unused", "Bound"}
      /\ pc # "scale" => nodePV = <<>>
  BY <1>2 DEF OrphanInv
<1>5. ASSUME NEW o \in OSD, handleCrashLoopBackOffPods(o) PROVE OrphanInv'
  <2>1. /\ replicas' = [replicas EXCEPT ![o] = 0] /\ pv' = pv /\ inst' = inst /\ pc' = "scale"
        /\ nodePV' = Append(nodePV, o)
    BY <1>5 DEF handleCrashLoopBackOffPods, scaleRookCephOSDDeploymentToZero
  <2>2. getOSDIDsFromNodeDevices(nodePV) \cup {o} \subseteq getOSDIDsFromNodeDevices(nodePV')
    BY <2>1, OneMoreEntry DEF TypeInv, WorkerInv
  <2>3. \A p \in OSD : replicas'[p] = 0 => replicas[p] = 0 \/ p = o
    BY <2>1 DEF TypeInv, ClusterTypeOK
  <2>4. Now(me)' = inst
    BY <1>2, <2>1
  <2> QED BY <1>a, <1>b, <2>1, <2>2, <2>3, <2>4
<1>6. CASE ManageDone
  <2> DEFINE n == [inst EXCEPT !.nodeDevice = nodePV]
             t == "ForceDeleteRookCephOSDPods"
  <2>1. pc = "scale" /\ inst' = transitionNextCondition(n, t) /\ pc' = "update" /\ nodePV' = <<>>
        /\ UNCHANGED <<pv, replicas>>
    BY <1>6 DEF ManageDone, Advance, Return, NoCall, clusterVars, podVars
  <2>2. n \in NodeRecoveryStatus /\ n.conditions # <<>> /\ t \in ConditionType
        /\ n.nodeDevice = nodePV
    BY <1>1 DEF NodeRecoveryStatus, ConditionType, TypeInv, WorkerInv
  <2> HIDE DEF n
  <2>3. Ids(inst') = getOSDIDsFromNodeDevices(nodePV)
    BY <2>1, <2>2, TransitionType DEF Ids
  <2>4. Ids(inst) = {} /\ Now(me)' = inst'
    BY <1>0, <1>2, <1>3, <2>1, LoopGoesOn
  <2> QED BY <1>a, <1>b, <2>1, <2>3, <2>4
<1>7. CASE pc # "scale"
  <2>1. VolumesKept
    BY <1>7, HandlerVolumes DEF handleCrashLoopBackOffPods
  <2>2. nodePV = <<>> /\ nodePV' = <<>> /\ UNCHANGED replicas
    BY <1>7, <1>b, <2>1 DEF VolumesKept
  <2>3. /\ \A o \in OSD : pv'[o] = "Bound" => pv[o] = "Bound"
        /\ Ids(inst) = {} => \A o \in OSD : pv'[o] = pv[o]
    BY <2>1 DEF VolumesKept
  <2> QED BY <1>2, <1>a, <1>b, <2>2, <2>3, NoIds
<1> QED BY <1>0, <1>2, <1>5, <1>6, <1>7, LoopGoesOn

\* Steps that touch neither deployments nor volumes.
LEMMA OrphanFrame ==
  ASSUME OrphanInv, UNCHANGED <<pv, replicas>>,
         \A c \in CR : /\ Ids(Now(c)) \subseteq Ids(Now(c)')
                       /\ Ids(store'[c]) = {} => Ids(store[c]) = {},
         \/ nodePV' = nodePV /\ pc' = pc
         \/ nodePV' \in {nodePV, <<>>} /\ pc # "scale"
  PROVE  OrphanInv'
<1>1. pc' # "scale" => nodePV' = <<>>
  BY DEF OrphanInv
<1>2. getOSDIDsFromNodeDevices(nodePV) \subseteq getOSDIDsFromNodeDevices(nodePV')
  BY NoIds DEF OrphanInv
<1>3. ASSUME NEW c \in CR, NEW o \in OSD, replicas'[o] = 0, pv'[o] = "Bound"
      PROVE  o \in getOSDIDsFromNodeDevices(nodePV') \cup Ids(Now(c)')
  <2>1. o \in getOSDIDsFromNodeDevices(nodePV) \cup Ids(Now(c))
    BY <1>3 DEF OrphanInv
  <2> QED BY <1>2, <2>1
<1>4. \A c \in CR : Ids(store'[c]) = {} => \A o \in OSD : pv'[o] \in {"Unused", "Bound"}
  BY DEF OrphanInv
<1> QED BY <1>1, <1>3, <1>4 DEF OrphanInv

\* The cluster scales nothing down that it does not take out, and takes nothing
\* out without a job.
LEMMA ClusterVolumes ==
  ASSUME TypeInv, ClusterNext
  PROVE  \A o \in OSD :
           /\ replicas'[o] = 0 /\ pv'[o] = "Bound" => replicas[o] = 0 /\ pv[o] = "Bound"
           /\ NothingLeft /\ pv[o] \in {"Unused", "Bound"} => pv'[o] \in {"Unused", "Bound"}
<1> USE DEF TypeInv, ClusterTypeOK, NothingLeft, podVars
<1>1. CASE ToolsPodChanges \/ ClusterUpgrades \/ JobPodStarts \/ JobPodEnds
  BY <1>1 DEF ToolsPodChanges, ClusterUpgrades, JobPodStarts, JobPodEnds
<1>2. CASE \E o \in OSD : PodChanges(o) \/ PodTerminates(o) \/ MinutePasses(o) \/ PodGone(o)
  BY <1>2 DEF PodChanges, PodTerminates, MinutePasses, PodGone
<1>3. CASE \E o \in OSD : NewOSD(o)
  <2>1. PICK p \in OSD : /\ replicas' = [replicas EXCEPT ![p] = 1]
                         /\ pv' = [pv EXCEPT ![p] = "Bound"]
    BY <1>3 DEF NewOSD
  <2> QED BY <2>1
<1>4. CASE \E o \in OSD : JobPurges(o)
  <2>1. PICK p \in OSD : /\ replicas' = [replicas EXCEPT ![p] = 0]
                         /\ pv' = [pv EXCEPT ![p] = "Unclaimed"]
                         /\ ~NothingLeft
    BY <1>4 DEF JobPurges
  <2> QED BY <2>1
<1>5. CASE \E kind \in Kind : InformerSync(kind)
  BY <1>5 DEF InformerSync
<1>6. CASE \E o \in OSD : PodRejected(o)
  BY <1>6 DEF PodRejected
<1>7. CASE \E o \in OSD : VolumeReleased(o)
  <2>1. PICK p \in OSD : /\ pv' = [pv EXCEPT ![p] = "Released"] /\ UNCHANGED replicas
                         /\ pv[p] = "Unclaimed"
    BY <1>7 DEF VolumeReleased
  <2> QED BY <2>1
<1> QED BY <1>1, <1>2, <1>3, <1>4, <1>5, <1>6, <1>7 DEF ClusterNext

LEMMA OthersOrphan ==
  ASSUME TypeInv, CopyInv, FreshInv, QuietInv, Quiet, RemovalInv, OrphanInv, [Next]_vars, ~Handler
  PROVE  OrphanInv'
<1>a. \A c \in CR : store[c] \in StartedStatus /\ WellKept(store[c])
  BY DEF TypeInv, ApiInv, CopyInv
<1>b. ASSUME NowSame PROVE \A c \in CR : Ids(Now(c)') = Ids(Now(c))
  BY <1>b DEF NowSame, SamePlace, Ids
<1>1. ASSUME NEW me \in CR, Start(me) PROVE OrphanInv'
  <2>1. /\ Now(me) = store[me] /\ Now(me)' = Begun(store[me])
        /\ \A c \in CR : c # me => Now(c)' = Now(c)
    BY <1>1, QuietStart
  <2>2. \A c \in CR : Ids(Now(c)) \subseteq Ids(Now(c)')
    BY <1>a, <2>1, BegunFacts DEF SameFacts
  <2>3. UNCHANGED <<pv, replicas, store, nodePV>> /\ pc # "scale"
    BY <1>1 DEF Start, apiVars, clusterVars, podVars
  <2> QED BY <2>2, <2>3, OrphanFrame
<1>2. CASE NowSame
  <2>1. CASE ClusterNext /\ UNCHANGED <<apiVars, queue, workerVars, metrics, restartOwed>>
    <3>1. UNCHANGED <<store, nodePV, pc, cur, inst>>
      BY <2>1 DEF apiVars, workerVars
    <3>2. \A c \in CR : Ids(store[c]) = {} => NothingLeft
      BY DEF RemovalInv, JobOf, NothingLeft
    <3>3. \A o \in OSD :
            /\ replicas'[o] = 0 /\ pv'[o] = "Bound" => replicas[o] = 0 /\ pv[o] = "Bound"
            /\ NothingLeft /\ pv[o] \in {"Unused", "Bound"} => pv'[o] \in {"Unused", "Bound"}
      BY <2>1, ClusterVolumes
    <3>4. \A c \in CR : Now(c)' = Now(c)
      BY <3>1 DEF Now
    <3> QED BY <3>1, <3>2, <3>3, <3>4 DEF OrphanInv
  <2>2. CASE \E c \in CR : CreateCR(c) \/ CacheSync(c) \/ Ignore(c)
    <3>1. UNCHANGED <<pv, replicas, store, nodePV, pc>>
      BY <2>2 DEF CreateCR, CacheSync, Ignore, apiVars, workerVars, clusterVars, podVars
    <3> QED BY <1>2, <1>b, <3>1, OrphanFrame
  <2>3. CASE \E c \in CR : Tick(c)
    <3>1. /\ UNCHANGED <<pv, replicas, nodePV, pc>>
          /\ \A d \in CR : store'[d] \in {store[d], Older(store[d])}
      BY <2>3 DEF Tick, workerVars, clusterVars, podVars, TypeInv, ApiInv
    <3>2. \A d \in CR : Ids(store'[d]) = Ids(store[d])
      BY <1>a, <3>1, OlderSame DEF SamePlace, Ids
    <3> QED BY <1>2, <1>b, <3>1, <3>2, OrphanFrame
  <2>4. CASE StatusUpdateFails
    <3>1. UNCHANGED <<pv, replicas, store>> /\ nodePV' = <<>> /\ pc # "scale"
      BY <2>4 DEF StatusUpdateFails, Idle, apiVars, clusterVars, podVars
    <3> QED BY <1>2, <1>b, <3>1, OrphanFrame
  <2>5. CASE StatusUpdate
    <3>0. PICK me \in CR : me = cur
      BY <2>5 DEF StatusUpdate, TypeInv, WorkerInv
    <3>1. /\ UNCHANGED <<pv, replicas>> /\ nodePV' = <<>> /\ pc = "update"
          /\ store' = [store EXCEPT ![me] = inst] /\ fresh /\ UniqueConditionTypes(inst)
      BY <2>5, <3>0 DEF StatusUpdate, StatusAccepted, Idle, clusterVars, podVars
    <3>2. MaySave(store[me], inst)
      BY <3>0, <3>1 DEF FreshInv
    <3>3. Ids(inst) = {} => Ids(store[me]) = {}
      BY <3>1, <3>2 DEF MaySave, SameFacts
    <3>4. \A c \in CR : Ids(store'[c]) = {} => Ids(store[c]) = {}
      BY <3>1, <3>3 DEF TypeInv, ApiInv
    <3> QED BY <1>2, <1>b, <3>1, <3>4, OrphanFrame
  <2>6. CASE UNCHANGED vars
    <3>1. UNCHANGED <<pv, replicas, store, nodePV, pc>>
      BY <2>6 DEF vars, apiVars, workerVars, clusterVars, podVars
    <3> QED BY <1>2, <1>b, <3>1, OrphanFrame
  <2>7. ~OperatorRestart /\ \A c \in CR : ~DeleteCR(c) /\ ~Touch(c)
    BY DEF OperatorRestart, DeleteCR, Touch, Quiet
  <2> QED BY <1>1, <2>1, <2>2, <2>3, <2>4, <2>5, <2>6, <2>7 DEF Next, Environment
<1> QED BY <1>1, <1>2, QuietOthers

LEMMA OrphanInvCorrect ==
  ASSUME Quiet, OverPVC = OSD, \A c, d \in CR : c = d,
         Lagging \cap {"PersistentVolume", "PersistentVolumeClaim"} = {}
  PROVE  Spec => []OrphanInv
<1>1. Init => OrphanInv
  <2> SUFFICES ASSUME Init PROVE OrphanInv
    OBVIOUS
  <2>1. \A o \in OSD : /\ pv[o] \in {"Unused", "Bound"}
                       /\ replicas[o] = 0 => pv[o] = "Unused"
    <3>1. /\ replicas = [o \in OSD |-> IF o \in Spare THEN 0 ELSE 1]
          /\ pv = [o \in OSD |-> IF o \in Spare THEN "Unused" ELSE "Bound"]
      BY DEF Init, ClusterInit
    <3> TAKE o \in OSD
    <3>2. CASE o \in Spare
      <4>1. pv[o] = "Unused"
        BY <3>1, <3>2
      <4> QED BY <4>1
    <3>3. CASE o \notin Spare
      <4>1. pv[o] = "Bound"
        BY <3>1, <3>3
      <4>2. replicas[o] = 1
        BY <3>1, <3>3
      <4> QED BY <4>1, <4>2
    <3> QED BY <3>2, <3>3
  <2> QED BY <2>1 DEF Init, OrphanInv
<1>2. /\ TypeInv /\ JobInv /\ CopyInv /\ FreshInv /\ QuietInv /\ RemovalInv /\ OrphanInv
      /\ [Next]_vars
      => OrphanInv'
  <2> SUFFICES ASSUME TypeInv, JobInv, CopyInv, FreshInv, QuietInv, RemovalInv, OrphanInv,
                      [Next]_vars
               PROVE  OrphanInv'
    OBVIOUS
  <2> QED BY HandlerOrphan, OthersOrphan
<1> QED BY <1>1, <1>2, TypeCorrect, JobInvCorrect, FlowInvCorrect, QuietInvCorrect,
           RemovalInvCorrect, PTL DEF Spec

(***************************************************************************)
(* A quiet recovery that is the only one and completes leaves no OSD half  *)
(* removed, when every OSD is on a claim and claims and volumes are read   *)
(* as they are: what handleCrashLoopBackOffPods scales to zero is what the *)
(* job is given and what its log must confirm.                             *)
(***************************************************************************)
THEOREM NoOrphanedOSDCorrect ==
  ASSUME Quiet, OverPVC = OSD, \A c, d \in CR : c = d,
         Lagging \cap {"PersistentVolume", "PersistentVolumeClaim"} = {}
  PROVE  Spec => []NoOrphanedOSD
<1>1. TypeInv /\ FreshInv /\ QuietInv /\ OwedInv /\ RemovalInv /\ OrphanInv => NoOrphanedOSD
  <2> SUFFICES ASSUME TypeInv, FreshInv, QuietInv, OwedInv, RemovalInv, OrphanInv,
                      NEW c \in CR, store[c].phase = "Completed",
                      NEW o \in OSD, replicas[o] = 0, pv[o] = "Bound"
               PROVE  FALSE
    BY DEF NoOrphanedOSD
  <2>1. Now(c) = store[c] /\ Latest(store[c]) = "DisableCephTools"
    BY NowCompleted DEF OwedInv, TerminalPhase
  <2>2. pc # "scale"
    <3>1. PICK me : me = cur
      OBVIOUS
    <3>2. pc # "idle" => me \in CR /\ store[me].phase \notin TerminalPhase
      BY <3>1 DEF TypeInv, WorkerInv, FreshInv, QuietInv
    <3>3. me \in CR => me = c
      OBVIOUS
    <3>4. store[c].phase \in TerminalPhase
      BY DEF TerminalPhase
    <3> QED BY <3>2, <3>3, <3>4
  <2>3. o \in Ids(store[c])
    BY <2>1, <2>2, NoIds DEF OrphanInv
  <2>4. Ids(store[c]) \subseteq Purged
    BY <2>1 DEF RemovalInv, RecordOK, AfterJob
  <2> QED BY <2>3, <2>4 DEF Purged
<1> QED BY <1>1, TypeCorrect, FlowInvCorrect, QuietInvCorrect, OwedInvCorrect, RemovalInvCorrect,
           OrphanInvCorrect, PTL

-------------------------------------------------------------------------------
(***************************************************************************)
(* What WaitForPersistenVolumeBound has counted stays: no bound volume is  *)
(* given up after the removal, since the job was given the recorded        *)
(* devices only, and the pod of an OSD that is not scaled down is there.   *)
(* What it counts are new OSDs: one that is scaled down and still shown    *)
(* with a pod is a device of the recovery or was listed as operational.    *)
(***************************************************************************)

\* Only the pod of an OSD that is scaled down goes, and stays away.
PodsUp ==
  \A o \in OSD : /\ pv[o] # "Unused" /\ replicas[o] = 1 => pod[o] # "none"
                 /\ term[o] > 0 => replicas[o] = 0 /\ pv[o] # "Unused"

\* An OSD that is scaled down and shown without a pod has none.  One of the
\* first OSDs is not shown without a pod before it is scaled down.
Shown ==
  \A o \in OSD : /\ replicas[o] = 0 /\ readPod[o] = "none" => pod[o] = "none"
                 /\ o \notin Spare => /\ pv[o] # "Unused"
                                      /\ readPod[o] = "none" => replicas[o] = 0

\* OSDs that are up for good, that are scaled down with their pods out of
\* sight, and that were there at the start, or are scaled down but shown with
\* a pod, and are not out of sight.
Live     == {o \in OverPVC : pv[o] = "Bound" /\ replicas[o] = 1}
GoneSet  == {o \in OSD : /\ replicas[o] = 0 /\ pv[o] # "Unused"
                         /\ pod[o] = "none" /\ readPod[o] = "none"}
LeftOver == {o \in OSD : \/ replicas[o] = 0 /\ readPod[o] # "none"
                         \/ o \notin Spare \cup GoneSet}

\* The OSDs of the pods a recovery has listed as operational.
Current(s)  == {o \in OSD : <<o, "current">> \in s.operationalOSDIDs}
Rejected(s) == {o \in OSD : <<o, "rejected">> \in s.operationalOSDIDs}

\* What a status past the wait for the volumes says of the cluster.
EnoughNew(s, live) == Cardinality(live \ RecordedOSDs(s)) >= Cardinality(Ids(s))

\* What a status that has recorded devices says of the cluster.
DevicesOK(s, left, gone, live, rejected) ==
  Ids(s) # {} =>
    /\ left \subseteq Ids(s) \cup Current(s) /\ rejected \subseteq Rejected(s)
    /\ Latest(s) \in AfterJob \cup JobConditions => Ids(s) \subseteq gone
    /\ Latest(s) \in AfterReplacement => EnoughNew(s, live)

\* No pod of a new OSD is rejected, and those that were are shown until they
\* are deleted.
RejectedInv ==
  /\ nodeAffinityFailed \subseteq seen.nodeAffinityFailed
  /\ seen.nodeAffinityFailed \cap Spare = {}
  /\ \A c \in CR : Rejected(store[c]) \cap Spare = {} /\ Rejected(cache[c]) \cap Spare = {}
  /\ pc # "idle" => Rejected(inst) \cap Spare = {}

(***************************************************************************)
(* The stored status and the worker's copy are both right about the        *)
(* devices, and nothing but the stored devices is ever purged.  While the  *)
(* deployments are scaled, the OSDs that are left over are among those     *)
(* listed at the start of the loop, or scaled by it.                       *)
(***************************************************************************)
ReplacementInv ==
  /\ PodsUp /\ Shown
  /\ \A c \in CR : /\ job.ids \subseteq Ids(store[c]) /\ Purged \subseteq Ids(store[c])
                   /\ DevicesOK(store[c], LeftOver, GoneSet, Live, readAffinity)
  /\ pc # "idle" => /\ Ids(store[cur]) \subseteq Ids(inst)
                    /\ DevicesOK(inst, LeftOver, GoneSet, Live, readAffinity)
  /\ pc = "scale" =>
       /\ LeftOver \subseteq todo \cup getOSDIDsFromNodeDevices(nodePV) \cup Current(inst)
       /\ readAffinity \subseteq Rejected(inst)

\* What a step that scales no deployment can do to an OSD, when ids are the
\* devices to be removed: little, provision it, or purge it.
Untouched(o, ids) ==
  /\ replicas'[o] = replicas[o]
  /\ \/ pv'[o] = pv[o]
     \/ o \in ids /\ pv'[o] = "Deleted"
     \/ pv[o] = "Unclaimed" /\ pv'[o] = "Released"
  /\ pod[o] = "none" => pod'[o] = "none"
  /\ readPod'[o] \in {readPod[o], pod[o], pod'[o]}
Arrives(o) == pv[o] = "Unused" /\ pv'[o] = "Bound" /\ replicas'[o] = 1
Leaves(o, ids) ==
  /\ o \in ids /\ pv[o] = "Bound" /\ pv'[o] = "Unclaimed" /\ replicas'[o] = 0
  /\ pod'[o] = "none" /\ readPod'[o] \in {readPod[o], "none"}

OneStep(ids) == \A o \in OSD : Untouched(o, ids) \/ Arrives(o) \/ Leaves(o, ids)

\* Hence the sets move in one direction, but for the devices.
Steady(ids) ==
  /\ LeftOver' \subseteq LeftOver \cup ids /\ GoneSet \subseteq GoneSet'
  /\ Live \ ids \subseteq Live' /\ Purged' \subseteq Purged \cup ids

LEMMA OneStepSteady ==
  ASSUME TypeInv, PodsUp, PodsUp', Shown, NEW ids, OneStep(ids), OverPVC \subseteq OSD
  PROVE  Shown' /\ Steady(ids)
<1>a. \A o \in OSD : replicas[o] \in 0..1
  BY DEF TypeInv, ClusterTypeOK
<1>1. \A o \in OSD : replicas'[o] = 0 /\ readPod'[o] = "none" => pod'[o] = "none"
  BY DEF Shown, OneStep, Untouched, Arrives, Leaves
<1>2. ASSUME NEW o \in OSD, o \notin Spare
      PROVE  pv'[o] # "Unused" /\ (readPod'[o] = "none" => replicas'[o] = 0)
  <2>1. pv[o] # "Unused" /\ (readPod[o] = "none" => replicas[o] = 0)
    BY <1>2 DEF Shown
  <2>2. pv'[o] # "Unused"
    BY <2>1 DEF OneStep, Untouched, Arrives, Leaves
  <2>3. (pod[o] = "none" => replicas[o] = 0) /\ (pod'[o] = "none" => replicas'[o] # 1)
    BY <1>a, <2>1, <2>2 DEF PodsUp
  <2> QED BY <1>a, <2>1, <2>2, <2>3 DEF OneStep, Untouched, Arrives, Leaves
<1>3. GoneSet \subseteq GoneSet'
  BY DEF OneStep, Untouched, Arrives, Leaves, GoneSet
<1>4. LeftOver' \subseteq LeftOver \cup ids
  <2> SUFFICES ASSUME NEW o \in LeftOver', o \notin ids PROVE o \in LeftOver
    OBVIOUS
  <2>1. CASE o \notin Spare
    BY <1>3, <2>1 DEF LeftOver, GoneSet
  <2>2. CASE replicas'[o] = 0 /\ readPod'[o] # "none"
    BY <2>2 DEF Shown, OneStep, Untouched, Arrives, Leaves, LeftOver
  <2> QED BY <2>1, <2>2 DEF LeftOver
<1>5. Live \ ids \subseteq Live'
  BY DEF OneStep, Untouched, Arrives, Leaves, Live
<1>6. Purged' \subseteq Purged \cup ids
  BY DEF OneStep, Untouched, Arrives, Leaves, Purged
<1> QED BY <1>1, <1>2, <1>3, <1>4, <1>5, <1>6 DEF Shown, Steady

\* The cluster gives up no volume but those of the job, and takes away no pod
\* that is to be up.
LEMMA ClusterKeepsPods ==
  ASSUME TypeInv, JobInv, PodsUp, ClusterNext
  PROVE  /\ PodsUp' /\ job'.ids = job.ids
         /\ \A o \in OSD : pv[o] = "Bound" => pv'[o] = "Bound" \/ o \in job.ids
<1>a. /\ replicas \in [OSD -> 0..1] /\ pv \in [OSD -> VolumePhase] /\ term \in [OSD -> 0..2]
      /\ pod \in [OSD -> PodState] /\ job \in RemovalJob
  BY DEF TypeInv, ClusterTypeOK
<1>b. ASSUME UNCHANGED <<pod, term, replicas, pv>> PROVE PodsUp'
  BY <1>b DEF PodsUp
<1>1. CASE ToolsPodChanges \/ ClusterUpgrades \/ JobPodStarts
  BY <1>1, <1>b DEF ToolsPodChanges, ClusterUpgrades, JobPodStarts, podVars, jobVars
<1>2. CASE JobPodEnds
  BY <1>2, <1>a, <1>b DEF JobPodEnds, podVars, RemovalJob
<1>3. CASE \E kind \in Kind : InformerSync(kind)
  BY <1>3, <1>b DEF InformerSync, podVars, jobVars
<1>4. ASSUME NEW o \in OSD, PodChanges(o)
      PROVE  PodsUp' /\ UNCHANGED <<pv, job>>
  <2>1. PICK s \in PodState : <<pod[o], s>> \in PodMoves /\ pod' = [pod EXCEPT ![o] = s]
    BY <1>4 DEF PodChanges
  <2>2. s # "none"
    BY <2>1, ClusterAssumption DEF KubeletMoves
  <2>3. UNCHANGED <<term, replicas, pv, job>>
    BY <1>4 DEF PodChanges, jobVars
  <2> QED BY <1>a, <2>1, <2>2, <2>3 DEF PodsUp
<1>5. ASSUME NEW o \in OSD, PodTerminates(o)
      PROVE  PodsUp' /\ UNCHANGED <<pv, job>>
  <2>1. pv[o] # "Unused" /\ replicas[o] = 0
    BY <1>5 DEF PodTerminates, JobInv, JobOK, PodsOK
  <2>2. term' = [term EXCEPT ![o] = 1] /\ UNCHANGED <<pod, replicas, pv, job>>
    BY <1>5 DEF PodTerminates, jobVars
  <2> QED BY <1>a, <2>1, <2>2 DEF PodsUp
<1>6. ASSUME NEW o \in OSD, MinutePasses(o)
      PROVE  PodsUp' /\ UNCHANGED <<pv, job>>
  <2>1. /\ term' = [term EXCEPT ![o] = IF term[o] = 1 THEN 2 ELSE term[o]]
        /\ UNCHANGED <<pod, replicas, pv, job>>
    BY <1>6 DEF MinutePasses, jobVars
  <2>2. \A p \in OSD : term'[p] > 0 => term[p] > 0
    BY <1>a, <2>1
  <2> QED BY <1>a, <2>1, <2>2 DEF PodsUp
<1>7. ASSUME NEW o \in OSD, PodGone(o)
      PROVE  PodsUp' /\ UNCHANGED <<pv, job>>
  <2>1. /\ pod' = [pod EXCEPT ![o] = "none"] /\ term' = [term EXCEPT ![o] = 0]
        /\ UNCHANGED <<replicas, pv, job>> /\ term[o] > 0
    BY <1>7 DEF PodGone, jobVars
  <2> QED BY <1>a, <2>1 DEF PodsUp
<1>8. ASSUME NEW o \in OSD, NewOSD(o)
      PROVE  /\ PodsUp' /\ UNCHANGED job
             /\ \A p \in OSD : pv[p] # "Unused" => pv'[p] = pv[p]
  <2>1. /\ pod' = [pod EXCEPT ![o] = "init"] /\ replicas' = [replicas EXCEPT ![o] = 1]
        /\ pv' = [pv EXCEPT ![o] = "Bound"] /\ UNCHANGED <<term, job>> /\ pv[o] = "Unused"
    BY <1>8 DEF NewOSD, jobVars
  <2> QED BY <1>a, <2>1 DEF PodsUp
<1>9. ASSUME NEW o \in OSD, JobPurges(o)
      PROVE  /\ PodsUp' /\ UNCHANGED job
             /\ \A p \in OSD : pv'[p] = pv[p] \/ (p \in job.ids /\ pv[p] = "Bound")
  <2>1. /\ pod' = [pod EXCEPT ![o] = "none"] /\ replicas' = [replicas EXCEPT ![o] = 0]
        /\ pv' = [pv EXCEPT ![o] = "Unclaimed"] /\ term' = [term EXCEPT ![o] = 0]
        /\ UNCHANGED job /\ pv[o] = "Bound" /\ o \in job.ids
    BY <1>9 DEF JobPurges, jobVars
  <2> QED BY <1>a, <2>1 DEF PodsUp
<1>10. ASSUME NEW o \in OSD, PodRejected(o)
       PROVE  PodsUp' /\ UNCHANGED <<pv, job>>
  <2>1. pod' = [pod EXCEPT ![o] = "pending"] /\ UNCHANGED <<term, replicas, pv, job>>
    BY <1>10 DEF PodRejected, jobVars
  <2> QED BY <1>a, <2>1 DEF PodsUp
<1>11. ASSUME NEW o \in OSD, VolumeReleased(o)
       PROVE  /\ PodsUp' /\ UNCHANGED job
              /\ \A p \in OSD : pv[p] = "Bound" => pv'[p] = "Bound"
  <2>1. /\ pv' = [pv EXCEPT ![o] = "Released"] /\ UNCHANGED <<pod, term, replicas, job>>
        /\ pv[o] = "Unclaimed"
    BY <1>11 DEF VolumeReleased, jobVars
  <2> QED BY <1>a, <2>1 DEF PodsUp
<1>12. CASE \E o \in OSD : \/ PodChanges(o) \/ PodTerminates(o) \/ MinutePasses(o)
                          \/ PodGone(o) \/ PodRejected(o)
  BY <1>12, <1>4, <1>5, <1>6, <1>7, <1>10
<1>13. CASE \E o \in OSD : NewOSD(o) \/ JobPurges(o) \/ VolumeReleased(o)
  BY <1>13, <1>8, <1>9, <1>11
<1> QED BY <1>1, <1>2, <1>3, <1>12, <1>13 DEF ClusterNext


\* A step that leaves the OSDs and what is shown of them alone.
LEMMA NoOSDStep ==
  ASSUME UNCHANGED <<pod, replicas, pv>>, seen'.pod = seen.pod, NEW ids
  PROVE  OneStep(ids)
BY DEF OneStep, Untouched, readPod

\* The cluster takes such steps only.
LEMMA ClusterOneStep ==
  ASSUME TypeInv, ClusterNext
  PROVE  OneStep(job.ids)
<1>a. /\ replicas \in [OSD -> 0..1] /\ pv \in [OSD -> VolumePhase]
      /\ pod \in [OSD -> PodState] /\ seen \in View
  BY DEF TypeInv, ClusterTypeOK
<1>1. CASE ToolsPodChanges \/ ClusterUpgrades \/ JobPodStarts \/ JobPodEnds
  BY <1>1, NoOSDStep DEF ToolsPodChanges, ClusterUpgrades, JobPodStarts, JobPodEnds, podVars,
                         miscVars
<1>2. ASSUME NEW kind \in Kind, InformerSync(kind) PROVE OneStep(job.ids)
  <2>1. UNCHANGED <<pod, replicas, pv>> /\ seen' = Snapshot({kind})
    BY <1>2 DEF InformerSync, podVars
  <2>2. Snapshot({kind}).pod \in {pod, seen.pod}
    BY DEF Snapshot
  <2> HIDE DEF Snapshot
  <2>3. seen'.pod \in {pod, seen.pod}
    BY <2>1, <2>2
  <2> QED BY <2>1, <2>3 DEF OneStep, Untouched, readPod
<1>3. ASSUME NEW o \in OSD, PodChanges(o) PROVE OneStep(job.ids)
  <2>1. PICK s \in PodState : <<pod[o], s>> \in PodMoves /\ pod' = [pod EXCEPT ![o] = s]
    BY <1>3 DEF PodChanges
  <2>2. pod[o] # "none"
    BY <2>1, ClusterAssumption DEF KubeletMoves
  <2>3. UNCHANGED <<replicas, pv, seen>>
    BY <1>3 DEF PodChanges, miscVars
  <2> QED BY <1>a, <2>1, <2>2, <2>3 DEF OneStep, Untouched, readPod
<1>4. ASSUME NEW o \in OSD, PodTerminates(o) PROVE OneStep(job.ids)
  BY <1>4, NoOSDStep DEF PodTerminates, miscVars
<1>5. ASSUME NEW o \in OSD, MinutePasses(o) PROVE OneStep(job.ids)
  <2>1. seen' = [seen EXCEPT !.term = [seen.term EXCEPT
                   ![o] = IF seen.term[o] = 1 THEN 2 ELSE seen.term[o]]]
    BY <1>5 DEF MinutePasses
  <2>2. seen'.pod = seen.pod
    BY <1>a, <2>1 DEF View
  <2> QED BY <1>5, <2>2, NoOSDStep DEF MinutePasses
<1>6. ASSUME NEW o \in OSD, PodGone(o) PROVE OneStep(job.ids)
  <2>1. pod' = [pod EXCEPT ![o] = "none"] /\ UNCHANGED <<replicas, pv, seen>>
    BY <1>6 DEF PodGone, miscVars
  <2> QED BY <1>a, <2>1 DEF OneStep, Untouched, readPod
<1>7. ASSUME NEW o \in OSD, NewOSD(o) PROVE OneStep(job.ids)
  <2>1. /\ pod' = [pod EXCEPT ![o] = "init"] /\ replicas' = [replicas EXCEPT ![o] = 1]
        /\ pv' = [pv EXCEPT ![o] = "Bound"] /\ UNCHANGED seen /\ pv[o] = "Unused"
    BY <1>7 DEF NewOSD, miscVars
  <2>2. Arrives(o)
    BY <1>a, <2>1 DEF Arrives
  <2>3. \A p \in OSD : p # o => Untouched(p, job.ids)
    BY <1>a, <2>1 DEF Untouched, readPod
  <2> QED BY <2>2, <2>3 DEF OneStep
<1>8. ASSUME NEW o \in OSD, JobPurges(o) PROVE OneStep(job.ids)
  <2>1. /\ pod' = [pod EXCEPT ![o] = "none"] /\ replicas' = [replicas EXCEPT ![o] = 0]
        /\ pv' = [pv EXCEPT ![o] = "Unclaimed"] /\ UNCHANGED seen
        /\ pv[o] = "Bound" /\ o \in job.ids
    BY <1>8 DEF JobPurges, miscVars
  <2>2. Leaves(o, job.ids)
    BY <1>a, <2>1 DEF Leaves, readPod
  <2>3. \A p \in OSD : p # o => Untouched(p, job.ids)
    BY <1>a, <2>1 DEF Untouched, readPod
  <2> QED BY <2>2, <2>3 DEF OneStep
<1>9. ASSUME NEW o \in OSD, PodRejected(o) PROVE OneStep(job.ids)
  <2>1. /\ pod' = [pod EXCEPT ![o] = "pending"] /\ UNCHANGED <<replicas, pv, seen>>
        /\ pod[o] # "none"
    BY <1>9 DEF PodRejected
  <2> QED BY <1>a, <2>1 DEF OneStep, Untouched, readPod
<1>10. ASSUME NEW o \in OSD, VolumeReleased(o) PROVE OneStep(job.ids)
  <2>1. /\ pv' = [pv EXCEPT ![o] = "Released"] /\ UNCHANGED <<pod, replicas, seen>>
        /\ pv[o] = "Unclaimed"
    BY <1>10 DEF VolumeReleased, miscVars
  <2> QED BY <1>a, <2>1 DEF OneStep, Untouched, readPod
<1> QED
  BY <1>1, <1>2, <1>3, <1>4, <1>5, <1>6, <1>7, <1>8, <1>9, <1>10 DEF ClusterNext

\* So does the operator when it is started again, whose informers list anew.
LEMMA RestartOneStep ==
  ASSUME OperatorRestart
  PROVE  OneStep({}) /\ UNCHANGED <<pod, term, replicas, pv>>
<1>1. UNCHANGED <<pod, term, replicas, pv>> /\ seen' = Snapshot(Lagging)
  BY DEF OperatorRestart, podVars
<1>2. Snapshot(Lagging).pod \in {pod, seen.pod}
  BY DEF Snapshot
<1> HIDE DEF Snapshot
<1>3. seen'.pod \in {pod, seen.pod}
  BY <1>1, <1>2
<1> QED BY <1>1, <1>3 DEF OneStep, Untouched, readPod

\* A handler does not change what the informers show of the OSD pods, and
\* starts none.
PodsShown ==
  /\ seen'.pod = seen.pod /\ seen'.nodeAffinityFailed = seen.nodeAffinityFailed
  /\ \A o \in OSD : pod'[o] \in {pod[o], "none"}
  /\ nodeAffinityFailed' \subseteq nodeAffinityFailed

LEMMA HandlerPods ==
  ASSUME TypeInv, Handler
  PROVE  PodsShown
<1> USE DEF PodsShown
<1>a. /\ NoCall => PodsShown
      /\ \A nodes : labelNodesWithPodsInPendingState(nodes) => PodsShown
      /\ \A o : scaleRookCephOSDDeploymentToZero(o) => PodsShown
      /\ \A ids : forceDeleteRookCephOSDPods(ids) => PodsShown
      /\ \A pods : deleteFailedPodsWithReasonNodeAffinity(pods) => PodsShown
      /\ archiveCephDaemonCrashMessages => PodsShown
      /\ \A ids : deletePVs(ids) => PodsShown
      /\ \A ids, b : processOCSOSDRemovalTemplate(ids, b) => PodsShown
      /\ \A b : setEnableCephToolsValue(b) => PodsShown
      /\ deleteOldOSDRemovalJobFails => PodsShown
  BY DEF NoCall, labelNodesWithPodsInPendingState, scaleRookCephOSDDeploymentToZero,
         forceDeleteRookCephOSDPods, deleteFailedPodsWithReasonNodeAffinity, deletePVs,
         archiveCephDaemonCrashMessages, processOCSOSDRemovalTemplate, setEnableCephToolsValue,
         deleteOldOSDRemovalJobFails, clusterVars, podVars, miscVars
<1>b. deleteOldOSDRemovalJob => PodsShown
  <2> SUFFICES ASSUME deleteOldOSDRemovalJob PROVE PodsShown
    OBVIOUS
  <2>1. seen' = [seen EXCEPT !.jobPodExists = FALSE] /\ UNCHANGED <<pod, nodeAffinityFailed>>
    BY DEF deleteOldOSDRemovalJob, podVars
  <2>2. seen \in View
    BY DEF TypeInv, ClusterTypeOK
  <2> QED BY <2>1, <2>2 DEF View
<1>c. deleteOldOSDRemovalJobErrs => PodsShown
  BY <1>a DEF deleteOldOSDRemovalJobErrs
<1> HIDE DEF PodsShown
<1>1. CASE ReconciliationTimeout \/ CallFails \/ EnableCephToolsPod
           \/ WaitForCephToolsPodRunning \/ WaitForOSDPodsStabilize
  BY <1>1, <1>a DEF ReconciliationTimeout, CallFails, EnableCephToolsPod,
                    WaitForCephToolsPodRunning, WaitForOSDPodsStabilize
<1>2. CASE enableCephTools \/ DisableCephTools
  BY <1>2, <1>a DEF enableCephTools, DisableCephTools
<1>3. CASE LabelNodesWithPendingPods
  BY <1>3, <1>a DEF LabelNodesWithPendingPods
<1>4. CASE \/ ManageCrashLoopBackOffPods \/ handleCrashLoopBackOffPodsFails
           \/ \E o \in OSD : handleCrashLoopBackOffPods(o)
           \/ handleCrashLoopBackOffPodsPanics \/ ManageDone
  BY <1>4, <1>a DEF ManageCrashLoopBackOffPods, handleCrashLoopBackOffPodsFails,
                    handleCrashLoopBackOffPods, handleCrashLoopBackOffPodsPanics, ManageDone,
                    Panic, NoCall
<1>5. CASE ForceDeleteRookCephOSDPods
  BY <1>5, <1>a DEF ForceDeleteRookCephOSDPods, Panic, NoCall
<1>6. CASE ProcessOCSRemovalTemplate \/ ReplaceOSDRemovalJob \/ JobSucceeded
  BY <1>6, <1>b, <1>c DEF ProcessOCSRemovalTemplate, ReplaceOSDRemovalJob, JobSucceeded
<1>7. CASE CreateOSDRemovalJob
  BY <1>7, <1>a DEF CreateOSDRemovalJob
<1>8. CASE CreateForcedOSDRemovalJob
  BY <1>8, <1>a DEF CreateForcedOSDRemovalJob
<1>9. CASE WaitForJob \/ RetryTimedOut \/ validateJobLogs \/ RestartStorageOperator
  BY <1>9, <1>a DEF WaitForJob, RetryTimedOut, validateJobLogs, RestartStorageOperator
<1>10. CASE WaitForPersistenVolumeBound
  BY <1>10, <1>a DEF WaitForPersistenVolumeBound
<1>11. CASE DeleteFailedPodsNodeAffinity \/ StorageClusterFitnessCheck
  BY <1>11, <1>a DEF DeleteFailedPodsNodeAffinity, StorageClusterFitnessCheck
<1> QED
  BY <1>1, <1>2, <1>3, <1>4, <1>5, <1>6, <1>7, <1>8, <1>9, <1>10, <1>11 DEF Handler

\* The lists a status keeps: a handler that neither lists the OSDs nor records
\* the failing ones keeps both, and does not scale.
ListsKept ==
  /\ pc' # "scale"
  /\ pc' # "idle" => /\ inst'.nodeDevice = inst.nodeDevice
                     /\ inst'.operationalOSDIDs = inst.operationalOSDIDs

LEMMA HandlerLists ==
  ASSUME TypeInv, Handler, ~ManageCrashLoopBackOffPods, ~ManageDone,
         \A o \in OSD : ~handleCrashLoopBackOffPods(o)
  PROVE  ListsKept
<1> USE DEF ListsKept
<1>a. inst \in NodeRecoveryStatus /\ inst.conditions # <<>>
  BY HandlerBusy DEF StartedStatus
<1>b. ASSUME NEW s \in NodeRecoveryStatus, s.conditions # <<>>, s.nodeDevice = inst.nodeDevice,
             s.operationalOSDIDs = inst.operationalOSDIDs
      PROVE  /\ \A r : Return(s, r) => ListsKept
             /\ \A t \in ConditionType : Advance(s, t) => ListsKept
  <2>1. \A r : Return(s, r) => ListsKept
    BY <1>b DEF Return
  <2>2. ASSUME NEW t \in ConditionType, Advance(s, t) PROVE ListsKept
    <3>1. /\ inst' = transitionNextCondition(s, t) /\ pc' = "update"
      BY <2>2 DEF Advance, Return
    <3>2. /\ transitionNextCondition(s, t).nodeDevice = s.nodeDevice
          /\ transitionNextCondition(s, t).operationalOSDIDs = s.operationalOSDIDs
      BY <1>b, TransitionType, TransitionKeeps
    <3> QED BY <1>b, <3>1, <3>2
  <2> QED BY <2>1, <2>2
<1>c. /\ \A r : Return(inst, r) => ListsKept
      /\ \A t \in ConditionType : Advance(inst, t) => ListsKept
      /\ Panic => ListsKept
      /\ GoOn("enable") \/ GoOn("create") => ListsKept
  BY <1>a, <1>b DEF Panic, Idle, GoOn
<1>d. ASSUME NEW phase \in RecoveryPhase, NEW b \in BOOLEAN, NEW r
      PROVE  /\ Return([inst EXCEPT !.phase = phase], r) => ListsKept
             /\ Return([inst EXCEPT !.phase = phase, !.completionTime = b], r) => ListsKept
  <2>1. [inst EXCEPT !.phase = phase] \in NodeRecoveryStatus
    BY <1>a DEF NodeRecoveryStatus
  <2>2. [inst EXCEPT !.phase = phase, !.completionTime = b] \in NodeRecoveryStatus
    BY <1>a DEF NodeRecoveryStatus
  <2>3. /\ [inst EXCEPT !.phase = phase].nodeDevice = inst.nodeDevice
        /\ [inst EXCEPT !.phase = phase].conditions = inst.conditions
        /\ [inst EXCEPT !.phase = phase].operationalOSDIDs = inst.operationalOSDIDs
    BY <1>a DEF NodeRecoveryStatus
  <2>4. /\ [inst EXCEPT !.phase = phase, !.completionTime = b].nodeDevice = inst.nodeDevice
        /\ [inst EXCEPT !.phase = phase, !.completionTime = b].conditions = inst.conditions
        /\ [inst EXCEPT !.phase = phase, !.completionTime = b].operationalOSDIDs
             = inst.operationalOSDIDs
    BY <1>a DEF NodeRecoveryStatus
  <2> HIDE DEF ListsKept
  <2> QED BY <1>a, <1>b, <2>1, <2>2, <2>3, <2>4
<1>e. ASSUME NEW s \in {[inst EXCEPT !.keepCephToolsPod = TRUE], [inst EXCEPT !.pendingPods = TRUE]}
      PROVE  /\ \A r : Return(s, r) => ListsKept
             /\ \A t \in ConditionType : Advance(s, t) => ListsKept
  <2>1. /\ s \in NodeRecoveryStatus /\ s.conditions = inst.conditions
        /\ s.nodeDevice = inst.nodeDevice /\ s.operationalOSDIDs = inst.operationalOSDIDs
    BY <1>a, <1>e DEF NodeRecoveryStatus
  <2> HIDE DEF ListsKept
  <2> QED BY <1>a, <1>b, <2>1
<1>f. ASSUME NEW f \in BOOLEAN
      PROVE  /\ \A r : Return([inst EXCEPT !.forcedOSDRemoval = f], r) => ListsKept
             /\ \A t \in ConditionType :
                  Advance([inst EXCEPT !.forcedOSDRemoval = f], t) => ListsKept
  <2>0. PICK s : s = [inst EXCEPT !.forcedOSDRemoval = f]
    OBVIOUS
  <2>1. /\ s \in NodeRecoveryStatus /\ s.conditions = inst.conditions
        /\ s.nodeDevice = inst.nodeDevice /\ s.operationalOSDIDs = inst.operationalOSDIDs
    BY <1>a, <2>0 DEF NodeRecoveryStatus
  <2> HIDE DEF ListsKept
  <2> QED BY <1>a, <1>b, <2>0, <2>1
<1>g. "Failed" \in RecoveryPhase /\ "Completed" \in RecoveryPhase
  BY DEF RecoveryPhase
<1> HIDE DEF ListsKept
<1>1. CASE ReconciliationTimeout \/ CallFails \/ RetryTimedOut \/ validateJobLogs
  BY <1>1, <1>c, <1>d, <1>g DEF ReconciliationTimeout, CallFails, RetryTimedOut, validateJobLogs
<1>2. CASE EnableCephToolsPod \/ enableCephTools \/ WaitForCephToolsPodRunning
           \/ WaitForOSDPodsStabilize
  BY <1>2, <1>c, <1>e DEF EnableCephToolsPod, enableCephTools, WaitForCephToolsPodRunning,
                          WaitForOSDPodsStabilize, ConditionType
<1>3. CASE LabelNodesWithPendingPods
  BY <1>3, <1>c, <1>e DEF LabelNodesWithPendingPods, ConditionType
<1>4. CASE handleCrashLoopBackOffPodsFails \/ handleCrashLoopBackOffPodsPanics
  BY <1>4, <1>c DEF handleCrashLoopBackOffPodsFails, handleCrashLoopBackOffPodsPanics
<1>5. CASE ForceDeleteRookCephOSDPods
  BY <1>5, <1>c DEF ForceDeleteRookCephOSDPods, ConditionType
<1>6. CASE ProcessOCSRemovalTemplate \/ ReplaceOSDRemovalJob \/ JobSucceeded
  BY <1>6, <1>c DEF ProcessOCSRemovalTemplate, ReplaceOSDRemovalJob, JobSucceeded, ConditionType
<1>7. CASE CreateOSDRemovalJob
  <2>0. (Cardinality(getOSDPods) <= MaxForcedPods) \in BOOLEAN
    OBVIOUS
  <2>1. PICK forced \in BOOLEAN : forced = (Cardinality(getOSDPods) <= MaxForcedPods)
    BY <2>0, Zenon
  <2>2. \/ Advance([inst EXCEPT !.forcedOSDRemoval = forced], "CleanupOSDRemovalJob")
        \/ Return([inst EXCEPT !.forcedOSDRemoval = forced], "error")
        \/ Return(inst, "error")
    BY <1>7, <2>1 DEF CreateOSDRemovalJob
  <2> QED BY <1>c, <1>f, <2>2 DEF ConditionType
<1>8. CASE CreateForcedOSDRemovalJob
  BY <1>8, <1>c, <1>f DEF CreateForcedOSDRemovalJob, ConditionType
<1>9. CASE WaitForJob \/ WaitForPersistenVolumeBound
  BY <1>9, <1>c DEF WaitForJob, WaitForPersistenVolumeBound, ConditionType
<1>10. CASE RestartStorageOperator \/ DeleteFailedPodsNodeAffinity \/ StorageClusterFitnessCheck
  BY <1>10, <1>c DEF RestartStorageOperator, DeleteFailedPodsNodeAffinity,
                     StorageClusterFitnessCheck, ConditionType
<1>11. CASE DisableCephTools
  BY <1>11, <1>d, <1>g DEF DisableCephTools
<1> QED
  BY <1>1, <1>2, <1>3, <1>4, <1>5, <1>6, <1>7, <1>8, <1>9, <1>10, <1>11 DEF Handler

-------------------------------------------------------------------------------
\* Where no pod is rejected any more, those that were only get fewer, and the
\* informer shows them until it has seen that they are gone.
LEMMA RejectedStep ==
  ASSUME TypeInv, Rejectable = {}, [Next]_vars,
         nodeAffinityFailed \subseteq seen.nodeAffinityFailed
  PROVE  /\ nodeAffinityFailed' \subseteq seen'.nodeAffinityFailed
         /\ seen'.nodeAffinityFailed \subseteq seen.nodeAffinityFailed
         /\ readAffinity' \subseteq readAffinity
<1> DEFINE Fewer == /\ nodeAffinityFailed' \subseteq nodeAffinityFailed
                    /\ \/ seen'.nodeAffinityFailed = seen.nodeAffinityFailed
                       \/ /\ seen'.nodeAffinityFailed = nodeAffinityFailed
                          /\ UNCHANGED nodeAffinityFailed
<1>a. UNCHANGED <<nodeAffinityFailed, seen>> => Fewer
  OBVIOUS
<1>b. UNCHANGED clusterVars => Fewer
  BY DEF clusterVars, miscVars
<1>c. \A kinds : Snapshot(kinds).nodeAffinityFailed
                   \in {seen.nodeAffinityFailed, nodeAffinityFailed}
  BY DEF Snapshot
<1>1. ASSUME Handler PROVE Fewer
  BY <1>1, HandlerPods DEF PodsShown
<1>2. ASSUME ClusterNext PROVE Fewer
  <2>1. CASE ToolsPodChanges \/ ClusterUpgrades \/ JobPodStarts \/ JobPodEnds
    BY <2>1, <1>a DEF ToolsPodChanges, ClusterUpgrades, JobPodStarts, JobPodEnds, miscVars
  <2>2. CASE \E o \in OSD : \/ PodChanges(o) \/ PodTerminates(o) \/ PodGone(o) \/ NewOSD(o)
                            \/ VolumeReleased(o)
    BY <2>2, <1>a DEF PodChanges, PodTerminates, PodGone, NewOSD, VolumeReleased, miscVars
  <2>3. ASSUME NEW o \in OSD, MinutePasses(o) PROVE Fewer
    <3>1. seen' = [seen EXCEPT !.term = [seen.term EXCEPT
                     ![o] = IF seen.term[o] = 1 THEN 2 ELSE seen.term[o]]]
          /\ UNCHANGED nodeAffinityFailed
      BY <2>3 DEF MinutePasses
    <3>2. seen'.nodeAffinityFailed = seen.nodeAffinityFailed
      BY <3>1 DEF TypeInv, ClusterTypeOK, View
    <3> QED BY <3>1, <3>2
  <2>4. CASE \E o \in OSD : JobPurges(o)
    BY <2>4 DEF JobPurges
  <2>5. \A o \in OSD : ~PodRejected(o)
    BY DEF PodRejected
  <2>6. ASSUME NEW kind \in Kind, InformerSync(kind) PROVE Fewer
    <3>1. seen' = Snapshot({kind}) /\ UNCHANGED nodeAffinityFailed
      BY <2>6 DEF InformerSync
    <3> QED BY <1>c, <3>1
  <2> HIDE DEF Fewer
  <2> QED BY <1>2, <2>1, <2>2, <2>3, <2>4, <2>5, <2>6 DEF ClusterNext
<1>3. ASSUME OperatorRestart PROVE Fewer
  <2>1. seen' = Snapshot(Lagging) /\ UNCHANGED nodeAffinityFailed
    BY <1>3 DEF OperatorRestart
  <2> QED BY <1>c, <2>1
<1>4. ASSUME \/ \E c \in CR : \/ CreateCR(c) \/ DeleteCR(c) \/ Touch(c) \/ CacheSync(c)
                              \/ Tick(c) \/ Start(c) \/ Ignore(c)
             \/ StatusUpdate \/ StatusUpdateFails \/ UNCHANGED vars
      PROVE  Fewer
  <2>1. UNCHANGED clusterVars
    BY <1>4 DEF CreateCR, DeleteCR, Touch, CacheSync, Tick, Start, Ignore, StatusUpdate,
                StatusUpdateFails, vars
  <2> QED BY <1>b, <2>1
<1>5. Fewer
  <2> HIDE DEF Fewer
  <2> QED BY <1>1, <1>2, <1>3, <1>4 DEF Next, Environment
<1> QED BY <1>5 DEF readAffinity

\* A handler lists as rejected what the informer shows.
LEMMA HandlerRejected ==
  ASSUME TypeInv, RejectedInv, Handler, pc' # "idle"
  PROVE  Rejected(inst') \cap Spare = {}
<1>a. inst \in NodeRecoveryStatus /\ inst.conditions # <<>> /\ pc # "idle"
  BY HandlerBusy DEF StartedStatus
<1>b. Rejected(inst) \cap Spare = {}
  BY <1>a DEF RejectedInv
<1>c. ASSUME inst'.operationalOSDIDs = inst.operationalOSDIDs
      PROVE  Rejected(inst') \cap Spare = {}
  BY <1>b, <1>c DEF Rejected
<1>1. CASE ManageCrashLoopBackOffPods
  <2>1. CASE Advance(inst, "RestartStorageOperator")
    <3>1. "RestartStorageOperator" \in ConditionType
      BY DEF ConditionType
    <3> QED BY <1>a, <1>c, <2>1, <3>1, TransitionKeeps DEF Advance, Return
  <2>2. CASE ~Advance(inst, "RestartStorageOperator")
    <3>1. inst' = [inst EXCEPT
            !.operationalOSDIDs = IF operationalOSDPods = {} THEN inst.operationalOSDIDs
                                  ELSE operationalOSDPods,
            !.crashLoopBackOffPods = TRUE]
      BY <1>1, <2>2 DEF ManageCrashLoopBackOffPods
    <3>2. inst'.operationalOSDIDs \in {inst.operationalOSDIDs, operationalOSDPods}
      BY <1>a, <3>1 DEF NodeRecoveryStatus
    <3>3. \A o \in OSD : <<o, "rejected">> \in operationalOSDPods => o \notin Spare
      BY DEF operationalOSDPods, getOSDPods, readAffinity, RejectedInv
    <3> QED BY <1>c, <3>2, <3>3 DEF Rejected
  <2> QED BY <2>1, <2>2
<1>2. CASE ManageDone
  <2>1. PICK s : s = [inst EXCEPT !.nodeDevice = nodePV]
    OBVIOUS
  <2>2. /\ s \in NodeRecoveryStatus /\ s.conditions # <<>>
        /\ s.operationalOSDIDs = inst.operationalOSDIDs
    BY <1>a, <2>1 DEF NodeRecoveryStatus, TypeInv, WorkerInv
  <2>3. "ForceDeleteRookCephOSDPods" \in ConditionType
    BY DEF ConditionType
  <2>4. inst' = transitionNextCondition(s, "ForceDeleteRookCephOSDPods")
    BY <1>2, <2>1 DEF ManageDone, Advance, Return
  <2> QED BY <1>c, <2>2, <2>3, <2>4, TransitionKeeps
<1>3. CASE \E o \in OSD : handleCrashLoopBackOffPods(o)
  BY <1>3, <1>c DEF handleCrashLoopBackOffPods
<1> QED BY <1>1, <1>2, <1>3, <1>c, HandlerLists DEF ListsKept

LEMMA RejectedInvCorrect ==
  ASSUME Rejectable = {}
  PROVE  Spec => []RejectedInv
<1>a. ASSUME NEW s \in StartedStatus
      PROVE  Rejected(Older(s)) = Rejected(s) /\ Rejected(Begun(s)) = Rejected(s)
  <2>1. Begun(s).operationalOSDIDs = s.operationalOSDIDs
    BY <1>a DEF Begun, initStatus, StartedStatus, NodeRecoveryStatus
  <2> QED BY <1>a, <2>1, OlderSame DEF SameFlags, Rejected
<1>1. Init => RejectedInv
  <2> SUFFICES ASSUME Init PROVE RejectedInv
    OBVIOUS
  <2>1. /\ seen.nodeAffinityFailed = nodeAffinityFailed
        /\ nodeAffinityFailed \subseteq InitialRejected /\ pc = "idle"
        /\ \A c \in CR : store[c] = EmptyStatus /\ cache[c] = EmptyStatus
    BY DEF Init, ClusterInit
  <2>2. Rejected(EmptyStatus) = {} /\ InitialRejected \cap Spare = {}
    BY ClusterAssumption DEF EmptyStatus, Rejected
  <2> QED BY <2>1, <2>2 DEF RejectedInv
<1>2. TypeInv /\ JobInv /\ CopyInv /\ RejectedInv /\ [Next]_vars => RejectedInv'
  <2> SUFFICES ASSUME TypeInv, JobInv, CopyInv, RejectedInv, [Next]_vars PROVE RejectedInv'
    OBVIOUS
  <2>a. /\ nodeAffinityFailed' \subseteq seen'.nodeAffinityFailed
        /\ seen'.nodeAffinityFailed \cap Spare = {}
    BY RejectedStep DEF RejectedInv
  <2>b. ASSUME NEW c \in CR
        PROVE  /\ store[c] \in StartedStatus /\ cache[c] \in StartedStatus
               /\ Rejected(store[c]) \cap Spare = {} /\ Rejected(cache[c]) \cap Spare = {}
    BY DEF RejectedInv, TypeInv, ApiInv
  <2>c. ASSUME \A c \in CR : /\ store'[c] \in {store[c], Older(store[c])}
                             /\ cache'[c] \in {cache[c], Older(cache[c]), store[c]},
               pc' = "idle" \/ UNCHANGED <<pc, inst>>
        PROVE  RejectedInv'
    <3>1. \A c \in CR : /\ Rejected(store'[c]) \cap Spare = {}
                        /\ Rejected(cache'[c]) \cap Spare = {}
      BY <1>a, <2>b, <2>c
    <3>2. pc' # "idle" => Rejected(inst') \cap Spare = {}
      BY <2>c DEF RejectedInv
    <3> QED BY <2>a, <3>1, <3>2 DEF RejectedInv
  <2>1. CASE Handler
    <3>1. UNCHANGED <<store, cache>>
      BY <2>1, HandlerPlace
    <3>2. pc' # "idle" => Rejected(inst') \cap Spare = {}
      BY <2>1, HandlerRejected
    <3> QED BY <2>a, <2>b, <3>1, <3>2 DEF RejectedInv
  <2>2. CASE \/ ClusterNext /\ UNCHANGED <<apiVars, queue, workerVars, metrics, restartOwed>>
             \/ \E c \in CR : CreateCR(c) \/ DeleteCR(c) \/ Touch(c) \/ Ignore(c)
             \/ UNCHANGED vars
    <3>1. UNCHANGED <<store, cache, pc, inst>>
      BY <2>2 DEF CreateCR, DeleteCR, Touch, Ignore, apiVars, workerVars, vars
    <3> QED BY <2>c, <3>1
  <2>3. ASSUME NEW d \in CR, CacheSync(d) \/ Tick(d) PROVE RejectedInv'
    <3>1. /\ \A c \in CR : /\ store'[c] \in {store[c], Older(store[c])}
                           /\ cache'[c] \in {cache[c], Older(cache[c]), store[c]}
          /\ UNCHANGED <<pc, inst>>
      BY <2>3 DEF CacheSync, Tick, workerVars, TypeInv, ApiInv
    <3> QED BY <2>c, <3>1
  <2>4. CASE OperatorRestart
    <3>1. cache' = store /\ UNCHANGED store /\ pc' = "idle"
      BY <2>4 DEF OperatorRestart, Idle
    <3> QED BY <2>c, <3>1
  <2>5. CASE StatusUpdateFails
    <3>1. UNCHANGED <<store, cache>> /\ pc' = "idle"
      BY <2>5 DEF StatusUpdateFails, Idle, apiVars
    <3> QED BY <2>c, <3>1
  <2>6. CASE StatusUpdate
    <3>1. /\ store' = [store EXCEPT ![cur] = inst] /\ UNCHANGED cache /\ pc' = "idle"
          /\ pc = "update"
      BY <2>6 DEF StatusUpdate, Idle
    <3>2. Rejected(inst) \cap Spare = {}
      BY <3>1 DEF RejectedInv
    <3>3. \A c \in CR : store'[c] \in {store[c], inst}
      BY <3>1 DEF TypeInv, ApiInv
    <3> QED BY <2>a, <2>b, <3>1, <3>2, <3>3 DEF RejectedInv
  <2>7. ASSUME NEW c \in CR, Start(c) PROVE RejectedInv'
    <3>1. UNCHANGED <<store, cache>> /\ inst' = Begun(cache[c])
      BY <2>7 DEF Start, apiVars, Begun
    <3>2. Rejected(inst') \cap Spare = {}
      BY <1>a, <2>b, <3>1
    <3> QED BY <2>a, <2>b, <3>1, <3>2 DEF RejectedInv
  <2> QED BY <2>1, <2>2, <2>3, <2>4, <2>5, <2>6, <2>7 DEF Next, Environment
<1> QED BY <1>1, <1>2, TypeCorrect, JobInvCorrect, FlowInvCorrect, PTL DEF Spec

\* What a status past the wait for the volumes says stays true.
LEMMA EnoughStays ==
  ASSUME IsFiniteSet(OSD), OverPVC \subseteq OSD, NEW s, NEW n, NEW ids, Steady(ids),
         ids \subseteq Ids(s), Ids(n) = Ids(s), n.operationalOSDIDs = s.operationalOSDIDs,
         IsFiniteSet(Ids(s)), EnoughNew(s, Live)
  PROVE  EnoughNew(n, Live')
<1> DEFINE rest == RecordedOSDs(s)
           old  == Live \ rest
           new  == Live' \ rest
<1>0. RecordedOSDs(n) = rest /\ Ids(s) \subseteq rest
  BY DEF RecordedOSDs, Ids
<1>1. IsFiniteSet(new) /\ old \subseteq new
  <2>1. old \subseteq new
    BY <1>0 DEF Steady
  <2>2. new \in SUBSET OSD
    BY DEF Live
  <2> HIDE DEF new
  <2> QED BY <2>1, <2>2, FS_Subset
<1>2. Cardinality(old) <= Cardinality(new) /\ IsFiniteSet(old)
  BY <1>1, FS_Subset
<1>3. Cardinality(old) \in Nat /\ Cardinality(new) \in Nat /\ Cardinality(Ids(s)) \in Nat
  BY <1>1, <1>2, FS_CardinalityType
<1>4. Cardinality(old) >= Cardinality(Ids(s))
  BY DEF EnoughNew
<1> HIDE DEF old, new, rest
<1>5. Cardinality(new) >= Cardinality(Ids(s))
  BY <1>2, <1>3, <1>4
<1> QED BY <1>0, <1>5 DEF new, EnoughNew

\* So does what any status says of its devices.
LEMMA DevicesStay ==
  ASSUME IsFiniteSet(OSD), OverPVC \subseteq OSD, NEW s, NEW n, NEW ids, Steady(ids),
         ids \subseteq Ids(s), Ids(n) = Ids(s), n.operationalOSDIDs = s.operationalOSDIDs,
         Latest(n) = Latest(s), Ids(s) \subseteq OSD, readAffinity' \subseteq readAffinity,
         DevicesOK(s, LeftOver, GoneSet, Live, readAffinity)
  PROVE  DevicesOK(n, LeftOver', GoneSet', Live', readAffinity')
<1>0. Current(n) = Current(s) /\ Rejected(n) = Rejected(s)
  BY DEF Current, Rejected
<1>1. IsFiniteSet(Ids(s))
  BY FS_Subset
<1>2. Ids(s) # {} => /\ LeftOver' \subseteq Ids(n) \cup Current(n)
                     /\ readAffinity' \subseteq Rejected(n)
  BY <1>0 DEF DevicesOK, Steady
<1>3. Ids(s) # {} /\ Latest(n) \in AfterJob \cup JobConditions => Ids(n) \subseteq GoneSet'
  BY DEF DevicesOK, Steady
<1>4. Ids(s) # {} /\ Latest(n) \in AfterReplacement => EnoughNew(n, Live')
  BY <1>1, EnoughStays DEF DevicesOK
<1> QED BY <1>2, <1>3, <1>4 DEF DevicesOK

\* The wait for the pods ends when no pod of a device is shown.
LEMMA DevicesGone ==
  ASSUME TypeInv, JobInv, CopyInv, Handler,
         getLatestCondition(inst) = "ForceDeleteRookCephOSDPods",
         Latest(inst') = "ProcessOCSRemovalTemplate"
  PROVE  Ids(inst) \subseteq GoneSet /\ NoCall
<1>a. /\ inst \in NodeRecoveryStatus /\ inst.startTime /\ inst.conditions # <<>>
      /\ inst.nodeDevice \in Seq(OSD) /\ inst.crashLoopBackOffPods
  BY HandlerBusy DEF StartedStatus, CopyInv, WellKept, NodeRecoveryStatus
<1>b. ASSUME inst'.conditions = inst.conditions PROVE FALSE
  BY <1>b DEF Latest, Started, getLatestCondition
<1>1. ForceDeleteRookCephOSDPods
  <2>1. inst'.conditions # inst.conditions
    BY <1>b
  <2>2. ~ReconciliationTimeout /\ ~CallFails
    <3>1. [inst EXCEPT !.phase = "Failed"].conditions = inst.conditions
      BY <1>a DEF NodeRecoveryStatus
    <3> QED BY <2>1, <3>1 DEF ReconciliationTimeout, CallFails, Return
  <2>3. ~EnableCephToolsPod /\ ~enableCephTools /\ ~WaitForCephToolsPodRunning
        /\ ~WaitForOSDPodsStabilize /\ ~LabelNodesWithPendingPods /\ ~ManageCrashLoopBackOffPods
    BY DEF EnableCephToolsPod, enableCephTools, WaitForCephToolsPodRunning, CopyInv,
           WaitForOSDPodsStabilize, LabelNodesWithPendingPods, ManageCrashLoopBackOffPods, At
  <2>4. /\ \A o \in OSD : ~handleCrashLoopBackOffPods(o)
        /\ ~handleCrashLoopBackOffPodsFails /\ ~handleCrashLoopBackOffPodsPanics /\ ~ManageDone
    BY DEF handleCrashLoopBackOffPods, handleCrashLoopBackOffPodsFails, CopyInv,
           handleCrashLoopBackOffPodsPanics, ManageDone
  <2>5. ~ProcessOCSRemovalTemplate /\ ~CreateOSDRemovalJob /\ ~WaitForJob
        /\ ~ReplaceOSDRemovalJob /\ ~CreateForcedOSDRemovalJob /\ ~RetryTimedOut
        /\ ~validateJobLogs /\ ~JobSucceeded
    BY DEF ProcessOCSRemovalTemplate, CreateOSDRemovalJob, WaitForJob, ReplaceOSDRemovalJob,
           CreateForcedOSDRemovalJob, RetryTimedOut, validateJobLogs, JobSucceeded, AtJob, At
  <2>6. ~WaitForPersistenVolumeBound /\ ~RestartStorageOperator /\ ~DeleteFailedPodsNodeAffinity
        /\ ~StorageClusterFitnessCheck /\ ~DisableCephTools
    BY DEF WaitForPersistenVolumeBound, RestartStorageOperator, DeleteFailedPodsNodeAffinity,
           StorageClusterFitnessCheck, DisableCephTools, At
  <2> QED BY <2>2, <2>3, <2>4, <2>5, <2>6 DEF Handler
<1>2. ~Return(inst, "requeue") /\ ~Panic /\ ~Advance(inst, "ForceDeleteRookCephOSDPods")
  <2>1. "ForceDeleteRookCephOSDPods" \in ConditionType
    BY DEF ConditionType
  <2>2. getLatestCondition(transitionNextCondition(inst, "ForceDeleteRookCephOSDPods"))
          = "ForceDeleteRookCephOSDPods"
    BY <1>a, <2>1, TransitionType
  <2>3. ~Advance(inst, "ForceDeleteRookCephOSDPods")
    BY <2>2 DEF Advance, Return, Latest, Started
  <2>4. ~Panic
    BY EmptyStatusType DEF Panic, Idle, Latest, Started
  <2> QED BY <1>b, <2>3, <2>4 DEF Return
<1>3. /\ {i \in DOMAIN inst.nodeDevice : getOSDPodsWithID(inst.nodeDevice[i]) # {}} = {}
      /\ NoCall
  BY <1>1, <1>2, <1>a DEF ForceDeleteRookCephOSDPods
<1>4. Ids(inst) \subseteq ScaledSet
  BY DEF JobInv, RemovalOK
<1>5. \A o \in Ids(inst) : readPod[o] = "none"
  <2>0. \A i \in DOMAIN inst.nodeDevice : inst.nodeDevice[i] \in OSD
    BY <1>a
  <2>1. \A i \in DOMAIN inst.nodeDevice :
          inst.nodeDevice[i] \in OSD /\ getOSDPodsWithID(inst.nodeDevice[i]) = {}
    BY <1>3, <2>0, Zenon
  <2>2. ASSUME NEW o \in OSD, getOSDPodsWithID(o) = {} PROVE readPod[o] = "none"
    <3>1. <<o, "current">> \in OSDPod /\ <<o, "current">> \notin getOSDPods
      BY <2>2 DEF OSDPod, getOSDPodsWithID
    <3> QED BY <3>1 DEF getOSDPods
  <2> QED BY <2>1, <2>2 DEF Ids, getOSDIDsFromNodeDevices
<1> QED BY <1>3, <1>4, <1>5 DEF GoneSet, ScaledSet, WatchedSet
\* The handlers of the conditions after the job.
LEMMA LateHandlers ==
  ASSUME CopyInv, Handler, getLatestCondition(inst) \in AfterJob
  PROVE  \/ ReconciliationTimeout \/ CallFails \/ WaitForPersistenVolumeBound
         \/ RestartStorageOperator \/ DeleteFailedPodsNodeAffinity
         \/ StorageClusterFitnessCheck \/ DisableCephTools
<1>1. ~EnableCephToolsPod /\ ~enableCephTools /\ ~WaitForCephToolsPodRunning
      /\ ~WaitForOSDPodsStabilize /\ ~LabelNodesWithPendingPods /\ ~ManageCrashLoopBackOffPods
  BY DEF EnableCephToolsPod, enableCephTools, WaitForCephToolsPodRunning, CopyInv, AfterJob,
         WaitForOSDPodsStabilize, LabelNodesWithPendingPods, ManageCrashLoopBackOffPods, At
<1>2. /\ \A o \in OSD : ~handleCrashLoopBackOffPods(o)
      /\ ~handleCrashLoopBackOffPodsFails /\ ~handleCrashLoopBackOffPodsPanics
      /\ ~ManageDone /\ ~ForceDeleteRookCephOSDPods
  BY DEF handleCrashLoopBackOffPods, handleCrashLoopBackOffPodsFails, CopyInv, AfterJob,
         handleCrashLoopBackOffPodsPanics, ManageDone, ForceDeleteRookCephOSDPods, At
<1>3. ~ProcessOCSRemovalTemplate /\ ~CreateOSDRemovalJob /\ ~WaitForJob /\ ~ReplaceOSDRemovalJob
      /\ ~CreateForcedOSDRemovalJob /\ ~RetryTimedOut /\ ~validateJobLogs /\ ~JobSucceeded
  BY DEF ProcessOCSRemovalTemplate, CreateOSDRemovalJob, WaitForJob, ReplaceOSDRemovalJob,
         CreateForcedOSDRemovalJob, RetryTimedOut, validateJobLogs, JobSucceeded, AtJob, At,
         AfterJob
<1> QED BY <1>1, <1>2, <1>3 DEF Handler


\* They keep the list of the operational OSDs, and leave the wait for the
\* volumes in one way only.
LEMMA LateHandlersKeep ==
  ASSUME TypeInv, CopyInv, Handler, getLatestCondition(inst) \in AfterJob
  PROVE  /\ inst'.operationalOSDIDs = inst.operationalOSDIDs
         /\ inst'.nodeDevice = inst.nodeDevice /\ pc' = "update"
         /\ \/ Latest(inst') = getLatestCondition(inst)
            \/ getLatestCondition(inst) # "WaitForPersistenVolumeBound"
            \/ WaitForPersistenVolumeBound /\ Advance(inst, "RestartStorageOperator")
<1>a. /\ inst \in NodeRecoveryStatus /\ inst.startTime /\ inst.conditions # <<>>
  BY HandlerBusy DEF StartedStatus
<1>b. {"RestartStorageOperator", "DeleteFailedPodsNodeAffinity", "StorageClusterFitnessCheck",
       "DisableCephTools"} \subseteq ConditionType
  BY DEF ConditionType
<1>c. ASSUME NEW t \in ConditionType, Advance(inst, t)
      PROVE  /\ inst'.operationalOSDIDs = inst.operationalOSDIDs
             /\ inst'.nodeDevice = inst.nodeDevice /\ pc' = "update"
  BY <1>a, <1>c, TransitionType, TransitionKeeps DEF Advance, Return
<1>d. ASSUME NEW n, NEW r, Return(n, r), n.conditions = inst.conditions, n.startTime,
             n.operationalOSDIDs = inst.operationalOSDIDs, n.nodeDevice = inst.nodeDevice
      PROVE  /\ inst'.operationalOSDIDs = inst.operationalOSDIDs
             /\ inst'.nodeDevice = inst.nodeDevice /\ pc' = "update"
             /\ Latest(inst') = getLatestCondition(inst)
  BY <1>a, <1>d DEF Return, Latest, Started, getLatestCondition
<1>1. CASE ReconciliationTimeout \/ DisableCephTools
  <2> DEFINE failed    == [inst EXCEPT !.phase = "Failed"]
             completed == [inst EXCEPT !.phase = "Completed", !.completionTime = TRUE]
  <2>1. Return(failed, "done") \/ Return(completed, "done")
    BY <1>1 DEF ReconciliationTimeout, DisableCephTools
  <2>2. /\ failed.conditions = inst.conditions /\ failed.startTime
        /\ failed.operationalOSDIDs = inst.operationalOSDIDs
        /\ failed.nodeDevice = inst.nodeDevice
    BY <1>a DEF NodeRecoveryStatus
  <2>3. /\ completed.conditions = inst.conditions /\ completed.startTime
        /\ completed.operationalOSDIDs = inst.operationalOSDIDs
        /\ completed.nodeDevice = inst.nodeDevice
    BY <1>a DEF NodeRecoveryStatus
  <2> HIDE DEF failed, completed
  <2> QED BY <1>d, <2>1, <2>2, <2>3
<1>2. CASE CallFails
  BY <1>2, <1>a, <1>d DEF CallFails
<1>3. CASE WaitForPersistenVolumeBound
  <2>1. Return(inst, "requeue") \/ Advance(inst, "RestartStorageOperator")
    BY <1>3 DEF WaitForPersistenVolumeBound
  <2> QED BY <1>3, <1>a, <1>b, <1>c, <1>d, <2>1
<1>4. CASE RestartStorageOperator \/ DeleteFailedPodsNodeAffinity \/ StorageClusterFitnessCheck
  <2>1. getLatestCondition(inst) # "WaitForPersistenVolumeBound"
    BY <1>4 DEF RestartStorageOperator, DeleteFailedPodsNodeAffinity, StorageClusterFitnessCheck, At
  <2>2. \/ Return(inst, "error") \/ Return(inst, "requeue")
        \/ Advance(inst, "DeleteFailedPodsNodeAffinity")
        \/ Advance(inst, "StorageClusterFitnessCheck") \/ Advance(inst, "DisableCephTools")
    BY <1>4 DEF RestartStorageOperator, DeleteFailedPodsNodeAffinity, StorageClusterFitnessCheck
  <2> QED BY <1>a, <1>b, <1>c, <1>d, <2>1, <2>2
<1> QED BY <1>1, <1>2, <1>3, <1>4, LateHandlers


\* There are no more OSDs than entries.
LEMMA EntriesCounted ==
  ASSUME NEW nd \in Seq(OSD)
  PROVE  LET ids == getOSDIDsFromNodeDevices(nd)
         IN  IsFiniteSet(ids) /\ Cardinality(ids) \in Nat /\ Cardinality(ids) <= Len(nd)
<1> DEFINE ids == getOSDIDsFromNodeDevices(nd)
<1>1. Len(nd) \in Nat /\ DOMAIN nd = 1..Len(nd)
  OBVIOUS
<1>2. nd \in [1..Len(nd) -> ids] /\ \A o \in ids : \E i \in 1..Len(nd) : nd[i] = o
  BY <1>1 DEF getOSDIDsFromNodeDevices
<1> HIDE DEF ids
<1>3. nd \in Surjection(1..Len(nd), ids)
  BY <1>2 DEF Surjection
<1>4. IsFiniteSet(1..Len(nd)) /\ Cardinality(1..Len(nd)) = Len(nd)
  BY <1>1, FS_Interval
<1>5. IsFiniteSet(ids) /\ Cardinality(ids) <= Len(nd)
  BY <1>3, <1>4, FS_Surjection
<1>6. Cardinality(ids) \in Nat
  BY <1>5, FS_CardinalityType
<1> QED BY <1>5, <1>6 DEF ids


LEMMA PodsFinite == ASSUME IsFiniteSet(OSD) PROVE IsFiniteSet(OSDPod)
<1>1. IsFiniteSet({"current"})
  BY FS_Singleton
<1>2. IsFiniteSet({"current"} \cup {"rejected"})
  BY <1>1, FS_AddElement
<1>3. {"current"} \cup {"rejected"} = {"current", "rejected"}
  OBVIOUS
<1>4. IsFiniteSet({"current", "rejected"})
  BY <1>2, <1>3
<1> QED BY <1>4, FS_Product DEF OSDPod

\* Of so many pods, as many as there are entries are not among the old ones;
\* and they are of as many OSDs, if each is the current pod of one.
LEMMA NewOnes ==
  ASSUME IsFiniteSet(OSD), NEW up \in SUBSET OSDPod, NEW old \in SUBSET OSDPod,
         NEW nd \in Seq(OSD), NEW new \in SUBSET OSD,
         \A p \in up \ old : p[1] \in new /\ p[2] = "current",
         Cardinality(up) >= Cardinality(old) + Len(nd)
  PROVE  Cardinality(new) >= Cardinality(getOSDIDsFromNodeDevices(nd))
<1> DEFINE ids  == getOSDIDsFromNodeDevices(nd)
           both == up \cap old
           rest == up \ old
           name == [p \in rest |-> p[1]]
<1>1. IsFiniteSet(up) /\ IsFiniteSet(old) /\ IsFiniteSet(new)
  BY PodsFinite, FS_Subset
<1>2. /\ Cardinality(both) <= Cardinality(old) /\ IsFiniteSet(both) /\ IsFiniteSet(rest)
  BY <1>1, FS_Subset
<1>3. Cardinality(rest) = Cardinality(up) - Cardinality(both)
  BY <1>1, FS_Difference
<1>4. Cardinality(rest) <= Cardinality(new)
  <2>1. \A p \in rest : p = <<p[1], "current">> /\ p[1] \in new
    BY DEF OSDPod
  <2>2. \A p, q \in rest : p[1] = q[1] => p = q
    BY <2>1
  <2>3. name \in [rest -> new] /\ \A p, q \in rest : name[p] = name[q] => p = q
    BY <2>1, <2>2
  <2> HIDE DEF name, rest
  <2>4. name \in Injection(rest, new)
    BY <2>3 DEF Injection, IsInjective
  <2> QED BY <1>1, <2>4, FS_Injection
<1>5. Cardinality(ids) \in Nat /\ Cardinality(ids) <= Len(nd) /\ Len(nd) \in Nat
  BY EntriesCounted
<1>6. /\ Cardinality(up) \in Nat /\ Cardinality(old) \in Nat /\ Cardinality(both) \in Nat
      /\ Cardinality(rest) \in Nat /\ Cardinality(new) \in Nat
  BY <1>1, <1>2, FS_CardinalityType
<1>7. Cardinality(up) >= Cardinality(old) + Len(nd)
  OBVIOUS
<1> HIDE DEF ids, both, rest
<1>8. Cardinality(new) >= Cardinality(ids)
  BY <1>2, <1>3, <1>4, <1>5, <1>6, <1>7
<1> QED BY <1>8 DEF ids

(***************************************************************************)
(* The wait for the volumes ends with enough new OSDs, though claims and   *)
(* pods are counted as they are shown: a rejected pod has been listed, and *)
(* an OSD that is shown with a pod, is not a device and whose pod was not  *)
(* listed is a new one that has not been scaled down, and so holds its     *)
(* claim whatever the informer of the claims shows.                        *)
(***************************************************************************)
LEMMA VolumesCounted ==
  ASSUME TypeInv, JobInv, WaitForPersistenVolumeBound, Advance(inst, "RestartStorageOperator"),
         RecordOK(inst, Purged), Purged \subseteq Ids(inst), Ids(inst) # {}, IsFiniteSet(OSD),
         OverPVC \subseteq OSD, DevicesOK(inst, LeftOver, GoneSet, Live, readAffinity),
         Rejected(inst) \cap Spare = {}
  PROVE  EnoughNew(inst, Live) /\ NoCall
<1>a. /\ inst \in NodeRecoveryStatus /\ inst.startTime /\ inst.conditions # <<>>
      /\ inst.nodeDevice \in Seq(OSD) /\ inst.operationalOSDIDs \in SUBSET OSDPod
      /\ Ids(inst) \subseteq OSD
  <2>1. pc # "idle" /\ inst \in StartedStatus
    BY DEF WaitForPersistenVolumeBound, At, TypeInv, WorkerInv
  <2> QED BY <2>1, DeviceIds DEF TypeInv, WorkerInv, StartedStatus, NodeRecoveryStatus, Ids
<1>b. getLatestCondition(inst) = "WaitForPersistenVolumeBound"
  BY DEF WaitForPersistenVolumeBound, At
<1>c. Latest(inst) \in AfterJob
  BY <1>a, <1>b DEF Latest, Started, AfterJob
<1>1. ~Return(inst, "requeue")
  <2>1. "RestartStorageOperator" \in ConditionType
    BY DEF ConditionType
  <2>2. getLatestCondition(inst') = "RestartStorageOperator"
    BY <1>a, <2>1, TransitionType DEF Advance, Return
  <2> QED BY <1>b, <2>2 DEF Return
<1>2. countPVCsBoundToODSPods >= expectedPVCs(inst) /\ NoCall
  BY <1>1 DEF WaitForPersistenVolumeBound
<1> DEFINE new == Live \ RecordedOSDs(inst)
<1>3. PICK up : up = {p \in getOSDPods : p[1] \in OverPVC \cap readClaims}
  OBVIOUS
<1>4. Cardinality(up) >= Cardinality(inst.operationalOSDIDs) + Len(inst.nodeDevice)
  BY <1>2, <1>3 DEF countPVCsBoundToODSPods, expectedPVCs
<1>5. ASSUME NEW p \in up \ inst.operationalOSDIDs PROVE p[1] \in new /\ p[2] = "current"
  <2>0. PICK o \in OSD, w \in {"current", "rejected"} : p = <<o, w>>
    BY <1>3 DEF getOSDPods, OSDPod
  <2>1. w = "current"
    <3>1. w = "rejected" => o \in readAffinity
      BY <1>3, <2>0 DEF getOSDPods
    <3>2. o \notin readAffinity \/ <<o, "rejected">> \in inst.operationalOSDIDs
      BY DEF DevicesOK, Rejected
    <3> QED BY <1>5, <2>0, <3>1, <3>2
  <2>2. o \in OverPVC /\ readPod[o] # "none"
    BY <1>3, <2>0, <2>1 DEF getOSDPods
  <2>3. o \notin Ids(inst) \cup Current(inst)
    <3>1. Ids(inst) \subseteq GoneSet
      BY <1>c DEF DevicesOK
    <3>2. o \notin Ids(inst)
      BY <2>2, <3>1 DEF GoneSet
    <3>3. o \notin Current(inst)
      BY <1>5, <2>0, <2>1 DEF Current
    <3> QED BY <3>2, <3>3
  <2>4. o \notin LeftOver
    BY <2>3 DEF DevicesOK
  <2>5. o \in Spare /\ replicas[o] # 0
    BY <2>2, <2>4 DEF LeftOver, GoneSet
  <2>6. replicas[o] = 1
    <3>1. replicas[o] \in 0..1
      BY DEF TypeInv, ClusterTypeOK
    <3> QED BY <2>5, <3>1
  <2>7. pv[o] = "Bound"
    <3>1. pv[o] # "Unused"
      BY <2>2 DEF readPod, JobInv, JobOK, PodsOK
    <3>2. pv[o] \in VolumePhase
      BY DEF TypeInv, ClusterTypeOK
    <3> QED BY <2>3, <3>1, <3>2 DEF Purged, VolumePhase
  <2>8. o \notin RecordedOSDs(inst)
    <3>1. o \notin Rejected(inst)
      BY <2>5
    <3>2. ASSUME NEW q \in inst.operationalOSDIDs PROVE q[1] # o
      <4>1. PICK r \in OSD, v \in {"current", "rejected"} : q = <<r, v>>
        BY <1>a, <3>2 DEF OSDPod
      <4>2. v = "current" => r \in Current(inst)
        BY <3>2, <4>1 DEF Current
      <4>3. v = "rejected" => r \in Rejected(inst)
        BY <3>2, <4>1 DEF Rejected
      <4> QED BY <2>3, <3>1, <4>1, <4>2, <4>3
    <3> QED BY <2>3, <3>2 DEF RecordedOSDs, Ids
  <2> QED BY <2>0, <2>1, <2>2, <2>6, <2>7, <2>8 DEF Live
<1>6. up \in SUBSET OSDPod /\ new \in SUBSET OSD
  BY <1>3 DEF getOSDPods, Live
<1> HIDE DEF new
<1>7. Cardinality(new) >= Cardinality(getOSDIDsFromNodeDevices(inst.nodeDevice))
  BY <1>a, <1>4, <1>5, <1>6, NewOnes
<1> QED BY <1>2, <1>7 DEF EnoughNew, new, Ids

\* A handler that scales no deployment takes such a step.
LEMMA HandlerOneStep ==
  ASSUME TypeInv, Handler, \A o \in OSD : ~handleCrashLoopBackOffPods(o)
  PROVE  OneStep(Ids(inst))
<1>1. VolumesKept /\ PodsShown
  BY HandlerVolumes, HandlerPods
<1>2. \A o \in OSD : readPod'[o] \in {readPod[o], pod[o], pod'[o]}
  BY <1>1 DEF PodsShown, readPod
<1>3. \A o \in OSD : pv'[o] = pv[o] \/ (o \in Ids(inst) /\ pv'[o] = "Deleted")
  BY <1>1 DEF VolumesKept
<1>4. \A o \in OSD : pod[o] = "none" => pod'[o] = "none"
  BY <1>1 DEF PodsShown
<1>5. \A o \in OSD : replicas'[o] = replicas[o]
  BY <1>1 DEF VolumesKept
<1> QED BY <1>2, <1>3, <1>4, <1>5 DEF OneStep, Untouched

\* A handler takes no pod away that is to be up.
LEMMA HandlerPodsUp ==
  ASSUME TypeInv, JobInv, PodsUp, Handler
  PROVE  PodsUp'
<1>a. replicas \in [OSD -> 0..1] /\ \A o \in OSD : term[o] \in 0..2
  BY DEF TypeInv, ClusterTypeOK
<1>1. ASSUME NEW p \in OSD, handleCrashLoopBackOffPods(p) PROVE PodsUp'
  <2>1. replicas' = [replicas EXCEPT ![p] = 0] /\ UNCHANGED <<pod, term, pv>>
    BY <1>1 DEF handleCrashLoopBackOffPods, scaleRookCephOSDDeploymentToZero
  <2>2. \A o \in OSD : replicas'[o] \in {0, replicas[o]}
    BY <1>a, <2>1
  <2> QED BY <2>1, <2>2 DEF PodsUp
<1>2. CASE \A o \in OSD : ~handleCrashLoopBackOffPods(o)
  <2>1. VolumesKept
    BY <1>2, HandlerVolumes
  <2>2. \A o \in Ids(inst) : replicas[o] = 0
    BY DEF JobInv, RemovalOK, ScaledSet
  <2>3. \A o \in OSD : term'[o] > 0 => term[o] > 0
    BY <1>a, <2>1 DEF VolumesKept
  <2>4. \A o \in OSD : /\ pv'[o] # pv[o] => o \in Ids(inst)
                       /\ pv'[o] = "Unused" => pv[o] = "Unused"
    BY <2>1 DEF VolumesKept
  <2> QED BY <2>1, <2>2, <2>3, <2>4 DEF PodsUp, VolumesKept
<1> QED BY <1>1, <1>2

\* What a handler has read of the devices, and what there is of them.
LEMMA HandlerReads ==
  ASSUME TypeInv, RemovalInv, ReplacementInv, Handler, NEW me \in CR, me = cur
  PROVE  /\ Ids(inst) = Ids(store[me]) /\ Ids(inst) \subseteq OSD
         /\ RecordOK(inst, Purged) /\ Purged \subseteq Ids(inst)
         /\ jobPod = "Removed" => Ids(inst) \subseteq Purged
         /\ DevicesOK(inst, LeftOver, GoneSet, Live, readAffinity)
<1>1. pc \notin {"idle", "update"} /\ inst \in StartedStatus
  BY HandlerBusy
<1>2. /\ Ids(inst) \in {{}, Ids(store[me])} /\ RecordOK(inst, Purged)
      /\ JobOf(Ids(store[me]), Purged)
  BY <1>1 DEF RemovalInv
<1>3. /\ Ids(store[me]) \subseteq Ids(inst) /\ Purged \subseteq Ids(store[me])
      /\ DevicesOK(inst, LeftOver, GoneSet, Live, readAffinity)
  BY <1>1 DEF ReplacementInv
<1>4. Ids(inst) = Ids(store[me])
  BY <1>2, <1>3
<1>5. Ids(inst) \subseteq OSD
  BY <1>1, DeviceIds DEF Ids
<1> QED BY <1>2, <1>3, <1>4, <1>5 DEF JobOf

\* What the worker's copy says of its devices is true after a handler.
LEMMA HandlerDevices ==
  ASSUME TypeInv, JobInv, CopyInv, RemovalInv, RejectedInv, ReplacementInv, Handler,
         pc' # "idle", NEW me \in CR, me = cur, IsFiniteSet(OSD), OverPVC \subseteq OSD,
         \A o \in OSD : ~handleCrashLoopBackOffPods(o), readAffinity' \subseteq readAffinity
  PROVE  DevicesOK(inst', LeftOver', GoneSet', Live', readAffinity')
<1>a. /\ Ids(inst) = Ids(store[me]) /\ Ids(inst) \subseteq OSD
      /\ RecordOK(inst, Purged) /\ Purged \subseteq Ids(inst)
      /\ DevicesOK(inst, LeftOver, GoneSet, Live, readAffinity)
  BY HandlerReads
<1>b. Steady(Ids(inst))
  BY HandlerOneStep, HandlerPodsUp, OneStepSteady DEF ReplacementInv
<1>c. /\ inst \in StartedStatus /\ Latest(inst) = getLatestCondition(inst)
      /\ Latest(inst) \in ConditionType
  BY HandlerBusy, LatestConditionType DEF Latest, Started, StartedStatus
<1>1. CASE ManageDone
  <2>1. /\ pc = "scale" /\ todo = {} /\ NoCall
        /\ Advance([inst EXCEPT !.nodeDevice = nodePV], "ForceDeleteRookCephOSDPods")
    BY <1>1 DEF ManageDone
  <2>2. PICK s : s = [inst EXCEPT !.nodeDevice = nodePV]
    OBVIOUS
  <2>3. /\ s \in NodeRecoveryStatus /\ s.nodeDevice = nodePV /\ s.conditions # <<>> /\ s.startTime
        /\ s.operationalOSDIDs = inst.operationalOSDIDs
    BY <2>2, HandlerBusy DEF StartedStatus, NodeRecoveryStatus, TypeInv, WorkerInv
  <2>4. "ForceDeleteRookCephOSDPods" \in ConditionType
    BY DEF ConditionType
  <2>5. inst' = transitionNextCondition(s, "ForceDeleteRookCephOSDPods")
    BY <2>1, <2>2 DEF Advance, Return
  <2>6. /\ inst'.nodeDevice = nodePV /\ inst'.startTime
        /\ inst'.operationalOSDIDs = inst.operationalOSDIDs
        /\ Latest(inst') = "ForceDeleteRookCephOSDPods"
    BY <2>3, <2>4, <2>5, TransitionType, TransitionKeeps DEF Latest, Started
  <2>7. LeftOver' = LeftOver
    BY <2>1 DEF NoCall, clusterVars, podVars, miscVars, LeftOver, GoneSet, readPod
  <2>8. /\ LeftOver \subseteq getOSDIDsFromNodeDevices(nodePV) \cup Current(inst)
        /\ readAffinity' \subseteq Rejected(inst)
    BY <2>1 DEF ReplacementInv
  <2>9. Current(inst') = Current(inst) /\ Rejected(inst') = Rejected(inst)
    BY <2>6 DEF Current, Rejected
  <2> QED BY <2>6, <2>7, <2>8, <2>9 DEF DevicesOK, Ids, AfterJob, AfterReplacement, JobConditions
<1>2. CASE ManageCrashLoopBackOffPods
  <2>1. Latest(inst) = "ManageCrashLoopBackOffPods" /\ Ids(inst) = {}
    BY <1>2, <1>a, <1>c DEF ManageCrashLoopBackOffPods, At, RecordOK, BeforeRemoval
  <2>2. \/ Ids(inst') = Ids(inst)
        \/ pc' = "update" /\ Latest(inst') = "ForceDeleteRookCephOSDPods"
    BY <1>a, HandlerReads, HandlerRecord
  <2>3. pc' = "scale" \/ Latest(inst') = "RestartStorageOperator"
    <3>1. "RestartStorageOperator" \in ConditionType
      BY DEF ConditionType
    <3>2. pc' = "scale" \/ Advance(inst, "RestartStorageOperator")
      BY <1>2 DEF ManageCrashLoopBackOffPods
    <3>3. /\ getLatestCondition(transitionNextCondition(inst, "RestartStorageOperator"))
               = "RestartStorageOperator"
          /\ transitionNextCondition(inst, "RestartStorageOperator").startTime
      BY <3>1, HandlerBusy, TransitionType DEF StartedStatus
    <3> QED BY <3>2, <3>3 DEF Advance, Return, Latest, Started
  <2>4. Ids(inst') = {}
    BY <2>1, <2>2, <2>3
  <2> QED BY <2>4 DEF DevicesOK
<1>3. CASE ~ManageDone /\ ~ManageCrashLoopBackOffPods
  <2>1. Ids(inst') = Ids(inst) /\ inst'.operationalOSDIDs = inst.operationalOSDIDs
    BY <1>3, HandlerLists DEF ListsKept, Ids
  <2> SUFFICES ASSUME Ids(inst) # {}
               PROVE  DevicesOK(inst', LeftOver', GoneSet', Live', readAffinity')
    BY <2>1 DEF DevicesOK
  <2>2. Latest(inst') = Latest(inst) \/ Latest(inst') \in Flow!Following(Latest(inst))
    BY HandlerPlace
  <2>3. IsFiniteSet(Ids(inst))
    BY <1>a, FS_Subset
  <2>4. Latest(inst) \notin BeforeRemoval
    BY <1>a DEF RecordOK
  <2>5. CASE Latest(inst') = Latest(inst)
    BY <1>a, <1>b, <2>1, <2>5, DevicesStay
  <2>6. CASE Latest(inst') # Latest(inst)
    <3>1. /\ Latest(inst') \in AfterJob \cup JobConditions =>
               \/ Latest(inst) \in AfterJob \cup JobConditions
               \/ /\ Latest(inst) = "ForceDeleteRookCephOSDPods"
                  /\ Latest(inst') = "ProcessOCSRemovalTemplate"
          /\ Latest(inst') \in AfterReplacement =>
               \/ Latest(inst) \in AfterReplacement
               \/ Latest(inst) = "WaitForPersistenVolumeBound"
      BY <1>c, <2>2, <2>4, <2>6, FollowingValues
         DEF ConditionType, BeforeRemoval, AfterJob, AfterReplacement, JobConditions
    <3>2. /\ LeftOver' \subseteq Ids(inst') \cup Current(inst')
          /\ readAffinity' \subseteq Rejected(inst')
      <4>1. Current(inst') = Current(inst) /\ Rejected(inst') = Rejected(inst)
        BY <2>1 DEF Current, Rejected
      <4> QED BY <1>a, <1>b, <2>1, <4>1 DEF DevicesOK, Steady
    <3>3. Latest(inst') \in AfterJob \cup JobConditions => Ids(inst') \subseteq GoneSet'
      <4>1. /\ Latest(inst) = "ForceDeleteRookCephOSDPods"
            /\ Latest(inst') = "ProcessOCSRemovalTemplate"
            => Ids(inst) \subseteq GoneSet
        BY <1>c, DevicesGone
      <4>2. Latest(inst') \in AfterJob \cup JobConditions => Ids(inst) \subseteq GoneSet
        BY <1>a, <3>1, <4>1 DEF DevicesOK
      <4> QED BY <1>b, <2>1, <4>2 DEF Steady
    <3>4. ASSUME Latest(inst') \in AfterReplacement
          PROVE  EnoughNew(inst', Live')
      <4>1. CASE Latest(inst) \in AfterReplacement
        <5>1. EnoughNew(inst, Live)
          BY <1>a, <4>1 DEF DevicesOK
        <5> QED BY <1>b, <2>1, <2>3, <5>1, EnoughStays
      <4>2. CASE Latest(inst) = "WaitForPersistenVolumeBound"
        <5>1. WaitForPersistenVolumeBound /\ Advance(inst, "RestartStorageOperator")
          BY <1>c, <2>6, <4>2, LateHandlersKeep DEF AfterJob
        <5>2. Rejected(inst) \cap Spare = {}
          BY HandlerBusy DEF RejectedInv
        <5>3. EnoughNew(inst, Live)
          BY <1>a, <5>1, <5>2, VolumesCounted
        <5> QED BY <1>b, <2>1, <2>3, <5>3, EnoughStays
      <4> QED BY <3>1, <3>4, <4>1, <4>2
    <3> QED BY <3>2, <3>3, <3>4 DEF DevicesOK
  <2> QED BY <2>5, <2>6
<1> QED BY <1>1, <1>2, <1>3
\* One deployment more is scaled to zero.
LEMMA ScaleReplacement ==
  ASSUME TypeInv, JobInv, CopyInv, RemovalInv, ReplacementInv, NEW p \in OSD,
         handleCrashLoopBackOffPods(p), \A c, d \in CR : c = d,
         readAffinity' \subseteq readAffinity
  PROVE  ReplacementInv'
<1>a. Handler
  BY DEF Handler
<1>b. PICK me \in CR : me = cur
  BY <1>a, HandlerBusy
<1>1. /\ Ids(inst) = {} /\ \A c \in CR : Ids(store[c]) = {}
  <2>1. Latest(inst) = "ManageCrashLoopBackOffPods" /\ RecordOK(inst, Purged)
        /\ Ids(inst) = Ids(store[me])
    BY <1>a, <1>b, HandlerBusy, HandlerReads
       DEF handleCrashLoopBackOffPods, CopyInv, Latest, Started
  <2>2. Ids(inst) = {}
    BY <2>1 DEF RecordOK, BeforeRemoval
  <2> QED BY <1>b, <2>1, <2>2
<1>2. /\ pc = "scale" /\ p \in todo /\ todo' = todo \ {p} /\ nodePV' = Append(nodePV, p)
      /\ replicas' = [replicas EXCEPT ![p] = 0] /\ UNCHANGED <<store, pc, cur, inst>>
      /\ UNCHANGED <<pod, term, pv, seen, job>>
  BY DEF handleCrashLoopBackOffPods, scaleRookCephOSDDeploymentToZero, apiVars, jobVars, miscVars
<1>3. replicas \in [OSD -> 0..1] /\ nodePV \in Seq(OSD) /\ readPod' = readPod
  BY <1>2 DEF TypeInv, ClusterTypeOK, WorkerInv, readPod
<1>4. PodsUp'
  BY <1>a, HandlerPodsUp DEF ReplacementInv
<1>5. Shown'
  <2>1. readPod[p] = "none" => pod[p] = "none"
    BY <1>2 DEF JobInv, LoopOK, WatchedSet
  <2>2. \A o \in OSD : replicas[o] = 0 /\ readPod[o] = "none" => pod[o] = "none"
    BY DEF ReplacementInv, Shown
  <2>3. \A o \in OSD : replicas'[o] = 0 /\ readPod[o] = "none" => pod[o] = "none"
    BY <1>2, <1>3, <2>1, <2>2
  <2>4. \A o \in OSD : replicas[o] = 0 => replicas'[o] = 0
    BY <1>2, <1>3
  <2>5. \A o \in OSD : o \notin Spare => pv[o] # "Unused" /\ (readPod[o] = "none" => replicas[o] = 0)
    BY DEF ReplacementInv, Shown
  <2> QED BY <1>2, <1>3, <2>3, <2>4, <2>5 DEF Shown
<1>6. \A c \in CR : /\ job'.ids \subseteq Ids(store'[c]) /\ Purged' \subseteq Ids(store'[c])
                    /\ DevicesOK(store'[c], LeftOver', GoneSet', Live', readAffinity')
  <2>1. job' = job /\ Purged' = Purged /\ store' = store
    BY <1>2 DEF Purged
  <2>2. \A c \in CR : job.ids \subseteq Ids(store[c]) /\ Purged \subseteq Ids(store[c])
    BY DEF ReplacementInv
  <2> QED BY <1>1, <2>1, <2>2 DEF DevicesOK
<1>7. /\ LeftOver' \subseteq todo' \cup getOSDIDsFromNodeDevices(nodePV') \cup Current(inst')
      /\ readAffinity' \subseteq Rejected(inst')
  <2>1. LeftOver' \subseteq LeftOver \cup {p}
    BY <1>2, <1>3 DEF LeftOver, GoneSet
  <2>2. /\ LeftOver \subseteq todo \cup getOSDIDsFromNodeDevices(nodePV) \cup Current(inst)
        /\ readAffinity \subseteq Rejected(inst)
    BY <1>2 DEF ReplacementInv
  <2>3. getOSDIDsFromNodeDevices(nodePV) \cup {p} \subseteq getOSDIDsFromNodeDevices(nodePV')
    BY <1>2, <1>3, OneMoreEntry
  <2> QED BY <1>2, <2>1, <2>2, <2>3
<1>8. Ids(inst') = {} /\ \A c \in CR : Ids(store'[c]) = {}
  BY <1>1, <1>2
<1>9. cur' = me
  BY <1>b, <1>2
<1>10. /\ Ids(store'[cur']) \subseteq Ids(inst')
       /\ DevicesOK(inst', LeftOver', GoneSet', Live', readAffinity')
  BY <1>8, <1>9 DEF DevicesOK
<1> QED BY <1>4, <1>5, <1>6, <1>7, <1>10 DEF ReplacementInv

LEMMA HandlerReplacement ==
  ASSUME TypeInv, JobInv, CopyInv, RemovalInv, RejectedInv, ReplacementInv, Handler,
         \A c, d \in CR : c = d, IsFiniteSet(OSD), OverPVC \subseteq OSD,
         readAffinity' \subseteq readAffinity
  PROVE  ReplacementInv'
<1>1. CASE \E p \in OSD : handleCrashLoopBackOffPods(p)
  BY <1>1, ScaleReplacement
<1>2. CASE \A p \in OSD : ~handleCrashLoopBackOffPods(p)
  <2>a. PICK me \in CR : me = cur
    BY HandlerBusy
  <2>b. \A c \in CR : c = me
    OBVIOUS
  <2>1. /\ Ids(inst) = Ids(store[me]) /\ Ids(inst) \subseteq OSD /\ RecordOK(inst, Purged)
        /\ jobPod = "Removed" => Ids(inst) \subseteq Purged
    BY <2>a, HandlerReads
  <2>2. Shown' /\ Steady(Ids(inst)) /\ PodsUp'
    BY <1>2, HandlerOneStep, OneStepSteady, HandlerPodsUp DEF ReplacementInv
  <2>3. /\ store' = store
        /\ pc' # "idle" => cur' = me
    BY <2>a, HandlerPlace
  <2>4. job'.ids \subseteq Ids(store[me])
    <3>1. HandlerJob /\ job \in RemovalJob
      BY HandlerJobs DEF RemovalStep, TypeInv, ClusterTypeOK
    <3>2. job'.ids \in {job.ids, {}, Ids(inst)}
      BY <3>1 DEF HandlerJob, jobVars, NoJob, RemovalJob
    <3>3. job.ids \subseteq Ids(store[me])
      BY DEF ReplacementInv
    <3> QED BY <2>1, <3>2, <3>3
  <2>5. Purged' \subseteq Ids(store[me])
    BY <2>1, <2>2 DEF Steady, ReplacementInv
  <2>6. DevicesOK(store[me], LeftOver', GoneSet', Live', readAffinity')
    BY <2>1, <2>2, DevicesStay DEF ReplacementInv
  <2>7. ASSUME pc' # "idle"
        PROVE  /\ Ids(store[me]) \subseteq Ids(inst')
               /\ DevicesOK(inst', LeftOver', GoneSet', Live', readAffinity')
    <3>1. DevicesOK(inst', LeftOver', GoneSet', Live', readAffinity')
      BY <1>2, <2>a, <2>7, HandlerDevices
    <3>2. Ids(inst') = Ids(inst) \/ Latest(inst) = "ManageCrashLoopBackOffPods"
      BY <2>1, <2>7, HandlerRecord
    <3>3. Latest(inst) = "ManageCrashLoopBackOffPods" => Ids(inst) = {}
      BY <2>1 DEF RecordOK, BeforeRemoval
    <3> QED BY <2>1, <3>1, <3>2, <3>3
  <2>8. ASSUME pc' = "scale"
        PROVE  /\ LeftOver' \subseteq todo' \cup getOSDIDsFromNodeDevices(nodePV') \cup Current(inst')
               /\ readAffinity' \subseteq Rejected(inst')
    <3>1. ManageCrashLoopBackOffPods
      <4>1. ManageDone => pc' = "update"
        BY DEF ManageDone, Advance, Return
      <4> QED BY <1>2, <2>8, <4>1, HandlerLists DEF ListsKept
    <3>2. /\ todo' = failingOSDPods /\ NoCall
          /\ inst' = [inst EXCEPT
               !.operationalOSDIDs = IF operationalOSDPods = {} THEN inst.operationalOSDIDs
                                     ELSE operationalOSDPods,
               !.crashLoopBackOffPods = TRUE]
      BY <2>8, <3>1 DEF ManageCrashLoopBackOffPods, Advance, Return
    <3>3. inst \in NodeRecoveryStatus
      BY HandlerBusy DEF StartedStatus
    <3>4. operationalOSDPods # {} => inst'.operationalOSDIDs = operationalOSDPods
      BY <3>2, <3>3 DEF NodeRecoveryStatus
    <3>5. LeftOver' = LeftOver
      BY <3>2 DEF NoCall, clusterVars, podVars, miscVars, LeftOver, GoneSet, readPod
    <3>6. ASSUME NEW o \in LeftOver, o \notin failingOSDPods PROVE o \in Current(inst')
      <4>1. o \in OSD /\ readPod[o] # "none"
        BY <3>6 DEF LeftOver, GoneSet, ReplacementInv, Shown
      <4>2. <<o, "current">> \in OSDPod
        BY <4>1 DEF OSDPod
      <4>3. <<o, "current">> \in operationalOSDPods
        BY <3>6, <4>1, <4>2 DEF operationalOSDPods, getOSDPods
      <4> QED BY <3>4, <4>1, <4>3 DEF Current
    <3>7. ASSUME NEW o \in readAffinity PROVE o \in Rejected(inst')
      <4>1. o \in OSD
        BY <3>7 DEF readAffinity, TypeInv, ClusterTypeOK, View
      <4>2. <<o, "rejected">> \in OSDPod
        BY <4>1 DEF OSDPod
      <4>3. <<o, "rejected">> \in operationalOSDPods
        BY <3>7, <4>2 DEF operationalOSDPods, getOSDPods
      <4> QED BY <3>4, <4>1, <4>3 DEF Rejected
    <3> QED BY <3>2, <3>5, <3>6, <3>7
  <2>9. pc' # "idle" => /\ Ids(store'[cur']) \subseteq Ids(inst')
                        /\ DevicesOK(inst', LeftOver', GoneSet', Live', readAffinity')
    BY <2>3, <2>7
  <2>10. \A c \in CR : /\ job'.ids \subseteq Ids(store'[c]) /\ Purged' \subseteq Ids(store'[c])
                       /\ DevicesOK(store'[c], LeftOver', GoneSet', Live', readAffinity')
    BY <2>b, <2>3, <2>4, <2>5, <2>6
  <2> QED BY <2>2, <2>8, <2>9, <2>10 DEF ReplacementInv
<1> QED BY <1>1, <1>2
\* A step in which no recovery gets any further, unless the worker goes idle.
LEMMA ReplacementFrame ==
  ASSUME TypeInv, CopyInv, RemovalInv, ReplacementInv, IsFiniteSet(OSD), OverPVC \subseteq OSD,
         PodsUp', NEW ids \in SUBSET job.ids, OneStep(ids), job'.ids = job.ids,
         \A c \in CR : /\ Ids(store'[c]) = Ids(store[c]) /\ Latest(store'[c]) = Latest(store[c])
                       /\ store'[c].operationalOSDIDs = store[c].operationalOSDIDs,
         UNCHANGED <<pc, cur, inst, todo, nodePV>> \/ pc' = "idle",
         readAffinity' \subseteq readAffinity
  PROVE  ReplacementInv'
<1>1. Shown' /\ Steady(ids)
  BY OneStepSteady DEF ReplacementInv
<1>2. ASSUME NEW c \in CR
      PROVE  /\ job'.ids \subseteq Ids(store'[c]) /\ Purged' \subseteq Ids(store'[c])
             /\ DevicesOK(store'[c], LeftOver', GoneSet', Live', readAffinity')
  <2>1. store[c] \in StartedStatus
    BY DEF TypeInv, ApiInv
  <2>2. Ids(store[c]) \subseteq OSD
    BY <2>1, DeviceIds DEF Ids
  <2>3. /\ job.ids \subseteq Ids(store[c]) /\ Purged \subseteq Ids(store[c])
        /\ DevicesOK(store[c], LeftOver, GoneSet, Live, readAffinity)
    BY DEF ReplacementInv
  <2>4. ids \subseteq Ids(store[c])
    BY <2>3
  <2>5. DevicesOK(store'[c], LeftOver', GoneSet', Live', readAffinity')
    BY <1>1, <2>2, <2>3, <2>4, DevicesStay
  <2>6. job'.ids \subseteq Ids(store'[c]) /\ Purged' \subseteq Ids(store'[c])
    BY <1>1, <2>3, <2>4 DEF Steady
  <2> QED BY <2>5, <2>6
<1>3. ASSUME pc' # "idle"
      PROVE  /\ Ids(store'[cur']) \subseteq Ids(inst')
             /\ DevicesOK(inst', LeftOver', GoneSet', Live', readAffinity')
             /\ pc' = "scale" =>
                  /\ LeftOver' \subseteq todo' \cup getOSDIDsFromNodeDevices(nodePV')
                                          \cup Current(inst')
                  /\ readAffinity' \subseteq Rejected(inst')
  <2>0. UNCHANGED <<pc, cur, inst, todo, nodePV>> /\ pc # "idle"
    BY <1>3
  <2>1. PICK me \in CR : me = cur
    BY <2>0 DEF TypeInv, WorkerInv
  <2>2. /\ job.ids \subseteq Ids(store[me]) /\ Ids(store[me]) \subseteq Ids(inst)
        /\ DevicesOK(inst, LeftOver, GoneSet, Live, readAffinity) /\ RecordOK(inst, Purged)
    BY <2>0, <2>1 DEF ReplacementInv, RemovalInv
  <2>3. inst \in StartedStatus /\ inst.startTime /\ Ids(inst) \subseteq OSD
    BY <2>0, DeviceIds DEF TypeInv, WorkerInv, Ids
  <2>4. ids \subseteq Ids(inst)
    BY <2>2
  <2>5. DevicesOK(inst, LeftOver', GoneSet', Live', readAffinity')
    BY <1>1, <2>2, <2>3, <2>4, DevicesStay
  <2>6. ASSUME pc = "scale"
        PROVE  /\ LeftOver' \subseteq todo \cup getOSDIDsFromNodeDevices(nodePV) \cup Current(inst)
               /\ readAffinity' \subseteq Rejected(inst)
    <3>1. Latest(inst) = "ManageCrashLoopBackOffPods"
      BY <2>3, <2>6 DEF CopyInv, Latest, Started
    <3>2. ids = {}
      BY <2>2, <2>4, <3>1 DEF RecordOK, BeforeRemoval
    <3>3. /\ LeftOver \subseteq todo \cup getOSDIDsFromNodeDevices(nodePV) \cup Current(inst)
          /\ readAffinity \subseteq Rejected(inst)
      BY <2>6 DEF ReplacementInv
    <3> QED BY <1>1, <3>2, <3>3 DEF Steady
  <2>7. Ids(store'[cur']) \subseteq Ids(inst')
    BY <2>0, <2>1, <2>2
  <2> QED BY <2>0, <2>5, <2>6, <2>7
<1> QED BY <1>1, <1>2, <1>3 DEF ReplacementInv

\* Steps of the environment.
LEMMA EnvironmentReplacement ==
  ASSUME TypeInv, JobInv, CopyInv, RemovalInv, ReplacementInv, IsFiniteSet(OSD),
         OverPVC \subseteq OSD, Environment, readAffinity' \subseteq readAffinity
  PROVE  ReplacementInv'
<1>a. ASSUME UNCHANGED clusterVars,
             \A c \in CR : store'[c] \in {store[c], Older(store[c])},
             UNCHANGED <<pc, cur, inst, todo, nodePV>>
      PROVE  ReplacementInv'
  <2>1. UNCHANGED <<pod, term, replicas, pv, seen, job>>
    BY <1>a DEF clusterVars, podVars, miscVars, jobVars
  <2>2. OneStep({}) /\ PodsUp'
    BY <2>1, NoOSDStep DEF ReplacementInv, PodsUp
  <2>3. ASSUME NEW c \in CR
        PROVE  /\ Ids(store'[c]) = Ids(store[c]) /\ Latest(store'[c]) = Latest(store[c])
               /\ store'[c].operationalOSDIDs = store[c].operationalOSDIDs
    <3>1. store[c] \in StartedStatus
      BY DEF TypeInv, ApiInv
    <3> QED BY <1>a, <3>1, OlderSame DEF SamePlace, SameFlags, Ids
  <2>4. {} \in SUBSET job.ids /\ job'.ids = job.ids
    BY <2>1
  <2> QED BY <1>a, <2>2, <2>3, <2>4, ReplacementFrame
<1>1. CASE ClusterNext /\ UNCHANGED <<apiVars, queue, workerVars, metrics, restartOwed>>
  <2>1. OneStep(job.ids) /\ PodsUp' /\ job'.ids = job.ids
    BY <1>1, ClusterOneStep, ClusterKeepsPods DEF ReplacementInv
  <2>2. UNCHANGED <<store, pc, cur, inst, todo, nodePV>>
    BY <1>1 DEF apiVars, workerVars
  <2> QED BY <2>1, <2>2, ReplacementFrame
<1>2. CASE \E c \in CR : CreateCR(c) \/ DeleteCR(c) \/ Touch(c) \/ CacheSync(c)
  <2>1. UNCHANGED <<clusterVars, store, pc, cur, inst, todo, nodePV>>
    BY <1>2 DEF CreateCR, DeleteCR, Touch, CacheSync, workerVars
  <2> QED BY <1>a, <2>1
<1>3. ASSUME NEW d \in CR, Tick(d) PROVE ReplacementInv'
  <2>1. \A c \in CR : store'[c] \in {store[c], Older(store[c])}
    BY <1>3 DEF Tick, TypeInv, ApiInv
  <2>2. UNCHANGED <<clusterVars, pc, cur, inst, todo, nodePV>>
    BY <1>3 DEF Tick, workerVars
  <2> QED BY <1>a, <2>1, <2>2
<1>4. CASE OperatorRestart
  <2>1. OneStep({}) /\ UNCHANGED <<pod, term, replicas, pv>>
    BY <1>4, RestartOneStep
  <2>2. UNCHANGED <<store, job>> /\ pc' = "idle"
    BY <1>4 DEF OperatorRestart, Idle, jobVars
  <2>3. PodsUp' /\ {} \in SUBSET job.ids
    BY <2>1 DEF ReplacementInv, PodsUp
  <2> QED BY <2>1, <2>2, <2>3, ReplacementFrame
<1> QED BY <1>1, <1>2, <1>3, <1>4 DEF Environment

\* The worker takes a resource, leaves one alone, or saves its copy.  What it
\* takes is the stored status: no reconciliation starts on a stale cache.
LEMMA ReconcileReplacement ==
  ASSUME TypeInv, CopyInv, FreshInv, RemovalInv, ReplacementInv, IsFiniteSet(OSD),
         OverPVC \subseteq OSD, \A c, d \in CR : c = d, "stale" \notin Faults,
         readAffinity' \subseteq readAffinity
  PROVE  /\ \A c \in CR : Start(c) \/ Ignore(c) => ReplacementInv'
         /\ StatusUpdate \/ StatusUpdateFails => ReplacementInv'
<1>a. ASSUME UNCHANGED clusterVars
      PROVE  /\ UNCHANGED <<LeftOver, GoneSet, Live, readAffinity, Purged>>
             /\ UNCHANGED job /\ PodsUp' /\ Shown' /\ OneStep({})
  <2>1. UNCHANGED <<pod, term, replicas, pv, nodeAffinityFailed, seen, job>>
    BY <1>a DEF clusterVars, podVars, miscVars, jobVars
  <2>2. readPod' = readPod /\ readAffinity' = readAffinity
    BY <2>1 DEF readPod, readAffinity
  <2>3. UNCHANGED <<LeftOver, GoneSet, Live, readAffinity, Purged>>
    BY <2>1, <2>2 DEF LeftOver, GoneSet, Live, Purged
  <2>4. PodsUp' /\ Shown'
    BY <2>1, <2>2 DEF PodsUp, Shown, ReplacementInv
  <2> QED BY <2>1, <2>3, <2>4, NoOSDStep
<1>1. ASSUME NEW me \in CR, Start(me) PROVE ReplacementInv'
  <2>1. /\ UNCHANGED <<clusterVars, store>> /\ pc' = "reconcile" /\ cur' = me
        /\ inst' = Begun(cache[me]) /\ synced[me]
    BY <1>1 DEF Start, Begun, apiVars
  <2>2. cache[me] = store[me] /\ store[me] \in StartedStatus /\ WellKept(store[me])
    BY <2>1 DEF FreshInv, TypeInv, ApiInv, CopyInv
  <2>3. Ids(inst') = Ids(store[me])
    BY <2>1, <2>2, BegunFacts DEF SameFacts
  <2>4. DevicesOK(inst', LeftOver, GoneSet, Live, readAffinity)
    <3>1. CASE store[me].startTime
      BY <2>1, <2>2, <3>1 DEF Begun, ReplacementInv
    <3>2. CASE ~store[me].startTime
      <4>1. Ids(store[me]) = {}
        BY <2>2, <3>2, EmptyRecord DEF WellKept
      <4> QED BY <2>3, <4>1 DEF DevicesOK
    <3> QED BY <3>1, <3>2
  <2>5. /\ UNCHANGED <<LeftOver, GoneSet, Live, readAffinity, Purged>>
        /\ UNCHANGED job /\ PodsUp' /\ Shown'
    BY <1>a, <2>1
  <2>6. \A c \in CR : /\ job'.ids \subseteq Ids(store'[c]) /\ Purged' \subseteq Ids(store'[c])
                      /\ DevicesOK(store'[c], LeftOver', GoneSet', Live', readAffinity')
    BY <2>1, <2>5 DEF ReplacementInv
  <2>7. /\ Ids(store'[cur']) \subseteq Ids(inst') /\ pc' # "scale"
        /\ DevicesOK(inst', LeftOver', GoneSet', Live', readAffinity')
    BY <2>1, <2>3, <2>4, <2>5
  <2> QED BY <2>5, <2>6, <2>7 DEF ReplacementInv
<1>2. ASSUME NEW c \in CR, Ignore(c) PROVE ReplacementInv'
  <2>1. UNCHANGED <<clusterVars, store, pc, cur, inst, todo, nodePV>>
    BY <1>2 DEF Ignore, apiVars, workerVars
  <2>2. PodsUp' /\ OneStep({}) /\ job' = job /\ {} \in SUBSET job.ids
    BY <1>a, <2>1
  <2> QED BY <2>1, <2>2, ReplacementFrame
<1>3. CASE StatusUpdateFails
  <2>1. UNCHANGED <<clusterVars, store>> /\ pc' = "idle"
    BY <1>3 DEF StatusUpdateFails, apiVars, Idle
  <2>2. PodsUp' /\ OneStep({}) /\ job' = job /\ {} \in SUBSET job.ids
    BY <1>a, <2>1
  <2> QED BY <2>1, <2>2, ReplacementFrame
<1>4. CASE StatusUpdate
  <2>1. PICK me \in CR : me = cur
    BY <1>4 DEF StatusUpdate, TypeInv, WorkerInv
  <2>2. /\ UNCHANGED clusterVars /\ pc = "update" /\ pc' = "idle"
        /\ store' = [store EXCEPT ![me] = inst]
    BY <1>4, <2>1 DEF StatusUpdate, Idle
  <2>3. \A c \in CR : store'[c] = inst
    BY <2>2 DEF TypeInv, ApiInv
  <2>4. /\ UNCHANGED <<LeftOver, GoneSet, Live, readAffinity, Purged>>
        /\ UNCHANGED job /\ PodsUp' /\ Shown'
    BY <1>a, <2>2
  <2>5. /\ job.ids \subseteq Ids(inst) /\ Purged \subseteq Ids(inst)
        /\ DevicesOK(inst, LeftOver, GoneSet, Live, readAffinity)
    BY <2>1, <2>2 DEF ReplacementInv
  <2>6. \A c \in CR : /\ job'.ids \subseteq Ids(store'[c]) /\ Purged' \subseteq Ids(store'[c])
                      /\ DevicesOK(store'[c], LeftOver', GoneSet', Live', readAffinity')
    BY <2>3, <2>4, <2>5
  <2> QED BY <2>2, <2>4, <2>6 DEF ReplacementInv
<1> QED BY <1>1, <1>2, <1>3, <1>4
\* Every recovery starts with nothing recorded and no OSD taken down.
LEMMA ReplacementInit == Init => ReplacementInv
<1> SUFFICES ASSUME Init PROVE ReplacementInv
  OBVIOUS
<1>1. /\ pc = "idle" /\ job.ids = {} /\ \A c \in CR : Ids(store[c]) = {}
  BY EmptyRecord DEF Init, ClusterInit, NoJob
<1>2. /\ \A o \in OSD : pod[o] = "none" <=> o \in Spare
      /\ term = [o \in OSD |-> 0]
      /\ replicas = [o \in OSD |-> IF o \in Spare THEN 0 ELSE 1]
      /\ pv = [o \in OSD |-> IF o \in Spare THEN "Unused" ELSE "Bound"]
  BY DEF Init, ClusterInit
<1>3. PodsUp
  <2>1. \A o \in OSD : term[o] = 0 /\ term[o] \in 0..2
    BY <1>2, TypeInit DEF TypeInv, ClusterTypeOK
  <2>2. \A o \in OSD : term[o] > 0 => FALSE
    BY <2>1
  <2>3. \A o \in OSD : o \in Spare => pv[o] = "Unused"
    BY <1>2
  <2> QED BY <1>2, <2>2, <2>3 DEF PodsUp
<1>4. Shown
  <2>1. \A o \in OSD : o \notin Spare => replicas[o] = 1 /\ pv[o] = "Bound"
    BY <1>2
  <2>2. readPod = pod
    BY DEF Init, ClusterInit, readPod
  <2> QED BY <1>2, <2>1, <2>2 DEF Shown
<1>5. Purged = {}
  <2>1. \A o \in OSD : pv[o] \in {"Unused", "Bound"}
    BY <1>2
  <2> QED BY <2>1 DEF Purged
<1> QED BY <1>1, <1>3, <1>4, <1>5 DEF ReplacementInv, DevicesOK

LEMMA ReplacementInvCorrect ==
  ASSUME \A c, d \in CR : c = d, IsFiniteSet(OSD), "stale" \notin Faults, Rejectable = {}
  PROVE  Spec => []ReplacementInv
<1>1. /\ TypeInv /\ JobInv /\ CopyInv /\ FreshInv /\ RemovalInv /\ RejectedInv
      /\ ReplacementInv /\ [Next]_vars
      => ReplacementInv'
  <2> SUFFICES ASSUME TypeInv, JobInv, CopyInv, FreshInv, RemovalInv, RejectedInv,
                      ReplacementInv, [Next]_vars
               PROVE  ReplacementInv'
    OBVIOUS
  <2>0. OverPVC \subseteq OSD /\ readAffinity' \subseteq readAffinity
    BY ClusterAssumption, RejectedStep DEF RejectedInv
  <2>1. CASE Handler
    BY <2>0, <2>1, HandlerReplacement
  <2>2. CASE Environment
    BY <2>0, <2>2, EnvironmentReplacement
  <2>3. CASE \/ \E c \in CR : Start(c) \/ Ignore(c)
             \/ StatusUpdate \/ StatusUpdateFails
    BY <2>0, <2>3, ReconcileReplacement
  <2>4. CASE UNCHANGED vars
    <3>1. UNCHANGED <<pod, term, replicas, pv, seen, job, store, pc, cur, inst, todo, nodePV>>
      BY <2>4 DEF vars, clusterVars, podVars, miscVars, jobVars, apiVars, workerVars
    <3>2. OneStep({}) /\ PodsUp' /\ {} \in SUBSET job.ids
      BY <3>1, NoOSDStep DEF ReplacementInv, PodsUp
    <3> QED BY <2>0, <3>1, <3>2, ReplacementFrame
  <2> QED BY <2>1, <2>2, <2>3, <2>4 DEF Next
<1> QED BY <1>1, ReplacementInit, TypeCorrect, JobInvCorrect, FlowInvCorrect, RemovalInvCorrect,
           RejectedInvCorrect, PTL DEF Spec

\* What the invariant says of a stored status past the replacement.
LEMMA ReplacementFacts ==
  ASSUME TypeInv, ReplacementInv, IsFiniteSet(OSD), NEW c \in CR,
         Latest(store[c]) \in AfterReplacement
  PROVE  Cardinality(boundOSDPods \ RecordedOSDs(store[c])) >= Cardinality(Ids(store[c]))
<1> DEFINE failed == Ids(store[c])
           old    == RecordedOSDs(store[c])
<1>0. OverPVC \subseteq OSD
  BY ClusterAssumption
<1>1. boundOSDPods \ old \in SUBSET OSD
  BY <1>0 DEF boundOSDPods
<1>2. IsFiniteSet(boundOSDPods \ old) /\ Cardinality(boundOSDPods \ old) \in Nat
  BY <1>1, FS_Subset, FS_CardinalityType
<1>3. CASE failed = {}
  <2>1. Cardinality(failed) = 0
    BY <1>3, FS_EmptySet
  <2> QED BY <1>2, <2>1
<1>4. CASE failed # {}
  <2>1. EnoughNew(store[c], Live)
    BY <1>4 DEF ReplacementInv, DevicesOK
  <2>2. Live \subseteq boundOSDPods
    BY <1>0 DEF Live, boundOSDPods, ReplacementInv, PodsUp
  <2>3. Live \ old \subseteq boundOSDPods \ old
    BY <2>2
  <2>4. /\ IsFiniteSet(Live \ old) /\ Cardinality(Live \ old) \in Nat
        /\ Cardinality(Live \ old) <= Cardinality(boundOSDPods \ old)
    BY <1>2, <2>3, FS_Subset, FS_CardinalityType
  <2>5. failed \subseteq OSD
    <3>1. store[c] \in StartedStatus
      BY DEF TypeInv, ApiInv
    <3> QED BY <3>1, DeviceIds DEF Ids
  <2>6. Cardinality(failed) \in Nat
    BY <2>5, FS_Subset, FS_CardinalityType
  <2>7. Cardinality(Live \ old) >= Cardinality(failed)
    BY <2>1 DEF EnoughNew
  <2> HIDE DEF failed, old
  <2>8. Cardinality(boundOSDPods \ old) >= Cardinality(failed)
    BY <1>2, <2>4, <2>6, <2>7
  <2> QED BY <2>8 DEF failed, old
<1> QED BY <1>3, <1>4

(***************************************************************************)
(* A recovery that is the only one goes on past the wait for the volumes   *)
(* only with as many new OSDs up as failed, and they stay up: whatever     *)
(* calls fail, deadlines pass and restarts of the operator come between,   *)
(* however far the informers of pods, claims and volumes lag, and whatever *)
(* pods were rejected, and not yet deleted, before it began.  No pod must  *)
(* be rejected after that: expectedPVCs does not know of it, and it would  *)
(* be counted for a new OSD.  The cache of the resource itself must not be *)
(* stale: a reconciliation that has not seen its own update would take     *)
(* down OSDs it cannot record.                                             *)
(***************************************************************************)
THEOREM ReplacementsUpCorrect ==
  ASSUME \A c, d \in CR : c = d, IsFiniteSet(OSD), "stale" \notin Faults, Rejectable = {}
  PROVE  Spec => []ReplacementsUp
<1>1. TypeInv /\ ReplacementInv => ReplacementsUp
  BY ReplacementFacts DEF ReplacementsUp, Ids
<1> QED BY <1>1, TypeCorrect, ReplacementInvCorrect, PTL
===============================================================================
