-------------------------- MODULE NodeRecoveryProofs --------------------------
(***************************************************************************)
(* Type correctness of the operator, lemmas about the status and the       *)
(* helpers that change it, and the OSD removal job, which is only given    *)
(* OSDs that are down: for every set of OSDs, nodes and resources and      *)
(* every combination of faults.                                            *)
(***************************************************************************)
EXTENDS NodeRecoveryProperties, SequenceTheorems, FiniteSetTheorems, TLAPS

\* A status whose condition list is not empty once the recovery has started.
StartedStatus == {s \in NodeRecoveryStatus : s.startTime => s.conditions # <<>>}

\* The status of a new resource is well formed, and records nothing.
LEMMA EmptyStatusType ==
  /\ EmptyStatus \in StartedStatus
  /\ EmptyStatus.nodeDevice = <<>>
  /\ EmptyStatus.conditions = <<>>
  /\ EmptyStatus.startTime = FALSE
<1>1. <<>> \in Seq(RecoveryCondition) /\ <<>> \in Seq(OSD)
  OBVIOUS
<1>2. EmptyStatus \in NodeRecoveryStatus
  BY <1>1 DEF EmptyStatus, NodeRecoveryStatus, RecoveryPhase, Age
<1>3. EmptyStatus.startTime = FALSE
  BY DEF EmptyStatus
<1> QED BY <1>2, <1>3 DEF EmptyStatus, StartedStatus

\* A new condition is a condition, and its status is "True".
LEMMA NewConditionType ==
  ASSUME NEW t \in ConditionType
  PROVE  NewCondition(t) \in RecoveryCondition /\ NewCondition(t).type = t
  BY DEF NewCondition, RecoveryCondition

\* The latest condition has one of the known types.
LEMMA LatestConditionType ==
  ASSUME NEW s \in NodeRecoveryStatus, s.conditions # <<>>
  PROVE  /\ getLatestCondition(s) \in ConditionType
         /\ Len(s.conditions) \in 1..Len(s.conditions)
<1>1. s.conditions \in Seq(RecoveryCondition)
  BY DEF NodeRecoveryStatus
<1>2. Len(s.conditions) \in 1..Len(s.conditions)
  BY <1>1
<1>3. s.conditions[Len(s.conditions)] \in RecoveryCondition
  BY <1>1, <1>2
<1> QED BY <1>2, <1>3 DEF getLatestCondition, RecoveryCondition

\* A status with another condition list, the latest one of age 0.
SetConditions(s, conds) == [s EXCEPT !.conditions = conds, !.age = 0]

\* It is well formed, and differs in nothing else that the proofs look at.
LEMMA SetConditionsType ==
  ASSUME NEW s \in NodeRecoveryStatus, NEW conds \in Seq(RecoveryCondition)
  PROVE  /\ SetConditions(s, conds) \in NodeRecoveryStatus
         /\ SetConditions(s, conds).conditions = conds
         /\ SetConditions(s, conds).nodeDevice = s.nodeDevice
         /\ SetConditions(s, conds).startTime = s.startTime
<1>1. 0 \in Age
  BY DEF Age
<1> QED BY <1>1 DEF NodeRecoveryStatus, SetConditions

\* A transition enters the condition it is given and keeps everything else.
LEMMA TransitionType ==
  ASSUME NEW s \in NodeRecoveryStatus, s.conditions # <<>>,
         NEW t \in ConditionType
  PROVE  LET n == transitionNextCondition(s, t)
         IN  /\ n \in NodeRecoveryStatus
             /\ n.conditions # <<>>
             /\ getLatestCondition(n) = t
             /\ n.nodeDevice = s.nodeDevice
             /\ n.startTime = s.startTime
<1> DEFINE last   == [type |-> getLatestCondition(s), status |-> "False"]
           closed == [s.conditions EXCEPT ![Len(s.conditions)] = last]
           conds  == Append(closed, NewCondition(t))
<1>1. s.conditions \in Seq(RecoveryCondition)
  BY DEF NodeRecoveryStatus
<1>2. last \in RecoveryCondition /\ Len(s.conditions) \in 1..Len(s.conditions)
  BY LatestConditionType DEF RecoveryCondition
<1>3. closed \in Seq(RecoveryCondition)
  BY <1>1, <1>2, ExceptSeq
<1>4. /\ conds \in Seq(RecoveryCondition)
      /\ conds # <<>>
      /\ conds[Len(conds)].type = t
  <2> HIDE DEF closed
  <2> QED BY <1>3, NewConditionType, AppendProperties
<1>5. transitionNextCondition(s, t) = SetConditions(s, conds)
  BY DEF transitionNextCondition, SetConditions
<1> HIDE DEF conds
<1>6. /\ SetConditions(s, conds) \in NodeRecoveryStatus
      /\ SetConditions(s, conds).conditions = conds
      /\ SetConditions(s, conds).nodeDevice = s.nodeDevice
      /\ SetConditions(s, conds).startTime = s.startTime
  BY <1>4, SetConditionsType
<1> QED BY <1>4, <1>5, <1>6 DEF getLatestCondition

\* It flags the condition it leaves "False", leaves the earlier ones as they
\* were and appends one that is "True".
LEMMA TransitionConditions ==
  ASSUME NEW s \in NodeRecoveryStatus, s.conditions # <<>>,
         NEW t \in ConditionType
  PROVE  LET n   == transitionNextCondition(s, t)
             len == Len(s.conditions)
         IN  /\ len \in Nat /\ DOMAIN s.conditions = 1..len
             /\ Len(n.conditions) = len + 1 /\ DOMAIN n.conditions = 1..(len + 1)
             /\ n.conditions[len + 1] = NewCondition(t)
             /\ n.conditions[len].status = "False"
             /\ \A i \in 1..len : n.conditions[i].type = s.conditions[i].type
             /\ \A i \in 1..(len - 1) : n.conditions[i] = s.conditions[i]
<1> DEFINE last   == [type |-> getLatestCondition(s), status |-> "False"]
           len    == Len(s.conditions)
           closed == [s.conditions EXCEPT ![len] = last]
           conds  == Append(closed, NewCondition(t))
<1>1. s.conditions \in Seq(RecoveryCondition)
  BY DEF NodeRecoveryStatus
<1>2. last \in RecoveryCondition /\ len \in 1..len /\ len \in Nat
  BY <1>1, LatestConditionType DEF RecoveryCondition
<1>3. closed \in Seq(RecoveryCondition) /\ Len(closed) = len
  BY <1>1, <1>2, ExceptSeq
<1>4. \A i \in 1..len : closed[i] = IF i = len THEN last ELSE s.conditions[i]
  BY <1>1, <1>2
<1>5. /\ Len(conds) = len + 1 /\ conds[len + 1] = NewCondition(t)
      /\ DOMAIN conds = 1..(len + 1)
      /\ \A i \in 1..len : conds[i] = closed[i]
  <2> HIDE DEF closed
  <2>1. NewCondition(t) \in RecoveryCondition
    BY NewConditionType
  <2>2. conds \in Seq(RecoveryCondition)
    BY <1>3, <2>1, AppendProperties
  <2> QED BY <1>2, <1>3, <2>1, <2>2, AppendProperties, LenProperties
<1>6. transitionNextCondition(s, t).conditions = conds
  <2>1. conds \in Seq(RecoveryCondition)
    BY <1>3, NewConditionType, AppendProperties
  <2>2. transitionNextCondition(s, t) = SetConditions(s, conds)
    BY DEF transitionNextCondition, SetConditions
  <2> HIDE DEF conds
  <2> QED BY <2>1, <2>2, SetConditionsType
<1>7. DOMAIN s.conditions = 1..len
  BY <1>1, LenProperties
<1> HIDE DEF closed, conds
<1>8. \A i \in 1..len : conds[i].type = s.conditions[i].type
  BY <1>2, <1>4, <1>5 DEF getLatestCondition
<1>9. \A i \in 1..(len - 1) : conds[i] = s.conditions[i]
  BY <1>2, <1>4, <1>5
<1>10. conds[len].status = "False"
  BY <1>2, <1>4, <1>5
<1> QED BY <1>2, <1>5, <1>6, <1>7, <1>8, <1>9, <1>10

\* It keeps everything that is not a condition, except the age.
LEMMA TransitionKeeps ==
  ASSUME NEW s \in NodeRecoveryStatus, s.conditions # <<>>,
         NEW t \in ConditionType
  PROVE  LET n == transitionNextCondition(s, t)
         IN  /\ n.phase = s.phase /\ n.age = 0 /\ n.completionTime = s.completionTime
             /\ n.pendingPods = s.pendingPods
             /\ n.crashLoopBackOffPods = s.crashLoopBackOffPods
             /\ n.keepCephToolsPod = s.keepCephToolsPod
             /\ n.operationalOSDIDs = s.operationalOSDIDs
             /\ n.forcedOSDRemoval = s.forcedOSDRemoval
  BY DEF NodeRecoveryStatus, transitionNextCondition

\* Starting a recovery enters the first condition and records nothing else.
LEMMA InitStatusType ==
  ASSUME NEW s \in StartedStatus
  PROVE  /\ initStatus(s) \in StartedStatus
         /\ initStatus(s).startTime
         /\ initStatus(s).conditions # <<>>
         /\ getLatestCondition(initStatus(s)) = "EnableCephToolsPod"
         /\ initStatus(s).nodeDevice = s.nodeDevice
<1> DEFINE conds == Append(s.conditions, NewCondition("EnableCephToolsPod"))
<1>1. s \in NodeRecoveryStatus /\ s.conditions \in Seq(RecoveryCondition)
  BY DEF StartedStatus, NodeRecoveryStatus
<1>2. "EnableCephToolsPod" \in ConditionType
  BY DEF ConditionType
<1>3. /\ conds \in Seq(RecoveryCondition)
      /\ conds # <<>>
      /\ conds[Len(conds)].type = "EnableCephToolsPod"
  BY <1>1, <1>2, NewConditionType, AppendProperties
<1>4. initStatus(s) = [s EXCEPT !.startTime = TRUE, !.phase = "Running", !.conditions = conds]
  BY DEF initStatus
<1> HIDE DEF conds
<1> QED
  BY <1>1, <1>3, <1>4 DEF StartedStatus, NodeRecoveryStatus, RecoveryPhase, getLatestCondition

\* Ageing changes only the age, and keeps it in its range.
LEMMA OlderType ==
  ASSUME NEW s \in StartedStatus
  PROVE  /\ Older(s) \in StartedStatus
         /\ Older(s).conditions = s.conditions
         /\ Older(s).nodeDevice = s.nodeDevice
  BY DEF StartedStatus, NodeRecoveryStatus, Older, Age, reconciliationTimeout

-------------------------------------------------------------------------------
(***************************************************************************)
(* Type correctness.  TypeOK is not inductive: a handler extends the       *)
(* condition list of its copy at its last element, so the copy must have   *)
(* one, and so must every started status it can have been read from.       *)
(***************************************************************************)
ApiInv ==
  /\ api \in [CR -> {"absent", "live", "deleted"}]
  /\ view \in [CR -> BOOLEAN]
  /\ store \in [CR -> StartedStatus]
  /\ cache \in [CR -> StartedStatus]
  /\ synced \in [CR -> BOOLEAN]
  /\ queue \subseteq CR

WorkerInv ==
  /\ pc \in {"idle", "reconcile", "enable", "scale", "create", "update"}
  /\ cur \in CR \union {NoCR}
  /\ pc # "idle" => cur \in CR /\ inst.startTime
  /\ inst \in StartedStatus
  /\ fresh \in BOOLEAN
  /\ todo \subseteq OSD
  /\ nodePV \in Seq(OSD)
  /\ result \in {"requeue", "error", "done"}

CountInv == metrics \in Metrics /\ restartOwed \subseteq CR

TypeInv == ClusterTypeOK /\ ApiInv /\ WorkerInv /\ CountInv

\* The inductive invariant is at least as strong as the type invariant.
LEMMA TypeInvImpliesTypeOK == TypeInv => TypeOK
<1> SUFFICES ASSUME TypeInv PROVE TypeOK
  OBVIOUS
<1>1. StartedStatus \subseteq NodeRecoveryStatus
  BY DEF StartedStatus
<1> QED
  BY <1>1 DEF TypeInv, TypeOK, ApiInv, WorkerInv, CountInv

\* It holds initially.
LEMMA TypeInit == Init => TypeInv
<1> SUFFICES ASSUME Init PROVE TypeInv
  OBVIOUS
<1>1. ClusterTypeOK
  <2>1. /\ pod \in [OSD -> PodState] /\ term \in [OSD -> 0..2]
        /\ replicas \in [OSD -> 0..1]
        /\ pv \in [OSD -> VolumePhase]
    <3>1. InitialPodStates \union {"none"} \subseteq PodState
      BY ClusterAssumption DEF PodState
    <3>2. pod \in [OSD -> InitialPodStates \union {"none"}]
      BY DEF Init, ClusterInit
    <3> QED BY <3>1, <3>2 DEF Init, ClusterInit, VolumePhase
  <2>2. /\ ocp \in Version /\ toolsSpec \in [ToolsObject -> BOOLEAN]
        /\ userTools \in [ToolsObject -> BOOLEAN]
    BY ClusterAssumption DEF Init, ClusterInit
  <2>3. job \in RemovalJob /\ jobPod \in JobPodState /\ toolsPod \in ToolsPhase
    BY DEF Init, ClusterInit, RemovalJob, NoJob, JobPodState, ToolsPhase
  <2>4. nodeAffinityFailed \subseteq OSD
    BY ClusterAssumption DEF Init, ClusterInit
  <2>5. seen \in View
    BY <2>1, <2>3, <2>4 DEF Init, ClusterInit, View, boundClaims
  <2> QED
    BY <2>1, <2>2, <2>3, <2>4, <2>5 DEF Init, ClusterInit, ClusterTypeOK
<1>2. ApiInv
  BY EmptyStatusType DEF Init, ApiInv
<1>3. WorkerInv
  <2>1. <<>> \in Seq(OSD)
    OBVIOUS
  <2> QED BY <2>1, EmptyStatusType DEF Init, WorkerInv
<1>4. CountInv
  <2>1. 0 \in Count
    BY ControllerAssumption DEF Count
  <2> QED BY <2>1 DEF Init, CountInv, ZeroMetrics, Metrics
<1> QED BY <1>1, <1>2, <1>3, <1>4 DEF TypeInv

\* A handler that returns leaves the worker with a well-formed status.
LEMMA ReturnType ==
  ASSUME ApiInv, WorkerInv, pc # "idle",
         NEW s \in StartedStatus, s.startTime,
         NEW r \in {"requeue", "error", "done"}, Return(s, r)
  PROVE  ApiInv' /\ WorkerInv'
<1>1. <<>> \in Seq(OSD)
  OBVIOUS
<1> QED BY <1>1 DEF Return, ApiInv, WorkerInv, apiVars

\* So does one that moves on to another condition.
LEMMA AdvanceType ==
  ASSUME ApiInv, WorkerInv, pc # "idle",
         NEW s \in StartedStatus, s.startTime,
         NEW t \in ConditionType, Advance(s, t)
  PROVE  ApiInv' /\ WorkerInv'
<1>1. s \in NodeRecoveryStatus /\ s.conditions # <<>>
  BY DEF StartedStatus
<1> DEFINE n == transitionNextCondition(s, t)
<1>2. n \in NodeRecoveryStatus /\ n.conditions # <<>> /\ n.startTime
  BY <1>1, TransitionType
<1>3. n \in StartedStatus
  BY <1>2 DEF StartedStatus
<1>4. Return(n, "requeue")
  BY DEF Advance
<1> HIDE DEF n
<1> QED BY <1>2, <1>3, <1>4, ReturnType

\* An idle worker is well formed.
LEMMA IdleType == ASSUME Idle PROVE WorkerInv'
<1>1. <<>> \in Seq(OSD)
  OBVIOUS
<1> QED BY <1>1, EmptyStatusType DEF Idle, WorkerInv

\* A handler that goes on keeps what it holds.
LEMMA GoOnType ==
  ASSUME ApiInv, WorkerInv, pc # "idle", NEW where \in {"enable", "create"},
         GoOn(where)
  PROVE  ApiInv' /\ WorkerInv'
  BY DEF GoOn, ApiInv, WorkerInv, apiVars

\* Informers that catch up show objects of the right types.
LEMMA SnapshotType ==
  ASSUME ClusterTypeOK, NEW kinds
  PROVE  Snapshot(kinds) \in View
<1>1. /\ seen \in View /\ pod \in [OSD -> PodState] /\ term \in [OSD -> 0..2]
      /\ toolsPod \in ToolsPhase /\ jobPod \in JobPodState
      /\ nodeAffinityFailed \in SUBSET OSD /\ pv \in [OSD -> VolumePhase]
      /\ job.exists \in BOOLEAN
  BY DEF ClusterTypeOK, RemovalJob
<1>2. boundClaims \in SUBSET OSD
  BY DEF boundClaims
<1> QED BY <1>1, <1>2 DEF Snapshot, View

\* The operator's calls and the steps of the cluster keep the cluster's types.
LEMMA ClusterCallsType ==
  ASSUME ClusterTypeOK
  PROVE  /\ NoCall => ClusterTypeOK'
         /\ \A b \in BOOLEAN : setEnableCephToolsValue(b) => ClusterTypeOK'
         /\ \A nodes \in SUBSET Node : labelNodesWithPodsInPendingState(nodes) => ClusterTypeOK'
         /\ \A o \in OSD : scaleRookCephOSDDeploymentToZero(o) => ClusterTypeOK'
         /\ \A ids \in SUBSET OSD : forceDeleteRookCephOSDPods(ids) => ClusterTypeOK'
         /\ deleteOldOSDRemovalJob => ClusterTypeOK'
         /\ deleteOldOSDRemovalJobFails => ClusterTypeOK'
         /\ \A ids \in SUBSET OSD, b \in BOOLEAN :
              processOCSOSDRemovalTemplate(ids, b) => ClusterTypeOK'
         /\ \A ids \in SUBSET OSD : deletePVs(ids) => ClusterTypeOK'
         /\ \A pods : deleteFailedPodsWithReasonNodeAffinity(pods) => ClusterTypeOK'
         /\ archiveCephDaemonCrashMessages => ClusterTypeOK'
<1> USE DEF ClusterTypeOK, podVars, miscVars, toolsVars, jobVars
<1>1. NoCall => ClusterTypeOK'
  BY DEF NoCall, clusterVars
<1>2. \A b \in BOOLEAN : setEnableCephToolsValue(b) => ClusterTypeOK'
  BY DEF setEnableCephToolsValue
<1>3. \A nodes \in SUBSET Node : labelNodesWithPodsInPendingState(nodes) => ClusterTypeOK'
  BY DEF labelNodesWithPodsInPendingState
<1>4. \A o \in OSD : scaleRookCephOSDDeploymentToZero(o) => ClusterTypeOK'
  BY DEF scaleRookCephOSDDeploymentToZero
<1>5. \A ids \in SUBSET OSD : forceDeleteRookCephOSDPods(ids) => ClusterTypeOK'
  BY DEF forceDeleteRookCephOSDPods, PodState
<1>6. deleteOldOSDRemovalJob => ClusterTypeOK'
  <2>1. NoJob \in RemovalJob /\ "none" \in JobPodState
    BY DEF NoJob, RemovalJob, JobPodState
  <2>2. seen \in View => [seen EXCEPT !.jobPodExists = FALSE] \in View
    BY DEF View
  <2> QED BY <2>1, <2>2 DEF deleteOldOSDRemovalJob
<1>7. deleteOldOSDRemovalJobFails => ClusterTypeOK'
  BY DEF deleteOldOSDRemovalJobFails, RemovalJob
<1>8. \A ids \in SUBSET OSD, b \in BOOLEAN :
        processOCSOSDRemovalTemplate(ids, b) => ClusterTypeOK'
  BY DEF processOCSOSDRemovalTemplate, RemovalJob
<1>9. \A ids \in SUBSET OSD : deletePVs(ids) => ClusterTypeOK'
  BY DEF deletePVs, VolumePhase
<1>10. \A pods : deleteFailedPodsWithReasonNodeAffinity(pods) => ClusterTypeOK'
  BY DEF deleteFailedPodsWithReasonNodeAffinity
<1>11. archiveCephDaemonCrashMessages => ClusterTypeOK'
  BY DEF archiveCephDaemonCrashMessages
<1> HIDE DEF ClusterTypeOK, podVars, miscVars, toolsVars, jobVars
<1> QED
  BY <1>1, <1>2, <1>3, <1>4, <1>5, <1>6, <1>7, <1>8, <1>9, <1>10, <1>11

\* So do the steps of the cluster itself.
LEMMA ClusterNextType ==
  ASSUME ClusterTypeOK, ClusterNext
  PROVE  ClusterTypeOK'
<1> USE DEF ClusterTypeOK, podVars, miscVars, toolsVars, jobVars
<1>1. CASE ToolsPodChanges
  BY <1>1 DEF ToolsPodChanges, ToolsPhase
<1>2. CASE ClusterUpgrades
  BY <1>2 DEF ClusterUpgrades, Version
<1>3. ASSUME NEW o \in OSD, PodChanges(o) PROVE ClusterTypeOK'
  BY <1>3 DEF PodChanges
<1>4. ASSUME NEW o \in OSD, PodTerminates(o) PROVE ClusterTypeOK'
  BY <1>4 DEF PodTerminates
<1>5. ASSUME NEW o \in OSD, MinutePasses(o) PROVE ClusterTypeOK'
  <2>1. [seen EXCEPT !.term[o] = IF @ = 1 THEN 2 ELSE @] \in View
    BY DEF View
  <2>2. [term EXCEPT ![o] = IF @ = 1 THEN 2 ELSE @] \in [OSD -> 0..2]
    OBVIOUS
  <2> QED BY <1>5, <2>1, <2>2 DEF MinutePasses
<1>6. ASSUME NEW o \in OSD, PodGone(o) PROVE ClusterTypeOK'
  BY <1>6 DEF PodGone, PodState
<1>7. ASSUME NEW o \in OSD, NewOSD(o) PROVE ClusterTypeOK'
  BY <1>7 DEF NewOSD, PodState, VolumePhase
<1>8. ASSUME NEW o \in OSD, JobPurges(o) PROVE ClusterTypeOK'
  BY <1>8 DEF JobPurges, PodState, VolumePhase
<1>9. CASE JobPodStarts
  BY <1>9 DEF JobPodStarts, JobPodState
<1>10. CASE JobPodEnds
  <2>1. jobPod' \in JobPodState
    BY <1>10 DEF JobPodEnds, JobPodState
  <2>2. job' \in RemovalJob
    <3> DEFINE complete == job.exists /\ jobPod' \in SucceededPod
    <3>1. complete \in BOOLEAN /\ job' = [job EXCEPT !.complete = complete]
      BY <1>10, Zenon DEF JobPodEnds
    <3> HIDE DEF complete
    <3> QED BY <3>1 DEF RemovalJob
  <2> QED BY <1>10, <2>1, <2>2 DEF JobPodEnds
<1>11. ASSUME NEW kind \in Kind, InformerSync(kind) PROVE ClusterTypeOK'
  BY <1>11, SnapshotType DEF InformerSync
<1>12. ASSUME NEW o \in OSD, PodRejected(o) PROVE ClusterTypeOK'
  BY <1>12 DEF PodRejected, PodState
<1>13. ASSUME NEW o \in OSD, VolumeReleased(o) PROVE ClusterTypeOK'
  BY <1>13 DEF VolumeReleased, VolumePhase
<1> HIDE DEF ClusterTypeOK, podVars, miscVars, toolsVars, jobVars
<1> QED
  BY <1>1, <1>2, <1>3, <1>4, <1>5, <1>6, <1>7, <1>8, <1>9, <1>10, <1>11, <1>12, <1>13
     DEF ClusterNext

\* Counting stays within the bound of the model.
LEMMA IncType ==
  /\ \A n \in Count : Inc(n) \in Count
  /\ \A counter \in [Node -> Count], s \in StartedStatus :
       IncForNodes(counter, s) \in [Node -> Count]
<1>1. \A n \in Count : Inc(n) \in Count
  BY ControllerAssumption DEF Inc, Count
<1>2. ASSUME NEW counter \in [Node -> Count], NEW s \in StartedStatus
      PROVE  IncForNodes(counter, s) \in [Node -> Count]
  <2>1. s.nodeDevice \in Seq(OSD)
    BY DEF StartedStatus, NodeRecoveryStatus
  <2>2. IsFiniteSet(DOMAIN s.nodeDevice)
    <3>1. Len(s.nodeDevice) \in Nat /\ DOMAIN s.nodeDevice = 1..Len(s.nodeDevice)
      BY <2>1
    <3>2. IsFiniteSet(1..Len(s.nodeDevice))
      BY <3>1, FS_Interval
    <3> QED BY <3>1, <3>2
  <2>3. ASSUME NEW n \in Node
        PROVE  Cardinality({i \in DOMAIN s.nodeDevice : NodeOf[s.nodeDevice[i]] = n}) \in Nat
    BY <2>2, FS_Subset, FS_CardinalityType
  <2> QED BY <2>3, ControllerAssumption DEF IncForNodes, Count
<1> QED BY <1>1, <1>2

\* The steps of users, API server, informer and time keep the types.
LEMMA EnvironmentType ==
  ASSUME TypeInv, Environment
  PROVE  TypeInv'
<1> USE DEF TypeInv, CountInv
<1>1. CASE ClusterNext /\ UNCHANGED <<apiVars, queue, workerVars, metrics, restartOwed>>
  BY <1>1, ClusterNextType DEF ApiInv, WorkerInv, apiVars, workerVars
<1>2. ASSUME NEW c \in CR, CreateCR(c) PROVE TypeInv'
  BY <1>2, ClusterCallsType DEF CreateCR, NoCall, ApiInv, WorkerInv, workerVars
<1>3. ASSUME NEW c \in CR, DeleteCR(c) PROVE TypeInv'
  BY <1>3, ClusterCallsType DEF DeleteCR, NoCall, ApiInv, WorkerInv
<1>4. ASSUME NEW c \in CR, Touch(c) PROVE TypeInv'
  BY <1>4, ClusterCallsType DEF Touch, NoCall, ApiInv, WorkerInv
<1>5. ASSUME NEW c \in CR, CacheSync(c) PROVE TypeInv'
  BY <1>5, ClusterCallsType DEF CacheSync, NoCall, ApiInv, WorkerInv, workerVars
<1>6. ASSUME NEW c \in CR, Tick(c) PROVE TypeInv'
  BY <1>6, ClusterCallsType, OlderType DEF Tick, NoCall, ApiInv, WorkerInv, workerVars
<1>7. CASE OperatorRestart
  <2>1. metrics' \in Metrics
    <3>1. 0 \in Count
      BY ControllerAssumption DEF Count
    <3> QED BY <1>7, <3>1 DEF OperatorRestart, ZeroMetrics, Metrics
  <2>2. ClusterTypeOK'
    <3>1. seen' \in View
      BY <1>7, SnapshotType DEF OperatorRestart
    <3> QED BY <1>7, <3>1 DEF OperatorRestart, ClusterTypeOK, podVars, toolsVars, jobVars
  <2> QED BY <1>7, <2>1, <2>2, IdleType DEF OperatorRestart, ApiInv
<1> HIDE DEF TypeInv, CountInv
<1> QED
  BY <1>1, <1>2, <1>3, <1>4, <1>5, <1>6, <1>7 DEF Environment

\* Starting and ending a reconciliation keep the types.
LEMMA ReconcileType ==
  ASSUME TypeInv
  PROVE  /\ \A c \in CR : Start(c) \/ Ignore(c) => TypeInv'
         /\ StatusUpdate \/ StatusUpdateFails => TypeInv'
<1> USE DEF TypeInv, CountInv
<1>1. ASSUME NEW c \in CR, Start(c) PROVE TypeInv'
  <2>1. /\ inst' \in StartedStatus
        /\ inst'.startTime
    BY <1>1, InitStatusType DEF Start, ApiInv
  <2>2. metrics' \in Metrics
    BY <1>1, IncType DEF Start, CountOperand, Metrics
  <2>3. ApiInv' /\ WorkerInv'
    BY <1>1, <2>1 DEF Start, ApiInv, WorkerInv, apiVars
  <2> QED BY <1>1, <2>2, <2>3, ClusterCallsType DEF Start, NoCall
<1>2. ASSUME NEW c \in CR, Ignore(c) PROVE TypeInv'
  BY <1>2, ClusterCallsType DEF Ignore, NoCall, ApiInv, WorkerInv, apiVars, workerVars
<1>3. CASE StatusUpdate
  <2>1. cur \in CR
    BY <1>3 DEF StatusUpdate, WorkerInv
  <2> QED BY <1>3, <2>1, ClusterCallsType, IdleType DEF StatusUpdate, NoCall, ApiInv, WorkerInv
<1>4. CASE StatusUpdateFails
  <2>1. cur \in CR
    BY <1>4 DEF StatusUpdateFails, WorkerInv
  <2> QED BY <1>4, <2>1, ClusterCallsType, IdleType
          DEF StatusUpdateFails, NoCall, ApiInv, WorkerInv, apiVars
<1> HIDE DEF TypeInv, CountInv
<1> QED BY <1>1, <1>2, <1>3, <1>4

\* The ids of the recorded devices are OSDs.
LEMMA DeviceIds ==
  ASSUME NEW s \in StartedStatus
  PROVE  getOSDIDsFromNodeDevices(s.nodeDevice) \in SUBSET OSD
<1>1. s.nodeDevice \in Seq(OSD)
  BY DEF StartedStatus, NodeRecoveryStatus
<1> QED BY <1>1 DEF getOSDIDsFromNodeDevices

\* The handlers keep the types.
LEMMA HandlerType ==
  ASSUME TypeInv, Handler
  PROVE  TypeInv'
<1>a. ClusterTypeOK /\ ApiInv /\ WorkerInv /\ metrics \in Metrics /\ restartOwed \subseteq CR
  BY DEF TypeInv, CountInv
<1>b. inst \in StartedStatus /\ (pc # "idle" => inst.startTime /\ cur \in CR)
  BY <1>a DEF WorkerInv
<1>c. NoCount => CountInv'
  BY <1>a DEF NoCount, CountInv
<1>d. "WaitForCephToolsPodRunning" \in ConditionType
  BY DEF ConditionType
<1>1. CASE ReconciliationTimeout
  <2>1. /\ [inst EXCEPT !.phase = "Failed"] \in StartedStatus
        /\ [inst EXCEPT !.phase = "Failed"].startTime
    BY <1>1, <1>b DEF ReconciliationTimeout, StartedStatus, NodeRecoveryStatus, RecoveryPhase
  <2>2. ApiInv' /\ WorkerInv'
    BY <1>1, <1>a, <2>1, ReturnType DEF ReconciliationTimeout
  <2>3. metrics' \in Metrics
    BY <1>1, <1>a, <1>b, IncType DEF ReconciliationTimeout, Metrics
  <2> QED BY <1>1, <1>a, <2>2, <2>3, ClusterCallsType
          DEF ReconciliationTimeout, TypeInv, CountInv
<1>2. CASE CallFails
  BY <1>2, <1>a, <1>b, <1>c, ReturnType, ClusterCallsType DEF CallFails, TypeInv
<1>3. CASE EnableCephToolsPod
  <2>1. /\ [inst EXCEPT !.keepCephToolsPod = TRUE] \in StartedStatus
        /\ [inst EXCEPT !.keepCephToolsPod = TRUE].startTime
    BY <1>3, <1>b DEF EnableCephToolsPod, At, StartedStatus, NodeRecoveryStatus
  <2>2. ApiInv' /\ WorkerInv'
    BY <1>3, <1>a, <1>d, <2>1, AdvanceType, GoOnType DEF EnableCephToolsPod, At
  <2> QED BY <1>3, <1>a, <1>c, <2>2, ClusterCallsType DEF EnableCephToolsPod, TypeInv
<1>4. CASE enableCephTools
  BY <1>4, <1>a, <1>b, <1>c, <1>d, ReturnType, AdvanceType, ClusterCallsType
     DEF enableCephTools, TypeInv
<1>5. CASE WaitForCephToolsPodRunning
  BY <1>5, <1>a, <1>b, <1>c, ReturnType, AdvanceType, ClusterCallsType
     DEF WaitForCephToolsPodRunning, At, TypeInv, ConditionType
<1>6. CASE WaitForOSDPodsStabilize
  BY <1>6, <1>a, <1>b, <1>c, ReturnType, AdvanceType, ClusterCallsType
     DEF WaitForOSDPodsStabilize, At, TypeInv, ConditionType
<1>7. CASE LabelNodesWithPendingPods
  <2> DEFINE noted == [inst EXCEPT !.pendingPods = TRUE]
             nodes == {NodeOf[o] : o \in getPodsInPendingPhase}
  <2>1. noted \in StartedStatus /\ noted.startTime
    BY <1>7, <1>b DEF LabelNodesWithPendingPods, At, StartedStatus, NodeRecoveryStatus
  <2>2. nodes \subseteq Node
    BY ClusterAssumption DEF getPodsInPendingPhase
  <2>3. "ManageCrashLoopBackOffPods" \in ConditionType /\ pc # "idle" /\ cur \in CR
    BY <1>7, <1>b DEF ConditionType, LabelNodesWithPendingPods, At
  <2> HIDE DEF noted, nodes
  <2>4. /\ \/ NoCall
           \/ \E done \in SUBSET nodes : labelNodesWithPodsInPendingState(done)
        /\ \/ Advance(inst, "ManageCrashLoopBackOffPods")
           \/ Advance(noted, "ManageCrashLoopBackOffPods")
           \/ Return(noted, "error")
        /\ restartOwed' \in {restartOwed, restartOwed \union {cur}}
        /\ metrics' = metrics
    BY <1>7 DEF LabelNodesWithPendingPods, noted, nodes
  <2>5. ApiInv' /\ WorkerInv'
    BY <1>a, <1>b, <2>1, <2>3, <2>4, ReturnType, AdvanceType
  <2>6. ClusterTypeOK'
    BY <1>a, <2>2, <2>4, ClusterCallsType
  <2> QED BY <1>a, <2>3, <2>4, <2>5, <2>6 DEF TypeInv, CountInv
<1>8. CASE ManageCrashLoopBackOffPods
  <2>1. "RestartStorageOperator" \in ConditionType /\ pc # "idle" /\ cur \in CR
    BY <1>8, <1>b DEF ConditionType, ManageCrashLoopBackOffPods, At
  <2>2. ApiInv' /\ WorkerInv' /\ restartOwed' \subseteq CR
    <3>1. CASE failingOSDPods = {}
      BY <1>8, <1>a, <1>b, <2>1, <3>1, AdvanceType DEF ManageCrashLoopBackOffPods
    <3>2. CASE failingOSDPods # {}
      <4> DEFINE ids == IF operationalOSDPods = {} THEN inst.operationalOSDIDs
                        ELSE operationalOSDPods
      <4>1. ids \in SUBSET OSDPod /\ failingOSDPods \subseteq OSD
        BY <1>b DEF operationalOSDPods, failingOSDPods, getOSDPods, StartedStatus,
                    NodeRecoveryStatus
      <4>2. inst' = [inst EXCEPT !.operationalOSDIDs = ids, !.crashLoopBackOffPods = TRUE]
        BY <1>8, <3>2 DEF ManageCrashLoopBackOffPods
      <4> HIDE DEF ids
      <4>3. inst' \in StartedStatus /\ inst'.startTime
        BY <1>b, <2>1, <4>1, <4>2 DEF StartedStatus, NodeRecoveryStatus
      <4> QED BY <1>8, <1>a, <2>1, <3>2, <4>1, <4>3
              DEF ManageCrashLoopBackOffPods, ApiInv, WorkerInv, apiVars
    <3> QED BY <3>1, <3>2
  <2> QED BY <1>8, <1>a, <2>2, ClusterCallsType
          DEF ManageCrashLoopBackOffPods, TypeInv, CountInv
<1>9. ASSUME NEW o \in OSD, handleCrashLoopBackOffPods(o) PROVE TypeInv'
  <2>1. nodePV' \in Seq(OSD)
    BY <1>9, <1>a DEF handleCrashLoopBackOffPods, WorkerInv
  <2>2. ApiInv' /\ WorkerInv'
    BY <1>9, <1>a, <2>1 DEF handleCrashLoopBackOffPods, ApiInv, WorkerInv, apiVars
  <2> QED BY <1>9, <1>a, <1>c, <2>2, ClusterCallsType
          DEF handleCrashLoopBackOffPods, TypeInv
<1>10. CASE handleCrashLoopBackOffPodsFails
  BY <1>10, <1>a, <1>b, <1>c, ReturnType, ClusterCallsType
     DEF handleCrashLoopBackOffPodsFails, TypeInv
<1>11. ASSUME Panic, NoCount, pc # "idle" PROVE TypeInv'
  BY <1>11, <1>a, <1>b, <1>c, IdleType, ClusterCallsType
     DEF Panic, NoCall, ApiInv, TypeInv, apiVars
<1>12. CASE handleCrashLoopBackOffPodsPanics
  BY <1>11, <1>12 DEF handleCrashLoopBackOffPodsPanics
<1>13. CASE ManageDone
  <2>1. nodePV \in Seq(OSD) /\ pc # "idle"
    BY <1>13, <1>a DEF ManageDone, WorkerInv
  <2>2. /\ [inst EXCEPT !.nodeDevice = nodePV] \in StartedStatus
        /\ [inst EXCEPT !.nodeDevice = nodePV].startTime
    BY <1>b, <2>1 DEF StartedStatus, NodeRecoveryStatus
  <2>3. "ForceDeleteRookCephOSDPods" \in ConditionType
    BY DEF ConditionType
  <2>4. ApiInv' /\ WorkerInv'
    BY <1>13, <1>a, <2>1, <2>2, <2>3, AdvanceType DEF ManageDone
  <2> QED BY <1>13, <1>a, <1>c, <2>4, ClusterCallsType DEF ManageDone, TypeInv
<1>14. CASE ForceDeleteRookCephOSDPods
  <2> DEFINE ids == getOSDIDsFromNodeDevices(inst.nodeDevice)
  <2>1. ids \in SUBSET OSD
    BY <1>b, DeviceIds
  <2>2. pc # "idle" /\ NoCount
    BY <1>14 DEF ForceDeleteRookCephOSDPods, At
  <2>3. \/ Panic
        \/ /\ NoCall \/ forceDeleteRookCephOSDPods(ids)
           /\ Return(inst, "requeue") \/ \E t \in ConditionType : Advance(inst, t)
    BY <1>14 DEF ForceDeleteRookCephOSDPods, ConditionType
  <2> HIDE DEF ids
  <2>4. CASE ~Panic
    <3>1. ApiInv' /\ WorkerInv'
      BY <1>a, <1>b, <2>2, <2>3, <2>4, ReturnType, AdvanceType
    <3>2. ClusterTypeOK'
      BY <1>a, <2>1, <2>3, <2>4, ClusterCallsType
    <3> QED BY <1>c, <2>2, <3>1, <3>2 DEF TypeInv
  <2> QED BY <1>11, <2>2, <2>4
<1>15. CASE ProcessOCSRemovalTemplate
  <2>1. ApiInv' /\ WorkerInv'
    BY <1>15, <1>a, <1>b, ReturnType, GoOnType DEF ProcessOCSRemovalTemplate, At
  <2>2. ClusterTypeOK'
    BY <1>15, <1>a, ClusterCallsType DEF ProcessOCSRemovalTemplate, deleteOldOSDRemovalJobErrs
  <2> QED BY <1>15, <1>c, <2>1, <2>2 DEF ProcessOCSRemovalTemplate, TypeInv
<1>16. CASE CreateOSDRemovalJob
  <2> DEFINE forced == Cardinality(getOSDPods) <= MaxForcedPods
             s      == [inst EXCEPT !.forcedOSDRemoval = forced]
             ids    == getOSDIDsFromNodeDevices(inst.nodeDevice)
  <2>1. ids \in SUBSET OSD /\ forced \in BOOLEAN /\ pc # "idle"
    BY <1>16, <1>b, DeviceIds DEF CreateOSDRemovalJob
  <2>2. /\ \/ NoCall
           \/ processOCSOSDRemovalTemplate(ids, forced)
        /\ \/ Advance(s, "CleanupOSDRemovalJob")
           \/ Return(s, "error") \/ Return(inst, "error")
        /\ NoCount
    BY <1>16 DEF CreateOSDRemovalJob
  <2> HIDE DEF forced, ids
  <2>3. s \in StartedStatus /\ s.startTime
    BY <1>b, <2>1 DEF StartedStatus, NodeRecoveryStatus
  <2>4. "CleanupOSDRemovalJob" \in ConditionType
    BY DEF ConditionType
  <2> HIDE DEF s
  <2>5. ApiInv' /\ WorkerInv'
    BY <1>a, <1>b, <2>1, <2>2, <2>3, <2>4, ReturnType, AdvanceType
  <2>6. ClusterTypeOK'
    BY <1>a, <2>1, <2>2, ClusterCallsType
  <2> QED BY <1>c, <2>2, <2>5, <2>6 DEF TypeInv
<1>17. CASE WaitForJob
  <2>1. ApiInv' /\ WorkerInv'
    BY <1>17, <1>a, <1>b, ReturnType DEF WaitForJob, AtJob, At
  <2> QED BY <1>17, <1>a, <1>c, <2>1, ClusterCallsType DEF WaitForJob, TypeInv
<1>18. CASE ReplaceOSDRemovalJob
  <2>1. ApiInv' /\ WorkerInv'
    BY <1>18, <1>a, <1>b, ReturnType, GoOnType DEF ReplaceOSDRemovalJob, At
  <2>2. ClusterTypeOK'
    BY <1>18, <1>a, ClusterCallsType DEF ReplaceOSDRemovalJob, deleteOldOSDRemovalJobErrs
  <2> QED BY <1>18, <1>c, <2>1, <2>2 DEF ReplaceOSDRemovalJob, TypeInv
<1>19. CASE CreateForcedOSDRemovalJob
  <2> DEFINE s   == [inst EXCEPT !.forcedOSDRemoval = TRUE]
             ids == getOSDIDsFromNodeDevices(inst.nodeDevice)
  <2>1. ids \in SUBSET OSD /\ pc # "idle"
    BY <1>19, <1>b, DeviceIds DEF CreateForcedOSDRemovalJob
  <2>2. s \in StartedStatus /\ s.startTime
    BY <1>b, <2>1 DEF StartedStatus, NodeRecoveryStatus
  <2>3. "RetryForceCleanupOSDRemovalJob" \in ConditionType
    BY DEF ConditionType
  <2>4. /\ NoCall \/ processOCSOSDRemovalTemplate(ids, TRUE)
        /\ Advance(s, "RetryForceCleanupOSDRemovalJob") \/ Return(inst, "error")
        /\ NoCount
    BY <1>19 DEF CreateForcedOSDRemovalJob
  <2> HIDE DEF s, ids
  <2>5. ApiInv' /\ WorkerInv'
    BY <1>a, <1>b, <2>1, <2>2, <2>3, <2>4, ReturnType, AdvanceType
  <2>6. ClusterTypeOK'
    BY <1>a, <2>1, <2>4, ClusterCallsType
  <2> QED BY <1>c, <2>4, <2>5, <2>6 DEF TypeInv
<1>20. CASE RetryTimedOut \/ validateJobLogs
  <2>1. /\ [inst EXCEPT !.phase = "Failed"] \in StartedStatus
        /\ [inst EXCEPT !.phase = "Failed"].startTime
    BY <1>20, <1>b DEF RetryTimedOut, validateJobLogs, AtJob, At, StartedStatus,
                       NodeRecoveryStatus, RecoveryPhase
  <2>2. ApiInv' /\ WorkerInv'
    BY <1>20, <1>a, <2>1, ReturnType DEF RetryTimedOut, validateJobLogs, AtJob, At
  <2> QED BY <1>20, <1>a, <1>c, <2>2, ClusterCallsType
          DEF RetryTimedOut, validateJobLogs, TypeInv
<1>21. CASE JobSucceeded
  <2>1. "WaitForPersistenVolumeBound" \in ConditionType
    BY DEF ConditionType
  <2>2. ApiInv' /\ WorkerInv'
    BY <1>21, <1>a, <1>b, <2>1, ReturnType, AdvanceType DEF JobSucceeded, AtJob, At
  <2>3. ClusterTypeOK'
    BY <1>21, <1>a, ClusterCallsType DEF JobSucceeded, deleteOldOSDRemovalJobErrs
  <2> QED BY <1>21, <1>c, <2>2, <2>3 DEF JobSucceeded, TypeInv
<1>22. CASE WaitForPersistenVolumeBound
  <2> DEFINE ids == getOSDIDsFromNodeDevices(inst.nodeDevice)
  <2>1. ids \in SUBSET OSD /\ pc # "idle" /\ NoCount
    BY <1>22, <1>b, DeviceIds DEF WaitForPersistenVolumeBound, At
  <2>2. /\ NoCall \/ \E gone \in SUBSET ids : deletePVs(gone)
        /\ Return(inst, "requeue") \/ Advance(inst, "RestartStorageOperator")
    BY <1>22 DEF WaitForPersistenVolumeBound
  <2>3. "RestartStorageOperator" \in ConditionType
    BY DEF ConditionType
  <2> HIDE DEF ids
  <2>4. ApiInv' /\ WorkerInv'
    BY <1>a, <1>b, <2>1, <2>2, <2>3, ReturnType, AdvanceType
  <2>5. ClusterTypeOK'
    BY <1>a, <2>1, <2>2, ClusterCallsType
  <2> QED BY <1>c, <2>1, <2>4, <2>5 DEF TypeInv
<1>23. CASE RestartStorageOperator
  <2>1. "DeleteFailedPodsNodeAffinity" \in ConditionType
    BY DEF ConditionType
  <2>2. ApiInv' /\ WorkerInv'
    BY <1>23, <1>a, <1>b, <2>1, AdvanceType DEF RestartStorageOperator, At
  <2>3. CountInv'
    BY <1>23, <1>a DEF RestartStorageOperator, deleteRookCephOperatorPod, CountInv
  <2> QED BY <1>23, <1>a, <2>2, <2>3, ClusterCallsType DEF RestartStorageOperator, TypeInv
<1>24. CASE DeleteFailedPodsNodeAffinity
  <2>1. "StorageClusterFitnessCheck" \in ConditionType
    BY DEF ConditionType
  <2>2. ApiInv' /\ WorkerInv'
    BY <1>24, <1>a, <1>b, <2>1, ReturnType, AdvanceType DEF DeleteFailedPodsNodeAffinity, At
  <2>3. ClusterTypeOK'
    BY <1>24, <1>a, ClusterCallsType DEF DeleteFailedPodsNodeAffinity
  <2> QED BY <1>24, <1>c, <2>2, <2>3 DEF DeleteFailedPodsNodeAffinity, TypeInv
<1>25. CASE StorageClusterFitnessCheck
  <2>1. "DisableCephTools" \in ConditionType
    BY DEF ConditionType
  <2>2. ApiInv' /\ WorkerInv'
    BY <1>25, <1>a, <1>b, <2>1, ReturnType, AdvanceType DEF StorageClusterFitnessCheck, At
  <2>3. ClusterTypeOK'
    BY <1>25, <1>a, ClusterCallsType DEF StorageClusterFitnessCheck
  <2> QED BY <1>25, <1>c, <2>2, <2>3 DEF StorageClusterFitnessCheck, TypeInv
<1>26. CASE DisableCephTools
  <2> DEFINE s == [inst EXCEPT !.phase = "Completed", !.completionTime = TRUE]
  <2>1. pc # "idle" /\ Return(s, "done")
    BY <1>26 DEF DisableCephTools, At
  <2>2. s \in StartedStatus /\ s.startTime
    BY <1>b, <2>1 DEF StartedStatus, NodeRecoveryStatus, RecoveryPhase
  <2> HIDE DEF s
  <2>3. ApiInv' /\ WorkerInv'
    BY <1>a, <2>1, <2>2, ReturnType
  <2>4. metrics' \in Metrics
    BY <1>26, <1>a, <1>b, IncType DEF DisableCephTools, Metrics
  <2>5. ClusterTypeOK'
    BY <1>26, <1>a, ClusterCallsType DEF DisableCephTools
  <2> QED BY <1>26, <1>a, <2>3, <2>4, <2>5 DEF DisableCephTools, TypeInv, CountInv
<1> QED
  BY <1>1, <1>2, <1>3, <1>4, <1>5, <1>6, <1>7, <1>8, <1>9, <1>10, <1>12, <1>13,
     <1>14, <1>15, <1>16, <1>17, <1>18, <1>19, <1>20, <1>21, <1>22, <1>23, <1>24,
     <1>25, <1>26
  DEF Handler

(***************************************************************************)
(* Every reachable state is well typed: no handler, repeated, interrupted  *)
(* or run on an outdated copy, ever works on a status without conditions   *)
(* (getLatestCondition would be out of range) or stores a malformed one.   *)
(***************************************************************************)
THEOREM TypeCorrect == Spec => []TypeInv
<1>1. TypeInv /\ [Next]_vars => TypeInv'
  <2> SUFFICES ASSUME TypeInv, [Next]_vars PROVE TypeInv'
    OBVIOUS
  <2>1. CASE Next
    BY <2>1, EnvironmentType, ReconcileType, HandlerType DEF Next
  <2>2. CASE UNCHANGED vars
    BY <2>2, ClusterCallsType
       DEF vars, NoCall, TypeInv, ApiInv, WorkerInv, CountInv, apiVars, workerVars
  <2> QED BY <2>1, <2>2
<1> QED BY <1>1, TypeInit, PTL DEF Spec

\* Hence the type invariant the runs check.
THEOREM TypeOKCorrect == Spec => []TypeOK
  BY TypeCorrect, TypeInvImpliesTypeOK, PTL

-------------------------------------------------------------------------------

\* OSDs in use that have no pod if the informer shows none: it may lag behind,
\* but it has shown the pod.  Those scaled to zero, and those without a pod.
WatchedSet == {o \in OSD : pv[o] # "Unused" /\ (readPod[o] = "none" => pod[o] = "none")}
ScaledSet  == {o \in WatchedSet : replicas[o] = 0}
DownSet    == {o \in ScaledSet : pod[o] = "none"}

JobConditions == { "ProcessOCSRemovalTemplate", "CleanupOSDRemovalJob",
                   "RetryForceCleanupOSDRemovalJob" }

Ids(s) == getOSDIDsFromNodeDevices(s.nodeDevice)

(***************************************************************************)
(* What a copy of a status, however old, says of the cluster.  The sets    *)
(* only grow, which is why an outdated copy remains true.                  *)
(***************************************************************************)
RemovalOK(s, scaled, down) ==
  /\ Ids(s) \subseteq scaled
  /\ s.conditions # <<>> /\ getLatestCondition(s) \in JobConditions
       => Ids(s) # {} /\ Ids(s) \subseteq down
  /\ s.conditions # <<>> /\ getLatestCondition(s) = "ForceDeleteRookCephOSDPods"
       => Ids(s) # {}

\* An OSD whose pod there is, or was, is in use.
PodsOK == \A o \in OSD : pod[o] # "none" \/ seen.pod[o] # "none" => pv[o] # "Unused"

JobOK(down) ==
  /\ job.exists => job.ids # {} /\ job.ids \subseteq down
  /\ PodsOK

LoopOK ==
  /\ getOSDIDsFromNodeDevices(nodePV) \subseteq ScaledSet
  /\ todo \subseteq WatchedSet
  /\ pc = "scale" => todo # {} \/ getOSDIDsFromNodeDevices(nodePV) # {}

JobInv ==
  /\ \A c \in CR : /\ RemovalOK(store[c], ScaledSet, DownSet)
                   /\ RemovalOK(cache[c], ScaledSet, DownSet)
  /\ RemovalOK(inst, ScaledSet, DownSet)
  /\ LoopOK
  /\ JobOK(DownSet)

Growth ==
  /\ WatchedSet \subseteq WatchedSet'
  /\ ScaledSet \subseteq ScaledSet'
  /\ DownSet \subseteq DownSet'

\* The invariant gives the property.
LEMMA JobInvImplies == JobInv => JobTargetsDown
  BY DEF JobInv, JobOK, JobTargetsDown, DownSet, ScaledSet, WatchedSet

\* An empty sequence names no OSD.
LEMMA NoIds == getOSDIDsFromNodeDevices(<<>>) = {}
  BY DEF getOSDIDsFromNodeDevices

\* A new status says nothing.
LEMMA EmptyRemoval ==
  ASSUME NEW scaled, NEW down
  PROVE  RemovalOK(EmptyStatus, scaled, down)
  BY EmptyStatusType, NoIds DEF RemovalOK, Ids

\* What a status says stays true while the sets grow.
LEMMA RemovalMonotone ==
  ASSUME NEW s, NEW sc1, NEW dn1, NEW sc2, NEW dn2,
         sc1 \subseteq sc2, dn1 \subseteq dn2, RemovalOK(s, sc1, dn1)
  PROVE  RemovalOK(s, sc2, dn2)
  BY DEF RemovalOK

\* Only the conditions and the recorded devices matter.
LEMMA RemovalFrame ==
  ASSUME NEW s, NEW n, NEW scaled, NEW down, RemovalOK(s, scaled, down),
         n.conditions = s.conditions, n.nodeDevice = s.nodeDevice
  PROVE  RemovalOK(n, scaled, down)
  BY DEF RemovalOK, Ids, getLatestCondition

\* A transition must bring what the condition it enters asks for.
LEMMA RemovalTransition ==
  ASSUME NEW s \in StartedStatus, s.startTime, NEW t \in ConditionType,
         NEW scaled, NEW down, Ids(s) \subseteq scaled,
         t \in JobConditions => Ids(s) # {} /\ Ids(s) \subseteq down,
         t = "ForceDeleteRookCephOSDPods" => Ids(s) # {}
  PROVE  RemovalOK(transitionNextCondition(s, t), scaled, down)
<1> DEFINE n == transitionNextCondition(s, t)
<1>1. s \in NodeRecoveryStatus /\ s.conditions # <<>>
  BY DEF StartedStatus
<1>2. getLatestCondition(n) = t /\ n.nodeDevice = s.nodeDevice
  BY <1>1, TransitionType
<1> HIDE DEF n
<1>3. Ids(n) = Ids(s)
  BY <1>2 DEF Ids
<1> QED BY <1>2, <1>3 DEF RemovalOK, n

\* Nothing the cluster does brings a removed OSD back.
LEMMA ClusterGrowth ==
  ASSUME ClusterTypeOK, JobOK(DownSet), ClusterNext
  PROVE  Growth /\ JobOK(DownSet)'
<1> USE DEF ClusterTypeOK, Growth, WatchedSet, ScaledSet, DownSet, readPod, JobOK, PodsOK,
            podVars, miscVars, toolsVars, jobVars
<1>1. CASE ToolsPodChanges
  BY <1>1 DEF ToolsPodChanges
<1>2. CASE ClusterUpgrades
  BY <1>2 DEF ClusterUpgrades
<1>3. ASSUME NEW o \in OSD, PodChanges(o) PROVE Growth /\ JobOK(DownSet)'
  <2>1. pod[o] # "none"
    BY <1>3, ClusterAssumption DEF PodChanges, KubeletMoves
  <2> QED BY <1>3, <2>1 DEF PodChanges
<1>4. ASSUME NEW o \in OSD, PodTerminates(o) PROVE Growth /\ JobOK(DownSet)'
  BY <1>4 DEF PodTerminates
<1>5. ASSUME NEW o \in OSD, MinutePasses(o) PROVE Growth /\ JobOK(DownSet)'
  BY <1>5 DEF MinutePasses
<1>6. ASSUME NEW o \in OSD, PodGone(o) PROVE Growth /\ JobOK(DownSet)'
  BY <1>6 DEF PodGone
<1>7. ASSUME NEW o \in OSD, NewOSD(o) PROVE Growth /\ JobOK(DownSet)'
  BY <1>7 DEF NewOSD
<1>8. ASSUME NEW o \in OSD, JobPurges(o) PROVE Growth /\ JobOK(DownSet)'
  BY <1>8 DEF JobPurges
<1>9. CASE JobPodStarts
  BY <1>9 DEF JobPodStarts
<1>10. CASE JobPodEnds
  <2>1. job'.exists = job.exists /\ job'.ids = job.ids
    BY <1>10 DEF JobPodEnds, RemovalJob
  <2> QED BY <1>10, <2>1 DEF JobPodEnds
<1>11. ASSUME NEW kind \in Kind, InformerSync(kind) PROVE Growth /\ JobOK(DownSet)'
  <2>1. seen'.pod = pod \/ (seen'.pod = seen.pod /\ "Pod" # kind)
    BY <1>11 DEF InformerSync, Snapshot
  <2> QED BY <1>11, <2>1 DEF InformerSync
<1>12. ASSUME NEW o \in OSD, PodRejected(o) PROVE Growth /\ JobOK(DownSet)'
  BY <1>12 DEF PodRejected
<1>13. ASSUME NEW o \in OSD, VolumeReleased(o) PROVE Growth /\ JobOK(DownSet)'
  BY <1>13 DEF VolumeReleased
<1> HIDE DEF ClusterTypeOK, Growth, WatchedSet, ScaledSet, DownSet, readPod, JobOK, PodsOK,
            podVars, miscVars, toolsVars, jobVars
<1> QED
  BY <1>1, <1>2, <1>3, <1>4, <1>5, <1>6, <1>7, <1>8, <1>9, <1>10, <1>11, <1>12, <1>13
     DEF ClusterNext

\* Nor does a call of the operator; only one call creates a job.
LEMMA CallsGrowth ==
  ASSUME ClusterTypeOK, JobOK(DownSet)
  PROVE  /\ NoCall => Growth /\ JobOK(DownSet)'
         /\ \A b \in BOOLEAN : setEnableCephToolsValue(b) => Growth /\ JobOK(DownSet)'
         /\ \A nodes \in SUBSET Node :
              labelNodesWithPodsInPendingState(nodes) => Growth /\ JobOK(DownSet)'
         /\ \A o \in OSD : scaleRookCephOSDDeploymentToZero(o) => Growth /\ JobOK(DownSet)'
         /\ \A ids \in SUBSET OSD :
              forceDeleteRookCephOSDPods(ids) => Growth /\ JobOK(DownSet)'
         /\ deleteOldOSDRemovalJob => Growth /\ JobOK(DownSet)'
         /\ deleteOldOSDRemovalJobFails => Growth /\ JobOK(DownSet)'
         /\ \A ids \in SUBSET OSD, b \in BOOLEAN :
              processOCSOSDRemovalTemplate(ids, b) /\ ids # {} /\ ids \subseteq DownSet
                => Growth /\ JobOK(DownSet)'
         /\ \A ids \in SUBSET OSD : deletePVs(ids) => Growth /\ JobOK(DownSet)'
         /\ \A pods : deleteFailedPodsWithReasonNodeAffinity(pods) => Growth /\ JobOK(DownSet)'
         /\ archiveCephDaemonCrashMessages => Growth /\ JobOK(DownSet)'
<1> USE DEF ClusterTypeOK, Growth, WatchedSet, ScaledSet, DownSet, readPod, JobOK, PodsOK,
            podVars, miscVars, toolsVars, jobVars
<1>1. NoCall => Growth /\ JobOK(DownSet)'
  BY DEF NoCall, clusterVars
<1>2. \A b \in BOOLEAN : setEnableCephToolsValue(b) => Growth /\ JobOK(DownSet)'
  BY DEF setEnableCephToolsValue
<1>3. \A nodes \in SUBSET Node :
        labelNodesWithPodsInPendingState(nodes) => Growth /\ JobOK(DownSet)'
  BY DEF labelNodesWithPodsInPendingState
<1>4. \A o \in OSD : scaleRookCephOSDDeploymentToZero(o) => Growth /\ JobOK(DownSet)'
  BY DEF scaleRookCephOSDDeploymentToZero
<1>5. \A ids \in SUBSET OSD : forceDeleteRookCephOSDPods(ids) => Growth /\ JobOK(DownSet)'
  BY DEF forceDeleteRookCephOSDPods
<1>6. deleteOldOSDRemovalJob => Growth /\ JobOK(DownSet)'
  <2> SUFFICES ASSUME deleteOldOSDRemovalJob PROVE Growth /\ JobOK(DownSet)'
    OBVIOUS
  <2>1. seen'.pod = seen.pod
    BY DEF deleteOldOSDRemovalJob, View
  <2> QED BY <2>1 DEF deleteOldOSDRemovalJob, NoJob
<1>7. deleteOldOSDRemovalJobFails => Growth /\ JobOK(DownSet)'
  BY DEF deleteOldOSDRemovalJobFails, RemovalJob
<1>8. \A ids \in SUBSET OSD, b \in BOOLEAN :
        processOCSOSDRemovalTemplate(ids, b) /\ ids # {} /\ ids \subseteq DownSet
          => Growth /\ JobOK(DownSet)'
  BY DEF processOCSOSDRemovalTemplate
<1>9. \A ids \in SUBSET OSD : deletePVs(ids) => Growth /\ JobOK(DownSet)'
  BY DEF deletePVs
<1>10. \A pods : deleteFailedPodsWithReasonNodeAffinity(pods) => Growth /\ JobOK(DownSet)'
  BY DEF deleteFailedPodsWithReasonNodeAffinity
<1>11. archiveCephDaemonCrashMessages => Growth /\ JobOK(DownSet)'
  BY DEF archiveCephDaemonCrashMessages
<1> HIDE DEF ClusterTypeOK, Growth, WatchedSet, ScaledSet, DownSet, readPod, JobOK, PodsOK,
             podVars, miscVars, toolsVars, jobVars
<1> QED
  BY <1>1, <1>2, <1>3, <1>4, <1>5, <1>6, <1>7, <1>8, <1>9, <1>10, <1>11

\* Initially no status records a device and there is no job.
LEMMA JobInit == Init => JobInv
<1> SUFFICES ASSUME Init PROVE JobInv
  OBVIOUS
<1>1. \A c \in CR : store[c] = EmptyStatus /\ cache[c] = EmptyStatus
  BY DEF Init
<1>2. inst = EmptyStatus /\ nodePV = <<>> /\ pc = "idle" /\ job.exists = FALSE
  BY DEF Init, ClusterInit, NoJob
<1>3. PodsOK
  BY DEF Init, ClusterInit, PodsOK
<1> QED BY <1>1, <1>2, <1>3, EmptyRemoval, NoIds DEF JobInv, LoopOK, JobOK, Init

\* The statuses at rest stay true when the step leaves them alone.
LEMMA StoresKept ==
  ASSUME JobInv, Growth, UNCHANGED <<store, cache>>
  PROVE  \A c \in CR : /\ RemovalOK(store'[c], ScaledSet', DownSet')
                       /\ RemovalOK(cache'[c], ScaledSet', DownSet')
<1> SUFFICES ASSUME NEW c \in CR
             PROVE  /\ RemovalOK(store[c], ScaledSet', DownSet')
                    /\ RemovalOK(cache[c], ScaledSet', DownSet')
  OBVIOUS
<1>1. RemovalOK(store[c], ScaledSet, DownSet) /\ RemovalOK(cache[c], ScaledSet, DownSet)
  BY DEF JobInv
<1> QED BY <1>1, RemovalMonotone DEF Growth

\* The worker's copy stays true when the step leaves it alone.
LEMMA CopyKept ==
  ASSUME JobInv, Growth
  PROVE  RemovalOK(inst, ScaledSet', DownSet')
<1>1. RemovalOK(inst, ScaledSet, DownSet)
  BY DEF JobInv
<1> QED BY <1>1, RemovalMonotone DEF Growth

\* A handler may return any status that is true of the cluster.
LEMMA ReturnJob ==
  ASSUME JobInv, Growth, JobOK(DownSet)', NEW s, NEW r, Return(s, r),
         RemovalOK(s, ScaledSet', DownSet')
  PROVE  JobInv'
<1>1. \A c \in CR : /\ RemovalOK(store'[c], ScaledSet', DownSet')
                    /\ RemovalOK(cache'[c], ScaledSet', DownSet')
  BY StoresKept DEF Return, apiVars
<1>2. LoopOK'
  BY NoIds DEF Return, LoopOK
<1>3. RemovalOK(inst', ScaledSet', DownSet')
  BY DEF Return
<1> QED BY <1>1, <1>2, <1>3 DEF JobInv

\* A transition to a condition that asks for nothing more than the sequence
\* it leaves has established.
LEMMA AdvanceJob ==
  ASSUME JobInv, Growth, JobOK(DownSet)', NEW s \in StartedStatus, s.startTime,
         Ids(s) \subseteq ScaledSet', NEW t \in ConditionType, Advance(s, t),
         t \in JobConditions => Ids(s) # {} /\ Ids(s) \subseteq DownSet',
         t = "ForceDeleteRookCephOSDPods" => Ids(s) # {}
  PROVE  JobInv'
<1>1. RemovalOK(transitionNextCondition(s, t), ScaledSet', DownSet')
  BY RemovalTransition
<1> QED BY <1>1, ReturnJob DEF Advance

\* The idle worker says nothing.
LEMMA IdleJob ==
  ASSUME Idle
  PROVE  RemovalOK(inst', ScaledSet', DownSet') /\ LoopOK'
  BY EmptyRemoval, NoIds DEF Idle, LoopOK

\* A step that leaves the statuses and the worker alone.
LEMMA WorkerKept ==
  ASSUME JobInv, Growth, JobOK(DownSet)',
         UNCHANGED <<store, cache, inst, nodePV, todo>>, pc' = pc \/ pc' # "scale"
  PROVE  JobInv'
<1>1. \A c \in CR : /\ RemovalOK(store'[c], ScaledSet', DownSet')
                    /\ RemovalOK(cache'[c], ScaledSet', DownSet')
  BY StoresKept
<1>2. LoopOK'
  BY DEF LoopOK, JobInv, Growth
<1>3. RemovalOK(inst', ScaledSet', DownSet')
  BY CopyKept
<1> QED BY <1>1, <1>2, <1>3 DEF JobInv

\* A step that makes no call leaves the cluster's side alone.
LEMMA NoCallJob ==
  ASSUME TypeInv, JobInv, UNCHANGED clusterVars
  PROVE  Growth /\ JobOK(DownSet)'
  BY CallsGrowth DEF TypeInv, JobInv, NoCall

\* The steps of the cluster, the users, the API server, the informer and time.
LEMMA EnvironmentJob ==
  ASSUME TypeInv, JobInv, Environment
  PROVE  JobInv'
<1>1. CASE ClusterNext /\ UNCHANGED <<apiVars, queue, workerVars, metrics, restartOwed>>
  <2>1. Growth /\ JobOK(DownSet)'
    BY <1>1, ClusterGrowth DEF TypeInv, JobInv
  <2> QED BY <1>1, <2>1, WorkerKept DEF apiVars, workerVars
<1>2. ASSUME NEW c \in CR, CreateCR(c) \/ DeleteCR(c) \/ Touch(c) PROVE JobInv'
  BY <1>2, NoCallJob, WorkerKept DEF CreateCR, DeleteCR, Touch, workerVars
<1>3. ASSUME NEW c \in CR, CacheSync(c) \/ Tick(c) PROVE JobInv'
  <2>1. Growth /\ JobOK(DownSet)' /\ UNCHANGED clusterVars
    BY <1>3, NoCallJob DEF CacheSync, Tick
  <2>2. ScaledSet' = ScaledSet /\ DownSet' = DownSet
    BY <2>1 DEF WatchedSet, ScaledSet, DownSet, readPod, clusterVars, podVars, miscVars
  <2>3. ASSUME NEW d \in CR
        PROVE  RemovalOK(store'[d], ScaledSet, DownSet) /\ RemovalOK(cache'[d], ScaledSet, DownSet)
    <3>1. RemovalOK(store[d], ScaledSet, DownSet) /\ RemovalOK(cache[d], ScaledSet, DownSet)
      BY DEF JobInv
    <3>2. store[d] \in StartedStatus /\ cache[d] \in StartedStatus
      BY DEF TypeInv, ApiInv
    <3>3. /\ RemovalOK(Older(store[d]), ScaledSet, DownSet)
          /\ RemovalOK(Older(cache[d]), ScaledSet, DownSet)
      BY <3>1, <3>2, OlderType, RemovalFrame
    <3>4. /\ store'[d] \in {store[d], Older(store[d])}
          /\ cache'[d] \in {cache[d], store[d], Older(cache[d])}
      BY <1>3 DEF CacheSync, Tick, TypeInv, ApiInv
    <3> QED BY <3>1, <3>3, <3>4
  <2>4. RemovalOK(inst', ScaledSet', DownSet') /\ LoopOK'
    BY <1>3, <2>1, <2>2 DEF CacheSync, Tick, workerVars, JobInv, LoopOK, Growth
  <2> QED BY <2>1, <2>2, <2>3, <2>4 DEF JobInv
<1>4. CASE OperatorRestart
  <2>1. Growth /\ JobOK(DownSet)'
    <3>1. seen'.pod = IF "Pod" \in Lagging THEN pod ELSE seen.pod
      BY <1>4 DEF OperatorRestart, Snapshot
    <3>2. UNCHANGED <<podVars, jobVars>>
      BY <1>4 DEF OperatorRestart
    <3> QED BY <3>1, <3>2
            DEF Growth, WatchedSet, ScaledSet, DownSet, readPod, JobInv, JobOK, PodsOK,
                podVars, jobVars
  <2>2. \A c \in CR : /\ RemovalOK(store[c], ScaledSet', DownSet')
                      /\ RemovalOK(cache[c], ScaledSet', DownSet')
    <3>1. \A c \in CR : /\ RemovalOK(store[c], ScaledSet, DownSet)
                        /\ RemovalOK(cache[c], ScaledSet, DownSet)
      BY DEF JobInv
    <3> QED BY <2>1, <3>1, RemovalMonotone DEF Growth
  <2>3. RemovalOK(inst', ScaledSet', DownSet') /\ LoopOK'
    BY <1>4, IdleJob DEF OperatorRestart
  <2> QED BY <1>4, <2>1, <2>2, <2>3 DEF OperatorRestart, JobInv
<1> QED BY <1>1, <1>2, <1>3, <1>4 DEF Environment

\* Reading a resource from the cache and saving its status.
LEMMA ReconcileJob ==
  ASSUME TypeInv, JobInv
  PROVE  /\ \A c \in CR : Start(c) \/ Ignore(c) => JobInv'
         /\ StatusUpdate \/ StatusUpdateFails => JobInv'
<1>1. ASSUME NEW c \in CR, Start(c) PROVE JobInv'
  <2>1. Growth /\ JobOK(DownSet)'
    BY <1>1, NoCallJob DEF Start
  <2>2. \A d \in CR : /\ RemovalOK(store'[d], ScaledSet', DownSet')
                      /\ RemovalOK(cache'[d], ScaledSet', DownSet')
    BY <1>1, <2>1, StoresKept DEF Start, apiVars
  <2>3. RemovalOK(cache[c], ScaledSet', DownSet') /\ cache[c] \in StartedStatus
    BY <1>1, <2>2 DEF Start, apiVars, TypeInv, ApiInv
  <2>4. RemovalOK(initStatus(cache[c]), ScaledSet', DownSet')
    BY <2>3, InitStatusType DEF RemovalOK, Ids, JobConditions
  <2>5. RemovalOK(inst', ScaledSet', DownSet')
    BY <1>1, <2>3, <2>4 DEF Start
  <2>6. LoopOK'
    BY <1>1, <2>1 DEF Start, LoopOK, JobInv, Growth
  <2> QED BY <2>1, <2>2, <2>5, <2>6 DEF JobInv
<1>2. ASSUME NEW c \in CR, Ignore(c) PROVE JobInv'
  BY <1>2, NoCallJob, WorkerKept DEF Ignore, apiVars, workerVars
<1>3. CASE StatusUpdate
  <2>1. Growth /\ JobOK(DownSet)'
    BY <1>3, NoCallJob DEF StatusUpdate
  <2>2. RemovalOK(inst, ScaledSet', DownSet')
    BY <2>1, CopyKept
  <2>3. ASSUME NEW d \in CR
        PROVE  /\ RemovalOK(store'[d], ScaledSet', DownSet')
               /\ RemovalOK(cache'[d], ScaledSet', DownSet')
    <3>1. store'[d] \in {store[d], inst} /\ cache'[d] = cache[d]
      BY <1>3 DEF StatusUpdate, TypeInv, ApiInv
    <3>2. RemovalOK(store[d], ScaledSet, DownSet) /\ RemovalOK(cache[d], ScaledSet, DownSet)
      BY DEF JobInv
    <3>3. RemovalOK(store[d], ScaledSet', DownSet') /\ RemovalOK(cache[d], ScaledSet', DownSet')
      BY <2>1, <3>2, RemovalMonotone DEF Growth
    <3> QED BY <2>2, <3>1, <3>3
  <2>4. RemovalOK(inst', ScaledSet', DownSet') /\ LoopOK'
    BY <1>3, IdleJob DEF StatusUpdate
  <2> QED BY <2>1, <2>3, <2>4 DEF JobInv
<1>4. CASE StatusUpdateFails
  <2>1. Growth /\ JobOK(DownSet)'
    BY <1>4, NoCallJob DEF StatusUpdateFails
  <2>2. RemovalOK(inst', ScaledSet', DownSet') /\ LoopOK'
    BY <1>4, IdleJob DEF StatusUpdateFails
  <2> QED BY <1>4, <2>1, <2>2, StoresKept DEF StatusUpdateFails, apiVars, JobInv
<1> QED BY <1>1, <1>2, <1>3, <1>4

(***************************************************************************)
(* Most handlers write neither the condition list nor the recorded devices *)
(* of their copy, and go on to a condition that asks nothing of them.      *)
(***************************************************************************)
OrdinaryCondition == ConditionType \ (JobConditions \union {"ForceDeleteRookCephOSDPods"})

Ordinary(s) ==
  /\ s \in StartedStatus /\ s.startTime
  /\ s.conditions = inst.conditions /\ s.nodeDevice = inst.nodeDevice
  /\ \/ \E r \in {"requeue", "error", "done"} : Return(s, r)
     \/ \E t \in OrdinaryCondition : Advance(s, t)

\* Such handlers keep the invariant.
LEMMA OrdinaryJob ==
  ASSUME JobInv, Growth, JobOK(DownSet)', NEW s, Ordinary(s)
  PROVE  JobInv'
<1>1. RemovalOK(inst, ScaledSet', DownSet')
  BY CopyKept
<1>2. RemovalOK(s, ScaledSet', DownSet')
  BY <1>1, RemovalFrame DEF Ordinary
<1>3. ASSUME NEW r \in {"requeue", "error", "done"}, Return(s, r) PROVE JobInv'
  BY <1>2, <1>3, ReturnJob
<1>4. ASSUME NEW t \in OrdinaryCondition, Advance(s, t) PROVE JobInv'
  <2>1. /\ t \in ConditionType /\ t \notin JobConditions
        /\ t # "ForceDeleteRookCephOSDPods"
    BY DEF OrdinaryCondition
  <2>2. Ids(s) \subseteq ScaledSet'
    BY <1>2 DEF RemovalOK
  <2> QED BY <1>4, <2>1, <2>2, AdvanceJob DEF Ordinary
<1> QED BY <1>3, <1>4 DEF Ordinary

\* The handlers before the failing OSDs are taken down.
LEMMA EarlyHandlersJob ==
  ASSUME TypeInv, JobInv
  PROVE  /\ ReconciliationTimeout \/ CallFails => JobInv'
         /\ EnableCephToolsPod \/ enableCephTools => JobInv'
         /\ WaitForCephToolsPodRunning \/ WaitForOSDPodsStabilize => JobInv'
         /\ LabelNodesWithPendingPods => JobInv'
<1>a. ClusterTypeOK /\ JobOK(DownSet)
  BY DEF TypeInv, JobInv
<1>b. inst \in StartedStatus /\ (pc # "idle" => inst.startTime)
  BY DEF TypeInv, WorkerInv
<1>c. NoCall => Growth /\ JobOK(DownSet)'
  BY NoCallJob DEF NoCall
<1>d. {"WaitForCephToolsPodRunning", "WaitForOSDPodsStabilize",
       "LabelNodesWithPendingPods", "ManageCrashLoopBackOffPods"} \subseteq OrdinaryCondition
  BY DEF OrdinaryCondition, ConditionType, JobConditions
<1>1. CASE ReconciliationTimeout
  <2> DEFINE s == [inst EXCEPT !.phase = "Failed"]
  <2>1. Return(s, "done") /\ NoCall /\ pc # "idle"
    BY <1>1 DEF ReconciliationTimeout
  <2>2. /\ s \in StartedStatus /\ s.startTime
        /\ s.conditions = inst.conditions /\ s.nodeDevice = inst.nodeDevice
    BY <1>b, <2>1 DEF StartedStatus, NodeRecoveryStatus, RecoveryPhase
  <2> HIDE DEF s
  <2>3. Ordinary(s)
    BY <2>1, <2>2 DEF Ordinary
  <2> QED BY <1>c, <2>1, <2>3, OrdinaryJob
<1>2. CASE CallFails
  <2>1. Ordinary(inst) /\ NoCall
    BY <1>2, <1>b DEF CallFails, Ordinary
  <2> QED BY <1>c, <2>1, OrdinaryJob
<1>3. CASE EnableCephToolsPod
  <2> DEFINE s == [inst EXCEPT !.keepCephToolsPod = TRUE]
  <2>1. /\ Advance(s, "WaitForCephToolsPodRunning") \/ GoOn("enable")
        /\ NoCall /\ pc # "idle"
    BY <1>3 DEF EnableCephToolsPod, At
  <2>2. /\ s \in StartedStatus /\ s.startTime
        /\ s.conditions = inst.conditions /\ s.nodeDevice = inst.nodeDevice
    BY <1>b, <2>1 DEF StartedStatus, NodeRecoveryStatus
  <2> HIDE DEF s
  <2>3. CASE Advance(s, "WaitForCephToolsPodRunning")
    <3>1. Ordinary(s)
      BY <1>d, <2>2, <2>3 DEF Ordinary
    <3> QED BY <1>c, <2>1, <3>1, OrdinaryJob
  <2>4. CASE GoOn("enable")
    BY <1>c, <2>1, <2>4, WorkerKept DEF GoOn, apiVars
  <2> QED BY <2>1, <2>3, <2>4
<1>4. CASE enableCephTools
  <2>1. Growth /\ JobOK(DownSet)'
    BY <1>4, <1>a, CallsGrowth DEF enableCephTools
  <2>2. Ordinary(inst)
    BY <1>4, <1>b, <1>d DEF enableCephTools, Ordinary
  <2> QED BY <2>1, <2>2, OrdinaryJob
<1>5. CASE WaitForCephToolsPodRunning \/ WaitForOSDPodsStabilize
  <2>1. Ordinary(inst) /\ NoCall
    BY <1>5, <1>b, <1>d
       DEF WaitForCephToolsPodRunning, WaitForOSDPodsStabilize, At, Ordinary
  <2> QED BY <1>c, <2>1, OrdinaryJob
<1>6. CASE LabelNodesWithPendingPods
  <2> DEFINE noted == [inst EXCEPT !.pendingPods = TRUE]
             nodes == {NodeOf[o] : o \in getPodsInPendingPhase}
  <2>1. pc # "idle"
    BY <1>6 DEF LabelNodesWithPendingPods, At
  <2>2. /\ noted \in StartedStatus /\ noted.startTime
        /\ noted.conditions = inst.conditions /\ noted.nodeDevice = inst.nodeDevice
    BY <1>b, <2>1 DEF StartedStatus, NodeRecoveryStatus
  <2>3. nodes \subseteq Node
    BY ClusterAssumption DEF getPodsInPendingPhase
  <2> HIDE DEF noted, nodes
  <2>4. /\ \/ NoCall
           \/ \E done \in SUBSET nodes : labelNodesWithPodsInPendingState(done)
        /\ \/ Advance(inst, "ManageCrashLoopBackOffPods")
           \/ Advance(noted, "ManageCrashLoopBackOffPods")
           \/ Return(noted, "error")
    BY <1>6 DEF LabelNodesWithPendingPods, noted, nodes
  <2>5. Growth /\ JobOK(DownSet)'
    BY <1>a, <2>3, <2>4, CallsGrowth
  <2>6. Ordinary(inst) \/ Ordinary(noted)
    BY <1>b, <1>d, <2>1, <2>2, <2>4 DEF Ordinary
  <2> QED BY <2>5, <2>6, OrdinaryJob
<1> QED BY <1>1, <1>2, <1>3, <1>4, <1>5, <1>6

\* Taking the failing OSDs down: every entry put together is scaled to zero.
LEMMA ScaleHandlersJob ==
  ASSUME TypeInv, JobInv
  PROVE  /\ ManageCrashLoopBackOffPods => JobInv'
         /\ \A o \in OSD : handleCrashLoopBackOffPods(o) => JobInv'
         /\ handleCrashLoopBackOffPodsFails => JobInv'
         /\ Panic => JobInv'
         /\ ManageDone => JobInv'
<1>a. ClusterTypeOK /\ JobOK(DownSet)
  BY DEF TypeInv, JobInv
<1>b. inst \in StartedStatus /\ (pc # "idle" => inst.startTime) /\ nodePV \in Seq(OSD)
  BY DEF TypeInv, WorkerInv
<1>c. NoCall => Growth /\ JobOK(DownSet)'
  BY NoCallJob DEF NoCall
<1>1. CASE ManageCrashLoopBackOffPods
  <2>1. Growth /\ JobOK(DownSet)' /\ pc # "idle"
    BY <1>1, <1>c DEF ManageCrashLoopBackOffPods, At
  <2>2. CASE Advance(inst, "RestartStorageOperator")
    <3>1. "RestartStorageOperator" \in OrdinaryCondition
      BY DEF OrdinaryCondition, ConditionType, JobConditions
    <3>2. Ordinary(inst)
      BY <1>b, <2>1, <2>2, <3>1 DEF Ordinary
    <3> QED BY <2>1, <3>2, OrdinaryJob
  <2>3. CASE pc' = "scale"
    <3>1. /\ todo' # {} /\ nodePV' = nodePV /\ UNCHANGED <<store, cache>>
          /\ inst'.conditions = inst.conditions /\ inst'.nodeDevice = inst.nodeDevice
      BY <1>1, <1>b, <2>3 DEF ManageCrashLoopBackOffPods, Advance, Return, apiVars,
                              StartedStatus, NodeRecoveryStatus
    <3>2. RemovalOK(inst, ScaledSet', DownSet')
      BY <2>1, CopyKept
    <3>3. RemovalOK(inst', ScaledSet', DownSet')
      BY <3>1, <3>2, RemovalFrame
    <3>4. LoopOK'
      <4>1. todo' = failingOSDPods
        BY <1>1, <2>3 DEF ManageCrashLoopBackOffPods, Advance, Return
      <4>2. failingOSDPods \subseteq WatchedSet
        BY <1>a DEF failingOSDPods, FailingStates, readPod, WatchedSet, JobOK, PodsOK
      <4> QED BY <2>1, <3>1, <4>1, <4>2 DEF LoopOK, JobInv, Growth
    <3> QED BY <2>1, <3>1, <3>3, <3>4, StoresKept DEF JobInv
  <2> QED BY <1>1, <2>2, <2>3 DEF ManageCrashLoopBackOffPods
<1>2. ASSUME NEW o \in OSD, handleCrashLoopBackOffPods(o) PROVE JobInv'
  <2>1. scaleRookCephOSDDeploymentToZero(o) /\ o \in WatchedSet
    BY <1>2 DEF handleCrashLoopBackOffPods, JobInv, LoopOK
  <2>2. Growth /\ JobOK(DownSet)'
    BY <1>a, <2>1, CallsGrowth
  <2>3. o \in ScaledSet'
    BY <1>a, <2>1, <2>2 DEF scaleRookCephOSDDeploymentToZero, ScaledSet, ClusterTypeOK, Growth
  <2>4. getOSDIDsFromNodeDevices(Append(nodePV, o)) = getOSDIDsFromNodeDevices(nodePV) \union {o}
    BY <1>b, AppendProperties DEF getOSDIDsFromNodeDevices
  <2>5. LoopOK'
    <3>1. nodePV' = Append(nodePV, o) /\ todo' \subseteq todo
      BY <1>2 DEF handleCrashLoopBackOffPods
    <3> QED BY <2>2, <2>3, <2>4, <3>1 DEF LoopOK, JobInv, Growth
  <2>6. RemovalOK(inst', ScaledSet', DownSet') /\ UNCHANGED <<store, cache>>
    BY <1>2, <2>2, CopyKept DEF handleCrashLoopBackOffPods, apiVars
  <2> QED BY <2>2, <2>5, <2>6, StoresKept DEF JobInv
<1>3. CASE handleCrashLoopBackOffPodsFails
  <2>1. Ordinary(inst) /\ NoCall
    BY <1>3, <1>b DEF handleCrashLoopBackOffPodsFails, Ordinary
  <2> QED BY <1>c, <2>1, OrdinaryJob
<1>4. CASE Panic
  <2>1. Growth /\ JobOK(DownSet)'
    BY <1>4, NoCallJob DEF Panic
  <2>2. RemovalOK(inst', ScaledSet', DownSet') /\ LoopOK'
    BY <1>4, IdleJob DEF Panic
  <2> QED BY <1>4, <2>1, <2>2, StoresKept DEF Panic, apiVars, JobInv
<1>5. CASE ManageDone
  <2> DEFINE s == [inst EXCEPT !.nodeDevice = nodePV]
  <2>1. Advance(s, "ForceDeleteRookCephOSDPods") /\ NoCall /\ pc = "scale" /\ todo = {}
    BY <1>5 DEF ManageDone
  <2>2. s \in StartedStatus /\ s.startTime /\ s.nodeDevice = nodePV
    BY <1>b, <2>1 DEF StartedStatus, NodeRecoveryStatus
  <2> HIDE DEF s
  <2>3. Growth /\ JobOK(DownSet)'
    BY <1>c, <2>1
  <2>4. Ids(s) \subseteq ScaledSet' /\ Ids(s) # {}
    BY <2>1, <2>2, <2>3 DEF Ids, JobInv, LoopOK, Growth
  <2>5. /\ "ForceDeleteRookCephOSDPods" \in ConditionType
        /\ "ForceDeleteRookCephOSDPods" \notin JobConditions
    BY DEF ConditionType, JobConditions
  <2> QED BY <2>1, <2>2, <2>3, <2>4, <2>5, AdvanceJob
<1> QED BY <1>1, <1>2, <1>3, <1>4, <1>5

\* The pods of the recorded devices are gone before the job is due, and stay so.
LEMMA JobHandlersJob ==
  ASSUME TypeInv, JobInv
  PROVE  /\ ForceDeleteRookCephOSDPods => JobInv'
         /\ ProcessOCSRemovalTemplate \/ ReplaceOSDRemovalJob => JobInv'
         /\ CreateOSDRemovalJob => JobInv'
         /\ CreateForcedOSDRemovalJob => JobInv'
<1>a. ClusterTypeOK /\ JobOK(DownSet) /\ RemovalOK(inst, ScaledSet, DownSet)
  BY DEF TypeInv, JobInv
<1>b. inst \in StartedStatus /\ (pc # "idle" => inst.startTime /\ inst.conditions # <<>>)
  BY DEF TypeInv, WorkerInv, StartedStatus
<1>c. NoCall => Growth /\ JobOK(DownSet)'
  BY NoCallJob DEF NoCall
<1>d. Ids(inst) \in SUBSET OSD
  BY <1>b, DeviceIds DEF Ids
<1>e. /\ "ForceDeleteRookCephOSDPods" \notin JobConditions
      /\ "ForceDeleteRookCephOSDPods" \in ConditionType
      /\ {"ProcessOCSRemovalTemplate", "CleanupOSDRemovalJob",
          "RetryForceCleanupOSDRemovalJob"} \subseteq JobConditions \intersect ConditionType
      /\ "RestartStorageOperator" \in OrdinaryCondition
  BY DEF JobConditions, ConditionType, OrdinaryCondition
<1>1. CASE ForceDeleteRookCephOSDPods
  <2>1. /\ pc = "reconcile" /\ getLatestCondition(inst) = "ForceDeleteRookCephOSDPods"
    BY <1>1 DEF ForceDeleteRookCephOSDPods, At
  <2>2. Ids(inst) # {} /\ Ids(inst) \subseteq ScaledSet
    BY <1>a, <1>b, <2>1 DEF RemovalOK
  <2>3. CASE Panic
    BY <2>3, ScaleHandlersJob
  <2>4. CASE NoCall /\ (Return(inst, "requeue") \/ Advance(inst, "RestartStorageOperator"))
    <3>1. Ordinary(inst)
      BY <1>b, <1>e, <2>1, <2>4 DEF Ordinary
    <3> QED BY <1>c, <2>4, <3>1, OrdinaryJob
  <2>5. CASE /\ {i \in DOMAIN inst.nodeDevice : getOSDPodsWithID(inst.nodeDevice[i]) # {}} = {}
             /\ Advance(inst, "ProcessOCSRemovalTemplate") /\ NoCall
    <3>1. ASSUME NEW o \in Ids(inst) PROVE o \in DownSet
      <4>1. PICK i \in DOMAIN inst.nodeDevice : inst.nodeDevice[i] = o
        BY DEF Ids, getOSDIDsFromNodeDevices
      <4>2. getOSDPodsWithID(o) = {}
        BY <2>5, <4>1
      <4>3. pod[o] = "none"
        <5>1. o \in OSD /\ <<o, "current">> \in OSDPod
          BY <1>d DEF OSDPod
        <5>2. <<o, "current">> \notin getOSDPods
          BY <4>2 DEF getOSDPodsWithID
        <5>3. readPod[o] = "none"
          BY <5>1, <5>2 DEF getOSDPods
        <5> QED BY <2>2, <5>3 DEF ScaledSet, WatchedSet
      <4> QED BY <2>2, <4>3 DEF DownSet
    <3>2. Growth /\ JobOK(DownSet)'
      BY <1>c, <2>5
    <3>3. Ids(inst) \subseteq ScaledSet' /\ Ids(inst) \subseteq DownSet'
      BY <2>2, <3>1, <3>2 DEF Growth
    <3> QED BY <1>b, <1>e, <2>1, <2>2, <2>5, <3>2, <3>3, AdvanceJob
  <2>6. CASE /\ forceDeleteRookCephOSDPods(getOSDIDsFromNodeDevices(inst.nodeDevice))
             /\ Advance(inst, "ForceDeleteRookCephOSDPods")
    <3>1. Growth /\ JobOK(DownSet)'
      BY <1>a, <1>d, <2>6, CallsGrowth DEF Ids
    <3>2. Ids(inst) \subseteq ScaledSet'
      BY <2>2, <3>1 DEF Growth
    <3> QED BY <1>b, <1>e, <2>1, <2>2, <2>6, <3>1, <3>2, AdvanceJob
  <2> QED BY <1>1, <2>3, <2>4, <2>5, <2>6 DEF ForceDeleteRookCephOSDPods
<1>2. CASE ProcessOCSRemovalTemplate \/ ReplaceOSDRemovalJob
  <2>1. pc # "idle"
    BY <1>2 DEF ProcessOCSRemovalTemplate, ReplaceOSDRemovalJob, At
  <2>2. Growth /\ JobOK(DownSet)'
    BY <1>2, <1>a, CallsGrowth
       DEF ProcessOCSRemovalTemplate, ReplaceOSDRemovalJob, deleteOldOSDRemovalJobErrs
  <2>3. CASE GoOn("create")
    BY <2>2, <2>3, WorkerKept DEF GoOn, apiVars
  <2>4. CASE Return(inst, "error")
    <3>1. Ordinary(inst)
      BY <1>b, <2>1, <2>4 DEF Ordinary
    <3> QED BY <2>2, <3>1, OrdinaryJob
  <2> QED BY <1>2, <2>3, <2>4 DEF ProcessOCSRemovalTemplate, ReplaceOSDRemovalJob
<1>3. CASE CreateOSDRemovalJob
  <2> DEFINE forced == Cardinality(getOSDPods) <= MaxForcedPods
             s      == [inst EXCEPT !.forcedOSDRemoval = forced]
  <2>1. /\ pc = "create" /\ getLatestCondition(inst) = "ProcessOCSRemovalTemplate"
        /\ forced \in BOOLEAN
    BY <1>3 DEF CreateOSDRemovalJob
  <2>2. Ids(inst) # {} /\ Ids(inst) \subseteq ScaledSet /\ Ids(inst) \subseteq DownSet
    BY <1>a, <1>b, <1>e, <2>1 DEF RemovalOK
  <2>3. \/ processOCSOSDRemovalTemplate(Ids(inst), forced) /\ Advance(s, "CleanupOSDRemovalJob")
        \/ NoCall /\ (Return(s, "error") \/ Return(inst, "error"))
    BY <1>3 DEF CreateOSDRemovalJob, Ids
  <2> HIDE DEF forced
  <2>4. /\ s \in StartedStatus /\ s.startTime
        /\ s.conditions = inst.conditions /\ s.nodeDevice = inst.nodeDevice
    BY <1>b, <2>1 DEF StartedStatus, NodeRecoveryStatus
  <2> HIDE DEF s
  <2>5. Growth /\ JobOK(DownSet)'
    BY <1>a, <1>d, <2>1, <2>2, <2>3, CallsGrowth
  <2>6. Ids(s) = Ids(inst) /\ Ids(s) \subseteq ScaledSet' /\ Ids(s) \subseteq DownSet'
    BY <2>2, <2>4, <2>5 DEF Ids, Growth
  <2>7. CASE Advance(s, "CleanupOSDRemovalJob")
    BY <1>e, <2>2, <2>4, <2>5, <2>6, <2>7, AdvanceJob
  <2>8. CASE Return(s, "error") \/ Return(inst, "error")
    <3>1. Ordinary(s) \/ Ordinary(inst)
      BY <1>b, <2>1, <2>4, <2>8 DEF Ordinary
    <3> QED BY <2>5, <3>1, OrdinaryJob
  <2> QED BY <2>3, <2>7, <2>8
<1>4. CASE CreateForcedOSDRemovalJob
  <2> DEFINE s == [inst EXCEPT !.forcedOSDRemoval = TRUE]
  <2>1. pc = "create" /\ getLatestCondition(inst) = "CleanupOSDRemovalJob"
    BY <1>4 DEF CreateForcedOSDRemovalJob
  <2>2. Ids(inst) # {} /\ Ids(inst) \subseteq ScaledSet /\ Ids(inst) \subseteq DownSet
    BY <1>a, <1>b, <1>e, <2>1 DEF RemovalOK
  <2>3. \/ /\ processOCSOSDRemovalTemplate(Ids(inst), TRUE)
           /\ Advance(s, "RetryForceCleanupOSDRemovalJob")
        \/ NoCall /\ Return(inst, "error")
    BY <1>4 DEF CreateForcedOSDRemovalJob, Ids
  <2>4. s \in StartedStatus /\ s.startTime /\ s.nodeDevice = inst.nodeDevice
    BY <1>b, <2>1 DEF StartedStatus, NodeRecoveryStatus
  <2> HIDE DEF s
  <2>5. Growth /\ JobOK(DownSet)'
    BY <1>a, <1>d, <2>2, <2>3, CallsGrowth
  <2>6. Ids(s) = Ids(inst) /\ Ids(s) \subseteq ScaledSet' /\ Ids(s) \subseteq DownSet'
    BY <2>2, <2>4, <2>5 DEF Ids, Growth
  <2>7. CASE Advance(s, "RetryForceCleanupOSDRemovalJob")
    BY <1>e, <2>2, <2>4, <2>5, <2>6, <2>7, AdvanceJob
  <2>8. CASE Return(inst, "error")
    <3>1. Ordinary(inst)
      BY <1>b, <2>1, <2>8 DEF Ordinary
    <3> QED BY <2>5, <3>1, OrdinaryJob
  <2> QED BY <2>3, <2>7, <2>8
<1> QED BY <1>1, <1>2, <1>3, <1>4

\* Waiting for the job, and everything after it.
LEMMA LateHandlersJob ==
  ASSUME TypeInv, JobInv
  PROVE  /\ WaitForJob => JobInv'
         /\ RetryTimedOut \/ validateJobLogs => JobInv'
         /\ JobSucceeded => JobInv'
         /\ WaitForPersistenVolumeBound => JobInv'
         /\ RestartStorageOperator \/ DeleteFailedPodsNodeAffinity => JobInv'
         /\ StorageClusterFitnessCheck \/ DisableCephTools => JobInv'
<1>a. ClusterTypeOK /\ JobOK(DownSet)
  BY DEF TypeInv, JobInv
<1>b. inst \in StartedStatus /\ (pc # "idle" => inst.startTime)
  BY DEF TypeInv, WorkerInv
<1>c. NoCall => Growth /\ JobOK(DownSet)'
  BY NoCallJob DEF NoCall
<1>d. {"WaitForPersistenVolumeBound", "RestartStorageOperator",
       "DeleteFailedPodsNodeAffinity", "StorageClusterFitnessCheck",
       "DisableCephTools"} \subseteq OrdinaryCondition
  BY DEF OrdinaryCondition, ConditionType, JobConditions
<1>1. CASE WaitForJob
  <2>1. Ordinary(inst) /\ NoCall
    BY <1>1, <1>b DEF WaitForJob, AtJob, At, Ordinary
  <2> QED BY <1>c, <2>1, OrdinaryJob
<1>2. CASE RetryTimedOut \/ validateJobLogs
  <2> DEFINE s == [inst EXCEPT !.phase = "Failed"]
  <2>1. (Return(s, "done") \/ Return(s, "error")) /\ NoCall /\ pc # "idle"
    BY <1>2 DEF RetryTimedOut, validateJobLogs, AtJob, At
  <2>2. /\ s \in StartedStatus /\ s.startTime
        /\ s.conditions = inst.conditions /\ s.nodeDevice = inst.nodeDevice
    BY <1>b, <2>1 DEF StartedStatus, NodeRecoveryStatus, RecoveryPhase
  <2> HIDE DEF s
  <2>3. Ordinary(s)
    BY <2>1, <2>2 DEF Ordinary
  <2> QED BY <1>c, <2>1, <2>3, OrdinaryJob
<1>3. CASE JobSucceeded
  <2>1. Growth /\ JobOK(DownSet)'
    BY <1>3, <1>a, CallsGrowth DEF JobSucceeded, deleteOldOSDRemovalJobErrs
  <2>2. Ordinary(inst)
    BY <1>3, <1>b, <1>d DEF JobSucceeded, AtJob, At, Ordinary
  <2> QED BY <2>1, <2>2, OrdinaryJob
<1>4. CASE WaitForPersistenVolumeBound
  <2>1. /\ NoCall \/ \E gone \in SUBSET Ids(inst) : deletePVs(gone)
        /\ Return(inst, "requeue") \/ Advance(inst, "RestartStorageOperator")
        /\ pc # "idle"
    BY <1>4 DEF WaitForPersistenVolumeBound, Ids, At
  <2>2. Ids(inst) \in SUBSET OSD
    BY <1>b, DeviceIds DEF Ids
  <2>3. Growth /\ JobOK(DownSet)'
    BY <1>a, <2>1, <2>2, CallsGrowth
  <2>4. Ordinary(inst)
    BY <1>b, <1>d, <2>1 DEF Ordinary
  <2> QED BY <2>3, <2>4, OrdinaryJob
<1>5. CASE RestartStorageOperator \/ DeleteFailedPodsNodeAffinity
  <2>1. Growth /\ JobOK(DownSet)'
    BY <1>5, <1>a, CallsGrowth DEF RestartStorageOperator, DeleteFailedPodsNodeAffinity
  <2>2. Ordinary(inst)
    BY <1>5, <1>b, <1>d DEF RestartStorageOperator, DeleteFailedPodsNodeAffinity, At, Ordinary
  <2> QED BY <2>1, <2>2, OrdinaryJob
<1>6. CASE StorageClusterFitnessCheck
  <2>1. Growth /\ JobOK(DownSet)'
    BY <1>6, <1>a, CallsGrowth DEF StorageClusterFitnessCheck
  <2>2. Ordinary(inst)
    BY <1>6, <1>b, <1>d DEF StorageClusterFitnessCheck, At, Ordinary
  <2> QED BY <2>1, <2>2, OrdinaryJob
<1>7. CASE DisableCephTools
  <2> DEFINE s == [inst EXCEPT !.phase = "Completed", !.completionTime = TRUE]
  <2>1. Return(s, "done") /\ pc # "idle"
    BY <1>7 DEF DisableCephTools, At
  <2>2. Growth /\ JobOK(DownSet)'
    BY <1>7, <1>a, CallsGrowth DEF DisableCephTools
  <2>3. /\ s \in StartedStatus /\ s.startTime
        /\ s.conditions = inst.conditions /\ s.nodeDevice = inst.nodeDevice
    BY <1>b, <2>1 DEF StartedStatus, NodeRecoveryStatus, RecoveryPhase
  <2> HIDE DEF s
  <2>4. Ordinary(s)
    BY <2>1, <2>3 DEF Ordinary
  <2> QED BY <2>2, <2>4, OrdinaryJob
<1> QED BY <1>1, <1>2, <1>3, <1>4, <1>5, <1>6, <1>7

\* What every copy of a status says of the cluster is true, in every reachable
\* state.
LEMMA JobInvCorrect == Spec => []JobInv
<1>1. TypeInv /\ JobInv /\ [Next]_vars => JobInv'
  <2> SUFFICES ASSUME TypeInv, JobInv, [Next]_vars PROVE JobInv'
    OBVIOUS
  <2>1. CASE Handler
    BY <2>1, EarlyHandlersJob, ScaleHandlersJob, JobHandlersJob, LateHandlersJob
       DEF Handler, handleCrashLoopBackOffPodsPanics
  <2>2. CASE UNCHANGED vars
    BY <2>2, NoCallJob, WorkerKept DEF vars, apiVars, workerVars
  <2> QED BY <2>1, <2>2, EnvironmentJob, ReconcileJob DEF Next
<1> QED BY <1>1, TypeCorrect, JobInit, PTL DEF Spec

(***************************************************************************)
(* Whatever is repeated, interrupted or run on an outdated copy, a removal *)
(* job that exists has OSDs to remove, and each of them has its deployment *)
(* scaled to zero and no pod: the job never purges an OSD in service.      *)
(***************************************************************************)
THEOREM JobTargetsDownCorrect == Spec => []JobTargetsDown
  BY JobInvCorrect, JobInvImplies, PTL
================================================================================
