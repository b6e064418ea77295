-------------------------- MODULE RecoveryFlowProofs --------------------------
(***************************************************************************)
(* The stored statuses: exactly the last condition of each is "True", and  *)
(* each moves along the abstract flow, for every number of OSDs and of     *)
(* concurrent recoveries and under every fault.                            *)
(***************************************************************************)
EXTENDS NodeRecoveryProofs

\* What transitionNextCondition keeps up in a condition list.
OneTrue(s) ==
  \A i \in DOMAIN s.conditions :
    (s.conditions[i].status = "True") = (i = Len(s.conditions))

(***************************************************************************)
(* What holds of every copy of a status: nothing is recorded before the    *)
(* recovery starts, and forced deletion is only entered with the note that *)
(* pods were failing.                                                      *)
(***************************************************************************)
WellKept(s) ==
  /\ ~s.startTime => s = EmptyStatus
  /\ OneTrue(s)
  /\ s.startTime /\ getLatestCondition(s) = "ForceDeleteRookCephOSDPods"
       => s.crashLoopBackOffPods

CopyInv ==
  /\ \A c \in CR : WellKept(store[c]) /\ WellKept(cache[c]) /\ UniqueConditionTypes(store[c])
  /\ WellKept(inst)
  /\ pc = "scale" => /\ inst.crashLoopBackOffPods
                     /\ getLatestCondition(inst) = "ManageCrashLoopBackOffPods"
  /\ pc = "enable" => getLatestCondition(inst) = "EnableCephToolsPod"

\* What the outer Reconcile hands to the recoverer.
Begun(s) == IF s.startTime THEN s ELSE initStatus(s)

\* Two statuses that the flow cannot tell apart.
SameRecord(n, s) ==
  /\ n.phase = s.phase /\ n.startTime = s.startTime /\ n.conditions = s.conditions
  /\ n.age = s.age /\ n.nodeDevice = s.nodeDevice
  /\ n.keepCephToolsPod = s.keepCephToolsPod

\* The facts a status has recorded are the same in another.
SameFacts(n, s) == Ids(n) = Ids(s) /\ n.keepCephToolsPod = s.keepCephToolsPod

\* What a reconciliation that began with the stored status s may save: it is
\* one step of the flow away, or the API server refuses it.
MaySave(s, n) ==
  LET from == getLatestCondition(Begun(s))
      to   == FlowAt(n)
  IN  \/ ~UniqueConditionTypes(n)
      \/ to = from /\ SameFacts(n, s)
      \/ to = "Failed" /\ s.startTime /\ SameFacts(n, s)
      \/ to = "Completed" /\ s.startTime /\ from = "DisableCephTools" /\ SameFacts(n, s)
      \/ /\ to \in Flow!Following(from)
         /\ IF to = "ForceDeleteRookCephOSDPods" THEN Ids(n) # {} ELSE Ids(n) = Ids(s)
         /\ from # "EnableCephToolsPod" => n.keepCephToolsPod = s.keepCephToolsPod

(***************************************************************************)
(* While the worker's copy has the latest resourceVersion it differs from  *)
(* the stored status by what this reconciliation did, and by nothing else. *)
(***************************************************************************)
FreshInv ==
  /\ \A c \in CR : synced[c] => cache[c] = store[c]
  /\ \A c \in CR : view[c] => api[c] # "absent"
  /\ pc # "idle" => api[cur] # "absent"
  /\ pc # "idle" /\ fresh =>
       /\ synced[cur]
       /\ store[cur].phase \notin TerminalPhase
       /\ pc # "update" => SameRecord(inst, Begun(store[cur]))
       /\ pc = "update" => MaySave(store[cur], inst)

-------------------------------------------------------------------------------
\* The status of a new resource has no condition at all.
LEMMA EmptyWellKept == WellKept(EmptyStatus) /\ UniqueConditionTypes(EmptyStatus)
  BY EmptyStatusType DEF WellKept, OneTrue, UniqueConditionTypes

\* A transition leaves one condition "True", the last one.
LEMMA TransitionWellKept ==
  ASSUME NEW s \in StartedStatus, s.startTime, WellKept(s), NEW t \in ConditionType,
         t = "ForceDeleteRookCephOSDPods" => s.crashLoopBackOffPods
  PROVE  WellKept(transitionNextCondition(s, t))
<1> DEFINE n   == transitionNextCondition(s, t)
           len == Len(s.conditions)
<1>1. s \in NodeRecoveryStatus /\ s.conditions # <<>>
  BY DEF StartedStatus
<1>2. /\ len \in Nat /\ DOMAIN s.conditions = 1..len
      /\ Len(n.conditions) = len + 1 /\ DOMAIN n.conditions = 1..(len + 1)
      /\ n.conditions[len + 1] = NewCondition(t)
      /\ n.conditions[len].status = "False"
      /\ \A i \in 1..(len - 1) : n.conditions[i] = s.conditions[i]
  BY <1>1, TransitionConditions
<1>3. getLatestCondition(n) = t /\ n.startTime /\ n.crashLoopBackOffPods = s.crashLoopBackOffPods
  BY <1>1, TransitionType, TransitionKeeps
<1> HIDE DEF n
<1>4. OneTrue(n)
  <2> SUFFICES ASSUME NEW i \in 1..(len + 1)
               PROVE  (n.conditions[i].status = "True") = (i = len + 1)
    BY <1>2 DEF OneTrue
  <2>1. CASE i = len + 1
    BY <1>2, <2>1 DEF NewCondition
  <2>2. CASE i = len
    BY <1>2, <2>2
  <2>3. CASE i \in 1..(len - 1)
    <3>1. n.conditions[i] = s.conditions[i] /\ i \in DOMAIN s.conditions /\ i # len
      BY <1>2, <2>3
    <3>2. s.conditions[i].status # "True"
      BY <3>1 DEF WellKept, OneTrue
    <3> QED BY <1>2, <2>3, <3>1, <3>2
  <2> QED BY <1>2, <2>1, <2>2, <2>3
<1> QED BY <1>3, <1>4 DEF WellKept, n

\* A transition to the condition the status is in has its type twice.
LEMMA RepeatedCondition ==
  ASSUME NEW s \in StartedStatus, s.startTime, NEW t \in ConditionType,
         getLatestCondition(s) = t
  PROVE  ~UniqueConditionTypes(transitionNextCondition(s, t))
<1> DEFINE n   == transitionNextCondition(s, t)
           len == Len(s.conditions)
<1>1. s \in NodeRecoveryStatus /\ s.conditions # <<>>
  BY DEF StartedStatus
<1>2. len \in 1..len
  BY <1>1, LatestConditionType
<1>3. /\ len \in Nat /\ DOMAIN n.conditions = 1..(len + 1)
      /\ n.conditions[len + 1] = NewCondition(t)
      /\ \A i \in 1..len : n.conditions[i].type = s.conditions[i].type
  BY <1>1, TransitionConditions
<1> HIDE DEF n
<1>4. n.conditions[len].type = t /\ n.conditions[len + 1].type = t
  BY <1>2, <1>3 DEF getLatestCondition, NewCondition
<1> QED BY <1>2, <1>3, <1>4 DEF UniqueConditionTypes, n

\* Only these fields matter, once the recovery has started.
LEMMA FrameWellKept ==
  ASSUME NEW s, NEW n, WellKept(s), n.conditions = s.conditions, n.startTime,
         s.startTime, s.crashLoopBackOffPods => n.crashLoopBackOffPods
  PROVE  WellKept(n)
  BY DEF WellKept, OneTrue, getLatestCondition

\* Ageing changes nothing but the age, and not before the recovery starts.
LEMMA OlderWellKept ==
  ASSUME NEW s \in StartedStatus, WellKept(s)
  PROVE  /\ WellKept(Older(s))
         /\ UniqueConditionTypes(s) => UniqueConditionTypes(Older(s))
         /\ FlowAt(Older(s)) = FlowAt(s) /\ Ids(Older(s)) = Ids(s)
         /\ Older(s).keepCephToolsPod = s.keepCephToolsPod
         /\ Older(s).phase = s.phase
<1>1. /\ Older(s).conditions = s.conditions /\ Older(s).startTime = s.startTime
      /\ Older(s).crashLoopBackOffPods = s.crashLoopBackOffPods /\ Older(s).phase = s.phase
      /\ Older(s).nodeDevice = s.nodeDevice /\ Older(s).keepCephToolsPod = s.keepCephToolsPod
  BY DEF Older, StartedStatus, NodeRecoveryStatus
<1>2. Older(EmptyStatus) = EmptyStatus
  BY EmptyStatusType DEF Older, EmptyStatus
<1>3. WellKept(Older(s))
  BY <1>1, <1>2 DEF WellKept, OneTrue, getLatestCondition
<1> QED BY <1>1, <1>3 DEF UniqueConditionTypes, FlowAt, Latest, Started, getLatestCondition, Ids

\* The recoverer is handed a started status that records what was stored.
LEMMA BegunFacts ==
  ASSUME NEW s \in StartedStatus, WellKept(s)
  PROVE  /\ Begun(s) \in StartedStatus /\ Begun(s).startTime /\ WellKept(Begun(s))
         /\ SameFacts(Begun(s), s)
         /\ s.phase \notin TerminalPhase => Begun(s).phase \notin TerminalPhase
         /\ ~s.startTime => /\ Begun(s).age = 0
                            /\ getLatestCondition(Begun(s)) = "EnableCephToolsPod"
<1>1. CASE s.startTime
  BY <1>1 DEF Begun, SameFacts
<1>2. CASE ~s.startTime
  <2> DEFINE b == initStatus(s)
  <2>1. s = EmptyStatus /\ Begun(s) = b
    BY <1>2 DEF WellKept, Begun
  <2>2. /\ b \in StartedStatus /\ b.startTime /\ b.nodeDevice = s.nodeDevice
        /\ getLatestCondition(b) = "EnableCephToolsPod"
    BY InitStatusType
  <2>3. /\ b.phase = "Running" /\ b.age = 0 /\ b.keepCephToolsPod = s.keepCephToolsPod
        /\ b.conditions = Append(EmptyStatus.conditions, NewCondition("EnableCephToolsPod"))
    BY <2>1 DEF initStatus, EmptyStatus
  <2>a. b.conditions = <<NewCondition("EnableCephToolsPod")>>
    BY <2>3, EmptyStatusType
  <2>4. OneTrue(b)
    BY <2>a DEF OneTrue, NewCondition
  <2> HIDE DEF b
  <2> QED BY <2>1, <2>2, <2>3, <2>4 DEF WellKept, SameFacts, Ids, TerminalPhase
<1> QED BY <1>1, <1>2

-------------------------------------------------------------------------------
(***************************************************************************)
(* What a step of a handler can do to the worker's copy.  Every handler    *)
(* does one of seven things.                                               *)
(***************************************************************************)
Handles(n) ==
  /\ n \in StartedStatus /\ n.startTime /\ n.conditions = inst.conditions
  /\ inst.crashLoopBackOffPods => n.crashLoopBackOffPods
  /\ inst.pendingPods => n.pendingPods

\* Returns with the record as it was.
Stays == \E n, r : Handles(n) /\ SameRecord(n, inst) /\ Return(n, r)

\* Goes on to another step of the handler.
Works ==
  \E n : /\ Handles(n) /\ SameRecord(n, inst) /\ inst' = n
         /\ UNCHANGED <<apiVars, cur, fresh>>
         /\ pc' \in {"enable", "scale", "create"}
         /\ pc' = "enable" => getLatestCondition(inst) = "EnableCephToolsPod"
         /\ pc' = "scale" => /\ getLatestCondition(inst) = "ManageCrashLoopBackOffPods"
                             /\ n.crashLoopBackOffPods

\* Enters a terminal phase.
Ends(phase) ==
  \E n, r : /\ Handles(n) /\ n.phase = phase
            /\ n.nodeDevice = inst.nodeDevice /\ n.keepCephToolsPod = inst.keepCephToolsPod
            /\ Return(n, r)
Fails ==
  /\ Ends("Failed")
  /\ inst.age >= reconciliationTimeout \/ getLatestCondition(inst) # "EnableCephToolsPod"
Completes == Ends("Completed") /\ getLatestCondition(inst) = "DisableCephTools"

\* Enters a condition that follows, with what it has found out.
Proceeds ==
  \E n, t :
    /\ Handles(n) /\ n.phase = inst.phase
    /\ t \in ConditionType /\ t \in Flow!Following(getLatestCondition(inst))
    /\ IF t = "ForceDeleteRookCephOSDPods"
       THEN Ids(n) # {} /\ n.crashLoopBackOffPods
       ELSE n.nodeDevice = inst.nodeDevice
    /\ getLatestCondition(inst) = "EnableCephToolsPod" \/ n.keepCephToolsPod = inst.keepCephToolsPod
    /\ Advance(n, t)

\* Enters the condition it is in once more.
Repeats ==
  /\ pc = "reconcile" /\ inst.crashLoopBackOffPods
  /\ getLatestCondition(inst) = "ForceDeleteRookCephOSDPods"
  /\ Advance(inst, "ForceDeleteRookCephOSDPods")

\* Panics on an OSD without a claim, or on a pod that is not terminating.
Panics ==
  /\ Panic
  /\ \/ /\ pc = "scale" /\ todo \ OverPVC # {}
        /\ getLatestCondition(inst) = "ManageCrashLoopBackOffPods"
     \/ pc = "reconcile" /\ getLatestCondition(inst) = "ForceDeleteRookCephOSDPods"

HandlerStep == Panics \/ Stays \/ Works \/ Fails \/ Completes \/ Proceeds \/ Repeats

\* The conditions in their order.
LEMMA FollowingValues ==
  /\ Flow!Following("EnableCephToolsPod") = {"WaitForCephToolsPodRunning"}
  /\ Flow!Following("WaitForCephToolsPodRunning") = {"WaitForOSDPodsStabilize"}
  /\ Flow!Following("WaitForOSDPodsStabilize") = {"LabelNodesWithPendingPods"}
  /\ Flow!Following("LabelNodesWithPendingPods") = {"ManageCrashLoopBackOffPods"}
  /\ Flow!Following("ManageCrashLoopBackOffPods") =
       {"ForceDeleteRookCephOSDPods", "RestartStorageOperator"}
  /\ Flow!Following("ForceDeleteRookCephOSDPods") = {"ProcessOCSRemovalTemplate"}
  /\ Flow!Following("ProcessOCSRemovalTemplate") = {"CleanupOSDRemovalJob"}
  /\ Flow!Following("CleanupOSDRemovalJob") =
       {"RetryForceCleanupOSDRemovalJob", "WaitForPersistenVolumeBound"}
  /\ Flow!Following("RetryForceCleanupOSDRemovalJob") = {"WaitForPersistenVolumeBound"}
  /\ Flow!Following("WaitForPersistenVolumeBound") = {"RestartStorageOperator"}
  /\ Flow!Following("RestartStorageOperator") = {"DeleteFailedPodsNodeAffinity"}
  /\ Flow!Following("DeleteFailedPodsNodeAffinity") = {"StorageClusterFitnessCheck"}
  /\ Flow!Following("StorageClusterFitnessCheck") = {"DisableCephTools"}
  /\ Flow!Following("DisableCephTools") = {}
  BY DEF Flow!Following

\* A handler that enters the next condition with its copy as it is.
LEMMA PlainAdvance ==
  ASSUME TypeInv, pc # "idle", NEW t \in ConditionType,
         t \in Flow!Following(getLatestCondition(inst)),
         t # "ForceDeleteRookCephOSDPods", Advance(inst, t)
  PROVE  Proceeds
<1>1. inst \in StartedStatus /\ inst.startTime
  BY DEF TypeInv, WorkerInv
<1> QED BY <1>1 DEF Proceeds, Handles

\* A handler that returns its copy as it is.
LEMMA PlainReturn ==
  ASSUME TypeInv, pc # "idle", NEW r, Return(inst, r)
  PROVE  Stays
<1>1. inst \in StartedStatus /\ inst.startTime
  BY DEF TypeInv, WorkerInv
<1> QED BY <1>1 DEF Stays, Handles, SameRecord

\* A handler that goes on with its copy as it is.
LEMMA PlainGoOn ==
  ASSUME TypeInv, pc # "idle",
         \/ GoOn("create")
         \/ GoOn("enable") /\ getLatestCondition(inst) = "EnableCephToolsPod"
  PROVE  Works
<1>1. inst \in StartedStatus /\ inst.startTime
  BY DEF TypeInv, WorkerInv
<1> QED BY <1>1 DEF Works, Handles, SameRecord, GoOn

\* The handlers before the failing OSDs are taken down.
LEMMA EarlyHandlersStep ==
  ASSUME TypeInv, CopyInv
  PROVE  /\ ReconciliationTimeout \/ CallFails => HandlerStep
         /\ EnableCephToolsPod \/ enableCephTools => HandlerStep
         /\ WaitForCephToolsPodRunning \/ WaitForOSDPodsStabilize => HandlerStep
         /\ LabelNodesWithPendingPods => HandlerStep
<1>a. inst \in StartedStatus /\ (pc # "idle" => inst.startTime)
  BY DEF TypeInv, WorkerInv
<1>b. {"WaitForCephToolsPodRunning", "WaitForOSDPodsStabilize",
       "LabelNodesWithPendingPods", "ManageCrashLoopBackOffPods"} \subseteq ConditionType
  BY DEF ConditionType
<1>1. CASE ReconciliationTimeout
  <2> DEFINE n == [inst EXCEPT !.phase = "Failed"]
  <2>1. Return(n, "done") /\ pc # "idle" /\ inst.age >= reconciliationTimeout
    BY <1>1 DEF ReconciliationTimeout
  <2>2. /\ Handles(n) /\ n.phase = "Failed"
        /\ n.nodeDevice = inst.nodeDevice /\ n.keepCephToolsPod = inst.keepCephToolsPod
    BY <1>a, <2>1 DEF Handles, StartedStatus, NodeRecoveryStatus, RecoveryPhase
  <2> HIDE DEF n
  <2> QED BY <2>1, <2>2 DEF Fails, Ends, HandlerStep
<1>2. CASE CallFails
  BY <1>2, PlainReturn DEF CallFails, HandlerStep
<1>3. CASE EnableCephToolsPod
  <2> DEFINE n == [inst EXCEPT !.keepCephToolsPod = TRUE]
  <2>1. /\ Advance(n, "WaitForCephToolsPodRunning") \/ GoOn("enable")
        /\ pc # "idle" /\ getLatestCondition(inst) = "EnableCephToolsPod"
    BY <1>3 DEF EnableCephToolsPod, At
  <2>2. Handles(n) /\ n.phase = inst.phase /\ n.nodeDevice = inst.nodeDevice
    BY <1>a, <2>1 DEF Handles, StartedStatus, NodeRecoveryStatus
  <2> HIDE DEF n
  <2>3. CASE Advance(n, "WaitForCephToolsPodRunning")
    BY <1>b, <2>1, <2>2, <2>3, FollowingValues DEF Proceeds, HandlerStep
  <2> QED BY <2>1, <2>3, PlainGoOn DEF HandlerStep
<1>4. CASE enableCephTools
  BY <1>4, <1>b, PlainReturn, PlainAdvance, FollowingValues
     DEF enableCephTools, CopyInv, HandlerStep
<1>5. CASE WaitForCephToolsPodRunning
  BY <1>5, <1>b, PlainReturn, PlainAdvance, FollowingValues
     DEF WaitForCephToolsPodRunning, At, HandlerStep
<1>6. CASE WaitForOSDPodsStabilize
  BY <1>6, <1>b, PlainReturn, PlainAdvance, FollowingValues
     DEF WaitForOSDPodsStabilize, At, HandlerStep
<1>7. CASE LabelNodesWithPendingPods
  <2> DEFINE n == [inst EXCEPT !.pendingPods = TRUE]
  <2>1. pc # "idle" /\ getLatestCondition(inst) = "LabelNodesWithPendingPods"
    BY <1>7 DEF LabelNodesWithPendingPods, At
  <2>2. Handles(n) /\ SameRecord(n, inst)
    BY <1>a, <2>1 DEF Handles, SameRecord, StartedStatus, NodeRecoveryStatus
  <2> HIDE DEF n
  <2>3. \/ Advance(inst, "ManageCrashLoopBackOffPods")
        \/ Advance(n, "ManageCrashLoopBackOffPods")
        \/ Return(n, "error")
    BY <1>7 DEF LabelNodesWithPendingPods, n
  <2>4. CASE Advance(inst, "ManageCrashLoopBackOffPods")
    BY <1>b, <2>1, <2>4, PlainAdvance, FollowingValues DEF HandlerStep
  <2>5. CASE Advance(n, "ManageCrashLoopBackOffPods")
    <3>1. Proceeds
      BY <1>b, <2>1, <2>2, <2>5, FollowingValues DEF Proceeds, SameRecord
    <3> QED BY <3>1 DEF HandlerStep
  <2>6. CASE Return(n, "error")
    BY <2>2, <2>6 DEF Stays, HandlerStep
  <2> QED BY <2>3, <2>4, <2>5, <2>6
<1> QED BY <1>1, <1>2, <1>3, <1>4, <1>5, <1>6, <1>7

\* Taking the failing OSDs down, and waiting for their pods to go.
LEMMA ScaleHandlersStep ==
  ASSUME TypeInv, JobInv, CopyInv
  PROVE  /\ ManageCrashLoopBackOffPods => HandlerStep
         /\ \A o \in OSD : handleCrashLoopBackOffPods(o) => HandlerStep
         /\ handleCrashLoopBackOffPodsFails => HandlerStep
         /\ handleCrashLoopBackOffPodsPanics => HandlerStep
         /\ ManageDone => HandlerStep
         /\ ForceDeleteRookCephOSDPods => HandlerStep
<1>a. inst \in StartedStatus /\ (pc # "idle" => inst.startTime)
  BY DEF TypeInv, WorkerInv
<1>b. {"RestartStorageOperator", "ForceDeleteRookCephOSDPods",
       "ProcessOCSRemovalTemplate"} \subseteq ConditionType
  BY DEF ConditionType
<1>1. CASE ManageCrashLoopBackOffPods
  <2>1. pc # "idle" /\ getLatestCondition(inst) = "ManageCrashLoopBackOffPods"
    BY <1>1 DEF ManageCrashLoopBackOffPods, At
  <2>2. CASE Advance(inst, "RestartStorageOperator")
    BY <1>b, <2>1, <2>2, PlainAdvance, FollowingValues DEF HandlerStep
  <2>3. CASE pc' = "scale"
    <3> DEFINE ids == IF operationalOSDPods = {} THEN inst.operationalOSDIDs
                      ELSE operationalOSDPods
    <3>1. /\ inst' = [inst EXCEPT !.operationalOSDIDs = ids, !.crashLoopBackOffPods = TRUE]
          /\ UNCHANGED <<apiVars, cur, fresh>>
      BY <1>1, <2>3 DEF ManageCrashLoopBackOffPods, Advance, Return
    <3>2. ids \in SUBSET OSDPod
      BY <1>a DEF operationalOSDPods, getOSDPods, StartedStatus, NodeRecoveryStatus
    <3> HIDE DEF ids
    <3>3. Handles(inst') /\ SameRecord(inst', inst) /\ inst'.crashLoopBackOffPods
      BY <1>a, <2>1, <3>1, <3>2 DEF Handles, SameRecord, StartedStatus, NodeRecoveryStatus
    <3> QED BY <2>1, <2>3, <3>1, <3>3 DEF Works, HandlerStep
  <2> QED BY <1>1, <2>2, <2>3 DEF ManageCrashLoopBackOffPods
<1>2. ASSUME NEW o \in OSD, handleCrashLoopBackOffPods(o) PROVE HandlerStep
  <2>1. /\ pc = "scale" /\ pc' = pc /\ inst' = inst /\ UNCHANGED <<apiVars, cur, fresh>>
        /\ inst.crashLoopBackOffPods /\ getLatestCondition(inst) = "ManageCrashLoopBackOffPods"
    BY <1>2 DEF handleCrashLoopBackOffPods, CopyInv
  <2>2. Handles(inst) /\ SameRecord(inst, inst)
    BY <1>a, <2>1 DEF Handles, SameRecord
  <2> QED BY <2>1, <2>2 DEF Works, HandlerStep
<1>3. CASE handleCrashLoopBackOffPodsFails
  BY <1>3, PlainReturn DEF handleCrashLoopBackOffPodsFails, HandlerStep
<1>4. CASE handleCrashLoopBackOffPodsPanics
  BY <1>4 DEF handleCrashLoopBackOffPodsPanics, CopyInv, Panics, HandlerStep
<1>5. CASE ManageDone
  <2> DEFINE n == [inst EXCEPT !.nodeDevice = nodePV]
  <2>1. /\ Advance(n, "ForceDeleteRookCephOSDPods") /\ pc = "scale" /\ todo = {}
        /\ inst.crashLoopBackOffPods /\ getLatestCondition(inst) = "ManageCrashLoopBackOffPods"
    BY <1>5 DEF ManageDone, CopyInv
  <2>2. /\ Handles(n) /\ n.phase = inst.phase /\ n.nodeDevice = nodePV
        /\ n.keepCephToolsPod = inst.keepCephToolsPod /\ n.crashLoopBackOffPods
    BY <1>a, <2>1 DEF Handles, StartedStatus, NodeRecoveryStatus, TypeInv, WorkerInv
  <2>3. Ids(n) # {}
    BY <2>1, <2>2 DEF Ids, JobInv, LoopOK
  <2> HIDE DEF n
  <2> QED BY <1>b, <2>1, <2>2, <2>3, FollowingValues DEF Proceeds, HandlerStep
<1>6. CASE ForceDeleteRookCephOSDPods
  <2>1. pc = "reconcile" /\ getLatestCondition(inst) = "ForceDeleteRookCephOSDPods"
    BY <1>6 DEF ForceDeleteRookCephOSDPods, At
  <2>2. inst.crashLoopBackOffPods
    BY <1>a, <2>1 DEF CopyInv, WellKept
  <2>3. \/ Panic \/ Return(inst, "requeue")
        \/ Advance(inst, "ProcessOCSRemovalTemplate")
        \/ Advance(inst, "ForceDeleteRookCephOSDPods")
    BY <1>6, <2>2 DEF ForceDeleteRookCephOSDPods
  <2>4. CASE Advance(inst, "ProcessOCSRemovalTemplate")
    BY <1>b, <2>1, <2>4, PlainAdvance, FollowingValues DEF HandlerStep
  <2> QED BY <2>1, <2>2, <2>3, <2>4, PlainReturn DEF Panics, Repeats, HandlerStep
<1> QED BY <1>1, <1>2, <1>3, <1>4, <1>5, <1>6

\* The removal job, and everything after it.
LEMMA LateHandlersStep ==
  ASSUME TypeInv
  PROVE  /\ ProcessOCSRemovalTemplate \/ ReplaceOSDRemovalJob => HandlerStep
         /\ CreateOSDRemovalJob => HandlerStep
         /\ CreateForcedOSDRemovalJob => HandlerStep
         /\ WaitForJob \/ JobSucceeded => HandlerStep
         /\ RetryTimedOut \/ validateJobLogs => HandlerStep
         /\ WaitForPersistenVolumeBound \/ RestartStorageOperator => HandlerStep
         /\ DeleteFailedPodsNodeAffinity \/ StorageClusterFitnessCheck => HandlerStep
         /\ DisableCephTools => HandlerStep
<1>a. inst \in StartedStatus /\ (pc # "idle" => inst.startTime)
  BY DEF TypeInv, WorkerInv
<1>b. {"CleanupOSDRemovalJob", "RetryForceCleanupOSDRemovalJob",
       "WaitForPersistenVolumeBound", "RestartStorageOperator",
       "DeleteFailedPodsNodeAffinity", "StorageClusterFitnessCheck",
       "DisableCephTools"} \subseteq ConditionType
  BY DEF ConditionType
<1>1. CASE ProcessOCSRemovalTemplate \/ ReplaceOSDRemovalJob
  BY <1>1, PlainReturn, PlainGoOn
     DEF ProcessOCSRemovalTemplate, ReplaceOSDRemovalJob, At, HandlerStep
<1>2. CASE CreateOSDRemovalJob
  <2> DEFINE forced == Cardinality(getOSDPods) <= MaxForcedPods
             n      == [inst EXCEPT !.forcedOSDRemoval = forced]
  <2>1. /\ pc # "idle" /\ getLatestCondition(inst) = "ProcessOCSRemovalTemplate"
        /\ forced \in BOOLEAN
        /\ Advance(n, "CleanupOSDRemovalJob") \/ Return(n, "error") \/ Return(inst, "error")
    BY <1>2 DEF CreateOSDRemovalJob
  <2> HIDE DEF forced
  <2>2. Handles(n) /\ SameRecord(n, inst)
    BY <1>a, <2>1 DEF Handles, SameRecord, StartedStatus, NodeRecoveryStatus
  <2> HIDE DEF n
  <2>3. CASE Advance(n, "CleanupOSDRemovalJob")
    <3>1. Proceeds
      BY <1>b, <2>1, <2>2, <2>3, FollowingValues DEF Proceeds, SameRecord
    <3> QED BY <3>1 DEF HandlerStep
  <2>4. CASE Return(n, "error")
    BY <2>2, <2>4 DEF Stays, HandlerStep
  <2> QED BY <2>1, <2>3, <2>4, PlainReturn DEF HandlerStep
<1>3. CASE CreateForcedOSDRemovalJob
  <2> DEFINE n == [inst EXCEPT !.forcedOSDRemoval = TRUE]
  <2>1. /\ pc # "idle" /\ getLatestCondition(inst) = "CleanupOSDRemovalJob"
        /\ Advance(n, "RetryForceCleanupOSDRemovalJob") \/ Return(inst, "error")
    BY <1>3 DEF CreateForcedOSDRemovalJob
  <2>2. Handles(n) /\ SameRecord(n, inst)
    BY <1>a, <2>1 DEF Handles, SameRecord, StartedStatus, NodeRecoveryStatus
  <2> HIDE DEF n
  <2>3. CASE Advance(n, "RetryForceCleanupOSDRemovalJob")
    <3>1. Proceeds
      BY <1>b, <2>1, <2>2, <2>3, FollowingValues DEF Proceeds, SameRecord
    <3> QED BY <3>1 DEF HandlerStep
  <2> QED BY <2>1, <2>3, PlainReturn DEF HandlerStep
<1>4. CASE WaitForJob \/ JobSucceeded
  <2>1. /\ pc # "idle"
        /\ "WaitForPersistenVolumeBound" \in Flow!Following(getLatestCondition(inst))
        /\ \/ Advance(inst, "WaitForPersistenVolumeBound")
           \/ \E r : Return(inst, r)
    BY <1>4, FollowingValues DEF WaitForJob, JobSucceeded, AtJob, At
  <2> QED BY <1>b, <2>1, PlainReturn, PlainAdvance DEF HandlerStep
<1>5. CASE RetryTimedOut \/ validateJobLogs
  <2> DEFINE n == [inst EXCEPT !.phase = "Failed"]
  <2>1. /\ Return(n, "done") \/ Return(n, "error")
        /\ pc # "idle" /\ getLatestCondition(inst) # "EnableCephToolsPod"
    BY <1>5 DEF RetryTimedOut, validateJobLogs, AtJob, At
  <2>2. /\ Handles(n) /\ n.phase = "Failed"
        /\ n.nodeDevice = inst.nodeDevice /\ n.keepCephToolsPod = inst.keepCephToolsPod
    BY <1>a, <2>1 DEF Handles, StartedStatus, NodeRecoveryStatus, RecoveryPhase
  <2> HIDE DEF n
  <2> QED BY <2>1, <2>2 DEF Fails, Ends, HandlerStep
<1>6. CASE WaitForPersistenVolumeBound
  <2>1. /\ pc # "idle" /\ getLatestCondition(inst) = "WaitForPersistenVolumeBound"
        /\ Return(inst, "requeue") \/ Advance(inst, "RestartStorageOperator")
    BY <1>6 DEF WaitForPersistenVolumeBound, At
  <2> QED BY <1>b, <2>1, PlainReturn, PlainAdvance, FollowingValues DEF HandlerStep
<1>7. CASE RestartStorageOperator
  BY <1>7, <1>b, PlainAdvance, FollowingValues DEF RestartStorageOperator, At, HandlerStep
<1>8. CASE DeleteFailedPodsNodeAffinity
  BY <1>8, <1>b, PlainReturn, PlainAdvance, FollowingValues
     DEF DeleteFailedPodsNodeAffinity, At, HandlerStep
<1>9. CASE StorageClusterFitnessCheck
  BY <1>9, <1>b, PlainReturn, PlainAdvance, FollowingValues
     DEF StorageClusterFitnessCheck, At, HandlerStep
<1>10. CASE DisableCephTools
  <2> DEFINE n == [inst EXCEPT !.phase = "Completed", !.completionTime = TRUE]
  <2>1. /\ Return(n, "done")
        /\ pc # "idle" /\ getLatestCondition(inst) = "DisableCephTools"
    BY <1>10 DEF DisableCephTools, At
  <2>2. /\ Handles(n) /\ n.phase = "Completed"
        /\ n.nodeDevice = inst.nodeDevice /\ n.keepCephToolsPod = inst.keepCephToolsPod
    BY <1>a, <2>1 DEF Handles, StartedStatus, NodeRecoveryStatus, RecoveryPhase
  <2> HIDE DEF n
  <2> QED BY <2>1, <2>2 DEF Completes, Ends, HandlerStep
<1> QED BY <1>1, <1>2, <1>3, <1>4, <1>5, <1>6, <1>7, <1>8, <1>9, <1>10

\* The worker holds a resource that has started, and is not done with it.
LEMMA HandlerBusy ==
  ASSUME TypeInv, Handler
  PROVE  /\ pc \notin {"idle", "update"} /\ cur \in CR
         /\ inst \in StartedStatus /\ inst.startTime /\ inst.conditions # <<>>
<1>1. pc \in {"reconcile", "enable", "scale", "create"}
  BY DEF Handler, ReconciliationTimeout, CallFails, EnableCephToolsPod, enableCephTools,
         WaitForCephToolsPodRunning, WaitForOSDPodsStabilize, LabelNodesWithPendingPods,
         ManageCrashLoopBackOffPods, handleCrashLoopBackOffPods,
         handleCrashLoopBackOffPodsFails, handleCrashLoopBackOffPodsPanics, ManageDone,
         ForceDeleteRookCephOSDPods, ProcessOCSRemovalTemplate, CreateOSDRemovalJob,
         WaitForJob, ReplaceOSDRemovalJob, CreateForcedOSDRemovalJob, RetryTimedOut,
         validateJobLogs, JobSucceeded, WaitForPersistenVolumeBound, RestartStorageOperator,
         DeleteFailedPodsNodeAffinity, StorageClusterFitnessCheck, DisableCephTools, AtJob, At
<1> QED BY <1>1 DEF TypeInv, WorkerInv, StartedStatus

\* Every handler does one of the seven things.
LEMMA HandlerSteps == ASSUME TypeInv, JobInv, CopyInv, Handler PROVE HandlerStep
  BY EarlyHandlersStep, ScaleHandlersStep, LateHandlersStep DEF Handler

-------------------------------------------------------------------------------
\* A handler may return any status that is well kept.
LEMMA ReturnCopy ==
  ASSUME CopyInv, NEW n, NEW r, Return(n, r), WellKept(n)
  PROVE  CopyInv'
  BY DEF CopyInv, Return, apiVars

\* It may return any status the API server may see.
LEMMA ReturnFresh ==
  ASSUME FreshInv, pc # "idle", NEW n, NEW r, Return(n, r),
         fresh => MaySave(store[cur], n)
  PROVE  FreshInv'
  BY DEF FreshInv, Return, apiVars

\* The idle worker holds no copy.
LEMMA IdleFlow ==
  ASSUME Idle,
         \A c \in CR : /\ WellKept(store'[c]) /\ WellKept(cache'[c])
                       /\ UniqueConditionTypes(store'[c]),
         \A c \in CR : synced'[c] => cache'[c] = store'[c],
         \A c \in CR : view'[c] => api'[c] # "absent"
  PROVE  CopyInv' /\ FreshInv'
  BY EmptyWellKept DEF Idle, CopyInv, FreshInv

\* What a fresh copy has in common with the stored status.
LEMMA FreshFacts ==
  ASSUME TypeInv, CopyInv, FreshInv, pc \notin {"idle", "update"}, fresh
  PROVE  LET s == store[cur]
         IN  /\ s \in StartedStatus /\ WellKept(s)
             /\ inst.phase \notin TerminalPhase
             /\ getLatestCondition(inst) = getLatestCondition(Begun(s))
             /\ SameFacts(inst, s)
             /\ \/ inst.age >= reconciliationTimeout
                \/ getLatestCondition(inst) # "EnableCephToolsPod"
                => s.startTime
<1> DEFINE s == store[cur]
<1>1. cur \in CR /\ s \in StartedStatus
  BY DEF TypeInv, ApiInv, WorkerInv
<1>2. WellKept(s)
  BY <1>1 DEF CopyInv
<1>3. s.phase \notin TerminalPhase /\ SameRecord(inst, Begun(s))
  BY DEF FreshInv
<1> HIDE DEF s
<1>4. /\ SameFacts(Begun(s), s) /\ Begun(s).phase \notin TerminalPhase
      /\ ~s.startTime => /\ Begun(s).age = 0
                         /\ getLatestCondition(Begun(s)) = "EnableCephToolsPod"
  BY <1>1, <1>2, <1>3, BegunFacts
<1>5. getLatestCondition(inst) = getLatestCondition(Begun(s))
  BY <1>3 DEF SameRecord, getLatestCondition
<1>6. SameFacts(inst, s) /\ inst.phase \notin TerminalPhase
  BY <1>3, <1>4 DEF SameRecord, SameFacts, Ids
<1>7. \/ inst.age >= reconciliationTimeout
      \/ getLatestCondition(inst) # "EnableCephToolsPod"
      => s.startTime
  BY <1>3, <1>4, <1>5 DEF SameRecord, reconciliationTimeout
<1> QED BY <1>1, <1>2, <1>5, <1>6, <1>7 DEF s

\* Whatever a handler does to the record, the API server sees one step.
LEMMA HandlerFlow ==
  ASSUME TypeInv, CopyInv, FreshInv, HandlerStep,
         pc \notin {"idle", "update"}, cur \in CR,
         inst \in StartedStatus, inst.startTime, inst.conditions # <<>>
  PROVE  CopyInv' /\ FreshInv'
<1> DEFINE s    == store[cur]
           here == getLatestCondition(inst)
<1>a. /\ s \in StartedStatus /\ WellKept(s) /\ WellKept(inst)
      /\ here \in ConditionType
  BY LatestConditionType DEF TypeInv, ApiInv, CopyInv, StartedStatus
<1>b. fresh => /\ inst.phase \notin TerminalPhase
               /\ here = getLatestCondition(Begun(s))
               /\ SameFacts(inst, s)
               /\ inst.age >= reconciliationTimeout \/ here # "EnableCephToolsPod"
                    => s.startTime
  BY FreshFacts
<1>c. ASSUME NEW n, Handles(n)
      PROVE  WellKept(n) /\ getLatestCondition(n) = here
  BY <1>a, <1>c, FrameWellKept DEF Handles, getLatestCondition
<1>d. ConditionType \intersect TerminalPhase = {}
  BY DEF ConditionType, TerminalPhase
<1> HIDE DEF s, here
<1>1. CASE Panics
  BY <1>1, IdleFlow DEF Panics, Panic, apiVars, CopyInv, FreshInv
<1>2. CASE Stays
  <2>1. PICK n, r : Handles(n) /\ SameRecord(n, inst) /\ Return(n, r)
    BY <1>2 DEF Stays
  <2>2. WellKept(n) /\ getLatestCondition(n) = here
    BY <1>c, <2>1
  <2>3. fresh => MaySave(s, n)
    BY <1>b, <2>1, <2>2 DEF MaySave, SameRecord, SameFacts, Ids, FlowAt, Latest, Started, Handles
  <2> QED BY <2>1, <2>2, <2>3, ReturnCopy, ReturnFresh DEF s
<1>3. CASE Works
  <2>1. PICK n : /\ Handles(n) /\ SameRecord(n, inst) /\ inst' = n
                 /\ UNCHANGED <<apiVars, cur, fresh>>
                 /\ pc' \in {"enable", "scale", "create"}
                 /\ pc' = "enable" => here = "EnableCephToolsPod"
                 /\ pc' = "scale" => here = "ManageCrashLoopBackOffPods" /\ n.crashLoopBackOffPods
    BY <1>3 DEF Works, here
  <2>2. WellKept(n) /\ getLatestCondition(n) = here
    BY <1>c, <2>1
  <2>3. CopyInv'
    BY <2>1, <2>2 DEF CopyInv, apiVars
  <2>4. FreshInv'
    BY <2>1 DEF FreshInv, SameRecord, apiVars
  <2> QED BY <2>3, <2>4
<1>4. CASE Fails
  <2>1. PICK n, r : /\ Handles(n) /\ n.phase = "Failed"
                    /\ n.nodeDevice = inst.nodeDevice
                    /\ n.keepCephToolsPod = inst.keepCephToolsPod
                    /\ Return(n, r)
    BY <1>4 DEF Fails, Ends
  <2>2. WellKept(n)
    BY <1>c, <2>1
  <2>3. fresh => MaySave(s, n)
    BY <1>4, <1>b, <2>1 DEF Fails, MaySave, SameFacts, Ids, FlowAt, TerminalPhase, here
  <2> QED BY <2>1, <2>2, <2>3, ReturnCopy, ReturnFresh DEF s
<1>5. CASE Completes
  <2>1. PICK n, r : /\ Handles(n) /\ n.phase = "Completed"
                    /\ n.nodeDevice = inst.nodeDevice
                    /\ n.keepCephToolsPod = inst.keepCephToolsPod
                    /\ Return(n, r)
    BY <1>5 DEF Completes, Ends
  <2>2. WellKept(n) /\ here = "DisableCephTools"
    BY <1>5, <1>c, <2>1 DEF Completes, here
  <2>3. fresh => MaySave(s, n)
    BY <1>b, <2>1, <2>2 DEF MaySave, SameFacts, Ids, FlowAt, TerminalPhase
  <2> QED BY <2>1, <2>2, <2>3, ReturnCopy, ReturnFresh DEF s
<1>6. CASE Proceeds
  <2>1. PICK n, t :
          /\ Handles(n) /\ n.phase = inst.phase
          /\ t \in ConditionType /\ t \in Flow!Following(here)
          /\ IF t = "ForceDeleteRookCephOSDPods"
             THEN Ids(n) # {} /\ n.crashLoopBackOffPods
             ELSE n.nodeDevice = inst.nodeDevice
          /\ here = "EnableCephToolsPod" \/ n.keepCephToolsPod = inst.keepCephToolsPod
          /\ Advance(n, t)
    BY <1>6 DEF Proceeds, here
  <2> DEFINE next == transitionNextCondition(n, t)
  <2>2. n \in StartedStatus /\ n \in NodeRecoveryStatus /\ n.startTime /\ n.conditions # <<>>
    BY <2>1 DEF Handles, StartedStatus
  <2>3. WellKept(n)
    BY <1>c, <2>1
  <2>4. WellKept(next)
    BY <2>1, <2>2, <2>3, TransitionWellKept
  <2>5. /\ getLatestCondition(next) = t /\ next.startTime
        /\ next.nodeDevice = n.nodeDevice /\ next.phase = n.phase
        /\ next.keepCephToolsPod = n.keepCephToolsPod
    BY <2>1, <2>2, TransitionType, TransitionKeeps
  <2>6. Return(next, "requeue")
    BY <2>1 DEF Advance
  <2> HIDE DEF next
  <2>7. ASSUME fresh PROVE MaySave(s, next)
    <3>1. FlowAt(next) = t
      BY <1>b, <2>1, <2>5, <2>7 DEF FlowAt, Latest, Started
    <3>2. Ids(next) = Ids(n)
      BY <2>5 DEF Ids
    <3>3. t # "ForceDeleteRookCephOSDPods" => Ids(next) = Ids(s)
      BY <1>b, <2>1, <2>5, <2>7 DEF Ids, SameFacts
    <3>4. here # "EnableCephToolsPod" => next.keepCephToolsPod = s.keepCephToolsPod
      BY <1>b, <2>1, <2>5, <2>7 DEF SameFacts
    <3> QED BY <1>b, <2>1, <2>7, <3>1, <3>2, <3>3, <3>4 DEF MaySave
  <2> QED BY <2>4, <2>6, <2>7, ReturnCopy, ReturnFresh DEF s
<1>7. CASE Repeats
  <2> DEFINE next == transitionNextCondition(inst, "ForceDeleteRookCephOSDPods")
  <2>1. /\ here = "ForceDeleteRookCephOSDPods" /\ inst.crashLoopBackOffPods
        /\ Return(next, "requeue")
    BY <1>7 DEF Repeats, Advance, here
  <2>2. "ForceDeleteRookCephOSDPods" \in ConditionType
    BY DEF ConditionType
  <2>3. WellKept(next) /\ ~UniqueConditionTypes(next)
    BY <1>a, <2>1, <2>2, TransitionWellKept, RepeatedCondition DEF here
  <2> HIDE DEF next
  <2>4. MaySave(s, next)
    BY <2>3 DEF MaySave
  <2> QED BY <2>1, <2>3, <2>4, ReturnCopy, ReturnFresh DEF s
<1> QED BY <1>1, <1>2, <1>3, <1>4, <1>5, <1>6, <1>7 DEF HandlerStep

\* The steps of the cluster, the users, the API server, the informer and time.
LEMMA EnvironmentFlow ==
  ASSUME TypeInv, CopyInv, FreshInv, Environment
  PROVE  CopyInv' /\ FreshInv'
<1>a. /\ \A c \in CR : store[c] \in StartedStatus /\ cache[c] \in StartedStatus
      /\ \A c \in CR : /\ WellKept(store[c]) /\ WellKept(cache[c])
                       /\ UniqueConditionTypes(store[c])
      /\ pc # "idle" => cur \in CR
      /\ store \in [CR -> StartedStatus] /\ cache \in [CR -> StartedStatus]
      /\ api \in [CR -> {"absent", "live", "deleted"}]
      /\ view \in [CR -> BOOLEAN] /\ synced \in [CR -> BOOLEAN]
  BY DEF TypeInv, ApiInv, WorkerInv, CopyInv
<1>1. CASE ClusterNext /\ UNCHANGED <<apiVars, queue, workerVars, metrics, restartOwed>>
  BY <1>1 DEF apiVars, workerVars, CopyInv, FreshInv
<1>2. ASSUME NEW c \in CR, CreateCR(c) PROVE CopyInv' /\ FreshInv'
  BY <1>2, <1>a DEF CreateCR, workerVars, CopyInv, FreshInv
<1>3. ASSUME NEW c \in CR, DeleteCR(c) \/ Touch(c) PROVE CopyInv' /\ FreshInv'
  BY <1>3, <1>a DEF DeleteCR, Touch, CopyInv, FreshInv
<1>4. ASSUME NEW c \in CR, CacheSync(c) PROVE CopyInv' /\ FreshInv'
  <2>1. CopyInv'
    BY <1>4, <1>a DEF CacheSync, workerVars, CopyInv
  <2>2. \A d \in CR : synced'[d] => cache'[d] = store'[d]
    BY <1>4, <1>a DEF CacheSync, FreshInv
  <2>3. \A d \in CR : view'[d] => api'[d] # "absent"
    BY <1>4, <1>a DEF CacheSync, FreshInv
  <2>4. pc # "idle" /\ fresh => cur # c
    BY <1>4 DEF CacheSync, FreshInv
  <2> QED BY <1>4, <1>a, <2>1, <2>2, <2>3, <2>4 DEF CacheSync, workerVars, FreshInv
<1>5. ASSUME NEW c \in CR, Tick(c) PROVE CopyInv' /\ FreshInv'
  <2>1. \A d \in CR : /\ WellKept(store'[d]) /\ WellKept(cache'[d])
                      /\ UniqueConditionTypes(store'[d])
    BY <1>5, <1>a, OlderWellKept DEF Tick
  <2>2. \A d \in CR : synced'[d] => cache'[d] = store'[d]
    BY <1>5, <1>a DEF Tick, FreshInv
  <2>3. CopyInv'
    BY <1>5, <2>1 DEF Tick, workerVars, CopyInv
  <2>4. pc # "idle" => store'[cur] = store[cur]
    BY <1>5, <1>a DEF Tick
  <2> QED BY <1>5, <2>2, <2>3, <2>4 DEF Tick, workerVars, FreshInv
<1>6. CASE OperatorRestart
  <2>1. /\ \A c \in CR : store'[c] = store[c] /\ cache'[c] = store[c]
        /\ \A c \in CR : view'[c] => api'[c] # "absent"
    BY <1>6, <1>a DEF OperatorRestart
  <2> QED BY <1>6, <1>a, <2>1, IdleFlow DEF OperatorRestart
<1> QED BY <1>1, <1>2, <1>3, <1>4, <1>5, <1>6 DEF Environment

\* Reading a resource from the cache and saving its status.
LEMMA ReconcileFlow ==
  ASSUME TypeInv, CopyInv, FreshInv
  PROVE  /\ \A c \in CR : Start(c) \/ Ignore(c) => CopyInv' /\ FreshInv'
         /\ StatusUpdate \/ StatusUpdateFails => CopyInv' /\ FreshInv'
<1>1. ASSUME NEW c \in CR, Start(c) PROVE CopyInv' /\ FreshInv'
  <2>1. /\ cache[c] \in StartedStatus /\ WellKept(cache[c])
        /\ cur' = c /\ inst' = Begun(cache[c]) /\ pc' = "reconcile"
        /\ UNCHANGED apiVars /\ fresh' = synced[c]
        /\ cache[c].phase \notin TerminalPhase /\ api[c] # "absent"
    BY <1>1 DEF Start, Begun, TypeInv, ApiInv, CopyInv, FreshInv
  <2>2. WellKept(inst')
    BY <2>1, BegunFacts
  <2>3. CopyInv'
    BY <2>1, <2>2 DEF CopyInv, apiVars
  <2>4. FreshInv'
    BY <2>1 DEF FreshInv, SameRecord, apiVars
  <2> QED BY <2>3, <2>4
<1>2. ASSUME NEW c \in CR, Ignore(c) PROVE CopyInv' /\ FreshInv'
  BY <1>2 DEF Ignore, apiVars, workerVars, CopyInv, FreshInv
<1>3. CASE StatusUpdate
  <2>1. /\ cur \in CR /\ UniqueConditionTypes(inst) /\ WellKept(inst)
        /\ store' = [store EXCEPT ![cur] = inst] /\ cache' = cache
        /\ synced' = [synced EXCEPT ![cur] = FALSE]
        /\ store \in [CR -> StartedStatus] /\ synced \in [CR -> BOOLEAN]
    BY <1>3 DEF StatusUpdate, StatusAccepted, TypeInv, ApiInv, WorkerInv, CopyInv
  <2>2. \A c \in CR : /\ WellKept(store'[c]) /\ WellKept(cache'[c])
                      /\ UniqueConditionTypes(store'[c])
    BY <2>1 DEF CopyInv
  <2>3. \A c \in CR : synced'[c] => cache'[c] = store'[c]
    BY <2>1 DEF FreshInv
  <2> QED BY <1>3, <2>2, <2>3, IdleFlow DEF StatusUpdate, FreshInv
<1>4. CASE StatusUpdateFails
  BY <1>4, IdleFlow DEF StatusUpdateFails, apiVars, CopyInv, FreshInv
<1> QED BY <1>1, <1>2, <1>3, <1>4

\* Every status is well kept, and a fresh copy may be saved, in every
\* reachable state.
LEMMA FlowInvCorrect == Spec => [](CopyInv /\ FreshInv)
<1>1. Init => CopyInv /\ FreshInv
  <2> SUFFICES ASSUME Init PROVE CopyInv /\ FreshInv
    OBVIOUS
  <2> QED BY EmptyWellKept DEF Init, CopyInv, FreshInv
<1>2. TypeInv /\ JobInv /\ CopyInv /\ FreshInv /\ [Next]_vars => (CopyInv /\ FreshInv)'
  <2> SUFFICES ASSUME TypeInv, JobInv, CopyInv, FreshInv, [Next]_vars
               PROVE  CopyInv' /\ FreshInv'
    OBVIOUS
  <2>1. CASE Handler
    BY <2>1, HandlerSteps, HandlerBusy, HandlerFlow
  <2>2. CASE UNCHANGED vars
    BY <2>2 DEF vars, apiVars, workerVars, CopyInv, FreshInv
  <2> QED BY <2>1, <2>2, EnvironmentFlow, ReconcileFlow DEF Next
<1> QED BY <1>1, <1>2, TypeCorrect, JobInvCorrect, PTL DEF Spec

(***************************************************************************)
(* Whatever is repeated, lost or refused, in a started resource exactly    *)
(* the last condition is "True" and no condition type occurs twice: the    *)
(* State column names the condition the recovery is in.                    *)
(***************************************************************************)
THEOREM OneTrueConditionCorrect == Spec => []OneTrueCondition
<1>1. CopyInv => OneTrueCondition
  BY DEF CopyInv, WellKept, OneTrue, OneTrueCondition
<1> QED BY <1>1, FlowInvCorrect, PTL

-------------------------------------------------------------------------------
\* What the flow sees of a resource.
FlowView == <<[c \in CR |-> FlowAt(store[c])], [c \in CR |-> Ids(store[c])],
              [c \in CR |-> store[c].keepCephToolsPod]>>

\* A status update that is accepted is a step of the flow or changes nothing
\* that it sees.
LEMMA StatusUpdateFlow ==
  ASSUME TypeInv, CopyInv, FreshInv, StatusUpdate
  PROVE  Flow!FlowNext \/ UNCHANGED FlowView
<1>0. PICK me \in CR : me = cur
  BY DEF StatusUpdate, TypeInv, WorkerInv
<1> DEFINE s       == store[me]
           from    == getLatestCondition(Begun(s))
           to      == FlowAt(inst)
           at      == [c \in CR |-> FlowAt(store[c])]
           devices == [c \in CR |-> getOSDIDsFromNodeDevices(store[c].nodeDevice)]
           keep    == [c \in CR |-> store[c].keepCephToolsPod]
           goto(t) == at' = [at EXCEPT ![me] = t]
<1>a. /\ s \in StartedStatus /\ WellKept(s) /\ inst \in StartedStatus
      /\ store \in [CR -> StartedStatus] /\ store' = [store EXCEPT ![me] = inst]
  BY <1>0 DEF StatusUpdate, TypeInv, ApiInv, WorkerInv, CopyInv
<1>b. MaySave(s, inst) /\ UniqueConditionTypes(inst) /\ s.phase \notin TerminalPhase
  BY <1>0 DEF StatusUpdate, StatusAccepted, FreshInv
<1>c. /\ goto(to)
      /\ devices' = [devices EXCEPT ![me] = Ids(inst)]
      /\ keep' = [keep EXCEPT ![me] = inst.keepCephToolsPod]
  BY <1>a DEF Ids
<1>d. /\ at[me] = IF s.startTime THEN from ELSE "New"
      /\ devices[me] = Ids(s) /\ keep[me] = s.keepCephToolsPod
  BY <1>a, <1>b DEF FlowAt, Latest, Started, Begun, Ids
<1>e. /\ from \in ConditionType
      /\ ~s.startTime => from = "EnableCephToolsPod"
      /\ inst.keepCephToolsPod \in BOOLEAN /\ Ids(inst) \in SUBSET OSD
  <2>1. /\ Begun(s) \in NodeRecoveryStatus /\ Begun(s).conditions # <<>>
        /\ ~s.startTime => from = "EnableCephToolsPod"
    BY <1>a, BegunFacts DEF StartedStatus
  <2>2. inst.keepCephToolsPod \in BOOLEAN
    BY <1>a DEF StartedStatus, NodeRecoveryStatus
  <2> QED BY <1>a, <2>1, <2>2, LatestConditionType, DeviceIds DEF Ids
<1>f. /\ UNCHANGED <<at, devices, keep>> => UNCHANGED FlowView
      /\ Flow!Begin(me) \/ Flow!Proceed(me) \/ Flow!Fail(me) \/ Flow!Complete(me)
           => Flow!FlowNext
  <2>1. UNCHANGED <<at, devices, keep>> => UNCHANGED FlowView
    BY DEF FlowView, Ids
  <2> HIDE DEF at, devices, keep
  <2> QED BY <1>a, <2>1 DEF Flow!FlowNext
<1>g. Flow!Begin(me) <=>
        /\ at[me] = "New"
        /\ \/ goto("EnableCephToolsPod") /\ UNCHANGED keep
           \/ /\ goto("WaitForCephToolsPodRunning")
              /\ \E k \in BOOLEAN : keep' = [keep EXCEPT ![me] = k]
        /\ UNCHANGED devices
  BY DEF Flow!Begin, Flow!Goto
<1>h. Flow!Proceed(me) <=>
        /\ at[me] \in ConditionType
        /\ \E t \in Flow!Following(at[me]) :
             /\ goto(t)
             /\ IF t = "ForceDeleteRookCephOSDPods"
                THEN \E d \in (SUBSET OSD) \ {{}} : devices' = [devices EXCEPT ![me] = d]
                ELSE UNCHANGED devices
        /\ IF at[me] = "EnableCephToolsPod"
           THEN \E k \in BOOLEAN : keep' = [keep EXCEPT ![me] = k]
           ELSE UNCHANGED keep
  BY DEF Flow!Proceed, Flow!Goto, Flow!ConditionType, ConditionType
<1>i. Flow!Fail(me) <=>
        at[me] \in ConditionType /\ goto("Failed") /\ UNCHANGED <<devices, keep>>
  BY DEF Flow!Fail, Flow!Goto, Flow!ConditionType, ConditionType
<1>j. Flow!Complete(me) <=>
        at[me] = "DisableCephTools" /\ goto("Completed") /\ UNCHANGED <<devices, keep>>
  BY DEF Flow!Complete, Flow!Goto
<1> HIDE DEF s, from, to, at, devices, keep
<1>k. /\ SameFacts(inst, s) => UNCHANGED <<devices, keep>>
      /\ Ids(inst) = Ids(s) => UNCHANGED devices
      /\ inst.keepCephToolsPod = s.keepCephToolsPod => UNCHANGED keep
  <2>1. devices \in [CR -> SUBSET OSD] /\ keep \in [CR -> BOOLEAN]
    BY <1>a, DeviceIds DEF devices, keep, StartedStatus, NodeRecoveryStatus
  <2>2. Ids(inst) = Ids(s) => UNCHANGED devices
    BY <1>c, <1>d, <2>1
  <2>3. inst.keepCephToolsPod = s.keepCephToolsPod => UNCHANGED keep
    BY <1>c, <1>d, <2>1
  <2> QED BY <2>2, <2>3 DEF SameFacts
<1>1. CASE to = from /\ SameFacts(inst, s)
  <2>1. CASE s.startTime
    <3>1. UNCHANGED at
      BY <1>c, <1>d, <1>1, <2>1 DEF at
    <3> QED BY <1>f, <1>k, <1>1, <3>1
  <2>2. CASE ~s.startTime
    <3>1. Flow!Begin(me)
      BY <1>c, <1>d, <1>e, <1>g, <1>k, <1>1, <2>2
    <3> QED BY <1>f, <3>1
  <2> QED BY <2>1, <2>2
<1>2. CASE to = "Failed" /\ s.startTime /\ SameFacts(inst, s)
  <2>1. Flow!Fail(me)
    BY <1>c, <1>d, <1>e, <1>i, <1>k, <1>2
  <2> QED BY <1>f, <2>1
<1>3. CASE to = "Completed" /\ s.startTime /\ from = "DisableCephTools" /\ SameFacts(inst, s)
  <2>1. Flow!Complete(me)
    BY <1>c, <1>d, <1>j, <1>k, <1>3
  <2> QED BY <1>f, <2>1
<1>4. CASE /\ to \in Flow!Following(from)
           /\ IF to = "ForceDeleteRookCephOSDPods" THEN Ids(inst) # {} ELSE Ids(inst) = Ids(s)
           /\ from # "EnableCephToolsPod" => inst.keepCephToolsPod = s.keepCephToolsPod
  <2>1. CASE s.startTime
    <3>1. Flow!Proceed(me)
      BY <1>c, <1>d, <1>e, <1>h, <1>k, <1>4, <2>1
    <3> QED BY <1>f, <3>1
  <2>2. CASE ~s.startTime
    <3>1. to = "WaitForCephToolsPodRunning"
      BY <1>e, <1>4, <2>2, FollowingValues
    <3>2. Flow!Begin(me)
      BY <1>c, <1>d, <1>e, <1>g, <1>k, <1>4, <2>2, <3>1
    <3> QED BY <1>f, <3>2
  <2> QED BY <2>1, <2>2
<1> QED BY <1>b, <1>1, <1>2, <1>3, <1>4 DEF MaySave, s, from, to

\* No other step shows.
LEMMA OtherStepsFlow ==
  ASSUME TypeInv, JobInv, CopyInv, FreshInv, [Next]_vars, ~StatusUpdate
  PROVE  UNCHANGED FlowView
<1>1. ASSUME NEW c \in CR, Tick(c) PROVE UNCHANGED FlowView
  <2>1. ASSUME NEW d \in CR
        PROVE  /\ FlowAt(store'[d]) = FlowAt(store[d]) /\ Ids(store'[d]) = Ids(store[d])
               /\ store'[d].keepCephToolsPod = store[d].keepCephToolsPod
    <3>1. store[d] \in StartedStatus /\ WellKept(store[d])
      BY DEF TypeInv, ApiInv, CopyInv
    <3>2. store'[d] \in {store[d], Older(store[d])}
      BY <1>1 DEF Tick, TypeInv, ApiInv
    <3> QED BY <3>1, <3>2, OlderWellKept
  <2> QED BY <2>1 DEF FlowView
<1>2. CASE Handler
  <2>1. HandlerStep
    BY <1>2, HandlerSteps
  <2>2. UNCHANGED store
    BY <2>1 DEF HandlerStep, Panics, Panic, Stays, Works, Fails, Completes, Ends, Proceeds, Repeats,
                Advance, Return, apiVars
  <2> QED BY <2>2 DEF FlowView
<1>3. CASE Environment /\ ~ \E c \in CR : Tick(c)
  <2>1. UNCHANGED store
    BY <1>3 DEF Environment, CreateCR, DeleteCR, Touch, CacheSync, OperatorRestart, apiVars
  <2> QED BY <2>1 DEF FlowView
<1>4. CASE \E c \in CR : Start(c) \/ Ignore(c)
  <2>1. UNCHANGED store
    BY <1>4 DEF Start, Ignore, apiVars
  <2> QED BY <2>1 DEF FlowView
<1>5. CASE StatusUpdateFails \/ UNCHANGED vars
  <2>1. UNCHANGED store
    BY <1>5 DEF StatusUpdateFails, vars, apiVars
  <2> QED BY <2>1 DEF FlowView
<1> QED BY <1>1, <1>2, <1>3, <1>4, <1>5 DEF Next

(***************************************************************************)
(* Each stored status implements the abstract flow: it moves along the     *)
(* conditions in order, never enters one twice, never leaves a terminal    *)
(* phase, and writes the failed devices and whether the tools pod stays    *)
(* once, whatever is repeated, lost, refused or read from an old cache.    *)
(***************************************************************************)
THEOREM FlowRefinementCorrect == Spec => FlowRefinement
<1>1. Init => Flow!FlowInit
  <2> SUFFICES ASSUME Init PROVE Flow!FlowInit
    OBVIOUS
  <2>1. \A c \in CR : store[c] = EmptyStatus
    BY DEF Init
  <2>2. /\ FlowAt(EmptyStatus) = "New" /\ Ids(EmptyStatus) = {}
        /\ EmptyStatus.keepCephToolsPod = FALSE
    BY EmptyStatusType, NoIds
       DEF EmptyStatus, FlowAt, Latest, Started, Ids, TerminalPhase
  <2> QED BY <2>1, <2>2 DEF Flow!FlowInit, Ids
<1>2. /\ TypeInv /\ JobInv /\ CopyInv /\ FreshInv
      /\ [Next]_vars
      => [Flow!FlowNext]_(Flow!flowVars)
  <2> SUFFICES ASSUME TypeInv, JobInv, CopyInv, FreshInv, [Next]_vars
               PROVE  Flow!FlowNext \/ UNCHANGED Flow!flowVars
    OBVIOUS
  <2>1. UNCHANGED FlowView => UNCHANGED Flow!flowVars
    BY DEF FlowView, Ids, Flow!flowVars
  <2> QED BY <2>1, StatusUpdateFlow, OtherStepsFlow
<1> QED BY <1>1, <1>2, TypeCorrect, JobInvCorrect, FlowInvCorrect, PTL
        DEF Spec, FlowRefinement, Flow!FlowSpec

-------------------------------------------------------------------------------
(***************************************************************************)
(* The tools switch.  A copy of a status that is past the first condition  *)
(* without the note to keep the tools pod says that the user had not       *)
(* enabled the tools, on the object that counts now.  An upgrade changes   *)
(* the object; the copy then says nothing of the new one, so it must be    *)
(* one the user had not switched on.                                       *)
(***************************************************************************)
HarmlessUpgrade == AllowUpgrade => \A f \in InitialTools : ~f["StorageCluster"]

UserToolsOK(s, on) ==
  s.conditions # <<>> /\ getLatestCondition(s) # "EnableCephToolsPod" /\ ~s.keepCephToolsPod
    => ~on

UserHasTools == userTools[ToolsOwner]

ToolsInv ==
  /\ NeverDisablesUserTools
  /\ AllowUpgrade => ~userTools["StorageCluster"]
  /\ \A c \in CR : /\ UserToolsOK(store[c], UserHasTools)
                   /\ UserToolsOK(cache[c], UserHasTools)
  /\ UserToolsOK(inst, UserHasTools)
  /\ pc = "enable" => ~UserHasTools

\* The only handlers that write the switch are the first and the last one.
LEMMA HandlerTools ==
  ASSUME Handler
  PROVE  /\ UNCHANGED <<ocp, userTools>>
         /\ \/ UNCHANGED toolsSpec
            \/ toolsSpec' = [toolsSpec EXCEPT ![ToolsOwner] = TRUE] /\ pc = "enable"
            \/ /\ toolsSpec' = [toolsSpec EXCEPT ![ToolsOwner] = FALSE]
               /\ getLatestCondition(inst) = "DisableCephTools" /\ ~inst.keepCephToolsPod
<1> DEFINE Kept == UNCHANGED <<ocp, userTools, toolsSpec>>
<1>a. /\ NoCall => Kept
      /\ \A nodes : labelNodesWithPodsInPendingState(nodes) => Kept
      /\ \A o : scaleRookCephOSDDeploymentToZero(o) => Kept
      /\ \A ids : forceDeleteRookCephOSDPods(ids) => Kept
      /\ deleteOldOSDRemovalJob => Kept
      /\ deleteOldOSDRemovalJobErrs => Kept
      /\ \A ids, b : processOCSOSDRemovalTemplate(ids, b) => Kept
      /\ \A ids : deletePVs(ids) => Kept
      /\ \A pods : deleteFailedPodsWithReasonNodeAffinity(pods) => Kept
      /\ archiveCephDaemonCrashMessages => Kept
      /\ Panic => Kept
  BY DEF NoCall, labelNodesWithPodsInPendingState, scaleRookCephOSDDeploymentToZero,
         forceDeleteRookCephOSDPods, deleteOldOSDRemovalJob, deleteOldOSDRemovalJobErrs,
         deleteOldOSDRemovalJobFails, processOCSOSDRemovalTemplate, deletePVs,
         deleteFailedPodsWithReasonNodeAffinity, archiveCephDaemonCrashMessages, Panic,
         clusterVars, toolsVars
<1>b. \A v : setEnableCephToolsValue(v) =>
         /\ UNCHANGED <<ocp, userTools>>
         /\ toolsSpec' = [toolsSpec EXCEPT ![ToolsOwner] = v]
  BY DEF setEnableCephToolsValue
<1> HIDE DEF Kept
<1>1. CASE enableCephTools
  BY <1>1, <1>a, <1>b DEF enableCephTools, Kept
<1>2. CASE DisableCephTools
  BY <1>2, <1>a, <1>b DEF DisableCephTools, At, Kept
<1>3. CASE \/ ReconciliationTimeout \/ CallFails \/ EnableCephToolsPod
           \/ WaitForCephToolsPodRunning \/ WaitForOSDPodsStabilize
           \/ LabelNodesWithPendingPods \/ ManageCrashLoopBackOffPods
           \/ \E o \in OSD : handleCrashLoopBackOffPods(o)
           \/ handleCrashLoopBackOffPodsFails \/ handleCrashLoopBackOffPodsPanics
           \/ ManageDone \/ ForceDeleteRookCephOSDPods
  <2>1. Kept
    BY <1>3, <1>a
       DEF ReconciliationTimeout, CallFails, EnableCephToolsPod, WaitForCephToolsPodRunning,
           WaitForOSDPodsStabilize, LabelNodesWithPendingPods, ManageCrashLoopBackOffPods,
           handleCrashLoopBackOffPods, handleCrashLoopBackOffPodsFails,
           handleCrashLoopBackOffPodsPanics, ManageDone, ForceDeleteRookCephOSDPods
  <2> QED BY <2>1 DEF Kept
<1>4. CASE \/ ProcessOCSRemovalTemplate \/ CreateOSDRemovalJob \/ WaitForJob
           \/ ReplaceOSDRemovalJob \/ CreateForcedOSDRemovalJob \/ RetryTimedOut
           \/ validateJobLogs \/ JobSucceeded \/ WaitForPersistenVolumeBound
           \/ RestartStorageOperator \/ DeleteFailedPodsNodeAffinity
           \/ StorageClusterFitnessCheck
  <2>1. Kept
    BY <1>4, <1>a
       DEF ProcessOCSRemovalTemplate, CreateOSDRemovalJob, WaitForJob, ReplaceOSDRemovalJob,
           CreateForcedOSDRemovalJob, RetryTimedOut, validateJobLogs, JobSucceeded,
           WaitForPersistenVolumeBound, RestartStorageOperator,
           DeleteFailedPodsNodeAffinity, StorageClusterFitnessCheck
  <2> QED BY <2>1 DEF Kept
<1> QED BY <1>1, <1>2, <1>3, <1>4 DEF Handler

\* Leaving the first condition notes whether the user had the tools.
LEMMA LeavingEnable ==
  ASSUME TypeInv, CopyInv, ToolsInv, Handler, getLatestCondition(inst) = "EnableCephToolsPod"
  PROVE  /\ UserToolsOK(inst', UserHasTools)
         /\ pc' = "enable" => ~UserHasTools
<1>a. inst \in StartedStatus /\ (pc # "idle" => inst.startTime)
  BY DEF TypeInv, WorkerInv
<1>b. "WaitForCephToolsPodRunning" \in ConditionType
  BY DEF ConditionType
<1>c. ToolsOwner \in ToolsObject
  BY DEF ToolsOwner, ToolsObject
<1>1. CASE ReconciliationTimeout \/ CallFails
  <2>1. inst'.conditions = inst.conditions /\ pc' # "enable"
    BY <1>1, <1>a DEF ReconciliationTimeout, CallFails, Return, StartedStatus, NodeRecoveryStatus
  <2> QED BY <2>1 DEF UserToolsOK, getLatestCondition
<1>2. CASE EnableCephToolsPod
  <2> DEFINE n == [inst EXCEPT !.keepCephToolsPod = TRUE]
  <2>1. \/ Advance(n, "WaitForCephToolsPodRunning")
        \/ ~toolsSpec[ToolsOwner] /\ GoOn("enable")
    BY <1>2 DEF EnableCephToolsPod, isCephToolsEnabled
  <2>2. n \in NodeRecoveryStatus /\ n.conditions # <<>> /\ n.keepCephToolsPod
    BY <1>a, <1>2 DEF EnableCephToolsPod, At, StartedStatus, NodeRecoveryStatus
  <2> HIDE DEF n
  <2>3. CASE Advance(n, "WaitForCephToolsPodRunning")
    <3>1. inst'.keepCephToolsPod /\ pc' = "update"
      BY <1>b, <2>2, <2>3, TransitionKeeps DEF Advance, Return
    <3> QED BY <3>1 DEF UserToolsOK
  <2>4. CASE ~toolsSpec[ToolsOwner] /\ GoOn("enable")
    <3>1. ~UserHasTools
      BY <1>c, <2>4 DEF ToolsInv, NeverDisablesUserTools, UserHasTools
    <3> QED BY <3>1 DEF UserToolsOK
  <2> QED BY <2>1, <2>3, <2>4
<1>3. CASE enableCephTools
  BY <1>3 DEF enableCephTools, ToolsInv, UserToolsOK
<1> QED
  BY <1>1, <1>2, <1>3
  DEF Handler, WaitForCephToolsPodRunning, WaitForOSDPodsStabilize,
      LabelNodesWithPendingPods, ManageCrashLoopBackOffPods, handleCrashLoopBackOffPods,
      handleCrashLoopBackOffPodsFails, handleCrashLoopBackOffPodsPanics, ManageDone,
      ForceDeleteRookCephOSDPods, ProcessOCSRemovalTemplate, CreateOSDRemovalJob,
      WaitForJob, ReplaceOSDRemovalJob, CreateForcedOSDRemovalJob, RetryTimedOut,
      validateJobLogs, JobSucceeded, WaitForPersistenVolumeBound, RestartStorageOperator,
      DeleteFailedPodsNodeAffinity, StorageClusterFitnessCheck, DisableCephTools, AtJob, At,
      CopyInv

\* Past it, a handler keeps the note.
LEMMA KeepingTools ==
  ASSUME ToolsInv, HandlerStep, inst \in StartedStatus, inst.startTime, inst.conditions # <<>>,
         getLatestCondition(inst) # "EnableCephToolsPod"
  PROVE  /\ UserToolsOK(inst', UserHasTools)
         /\ pc' # "enable"
<1>a. UserToolsOK(inst, UserHasTools)
  BY DEF ToolsInv
<1>b. ASSUME NEW n, n.conditions = inst.conditions, n.keepCephToolsPod = inst.keepCephToolsPod
      PROVE  UserToolsOK(n, UserHasTools)
  BY <1>a, <1>b DEF UserToolsOK, getLatestCondition
<1>c. ASSUME NEW n, NEW t \in ConditionType, n \in StartedStatus, n.startTime,
             n.conditions = inst.conditions, n.keepCephToolsPod = inst.keepCephToolsPod
      PROVE  UserToolsOK(transitionNextCondition(n, t), UserHasTools)
  <2>1. transitionNextCondition(n, t).keepCephToolsPod = inst.keepCephToolsPod
    BY <1>c, TransitionKeeps DEF StartedStatus
  <2> QED BY <1>a, <2>1 DEF UserToolsOK
<1>1. CASE Panics
  BY <1>1, EmptyStatusType DEF Panics, Panic, Idle, UserToolsOK
<1>2. CASE Stays
  BY <1>2, <1>b DEF Stays, Handles, SameRecord, Return
<1>3. CASE Works
  BY <1>3, <1>b DEF Works, Handles, SameRecord
<1>4. CASE Fails \/ Completes
  BY <1>4, <1>b DEF Fails, Completes, Ends, Handles, Return
<1>5. CASE Proceeds
  <2>1. PICK n, t : /\ Handles(n) /\ t \in ConditionType /\ Advance(n, t)
                    /\ n.keepCephToolsPod = inst.keepCephToolsPod
    BY <1>5 DEF Proceeds
  <2> QED BY <1>c, <2>1 DEF Handles, Advance, Return
<1>6. CASE Repeats
  <2>1. "ForceDeleteRookCephOSDPods" \in ConditionType
    BY DEF ConditionType
  <2> QED BY <1>6, <1>c, <2>1 DEF Repeats, Advance, Return
<1> QED BY <1>1, <1>2, <1>3, <1>4, <1>5, <1>6 DEF HandlerStep

\* The statuses and the switch as the environment and the outer Reconcile
\* change them.
LEMMA OtherStepsTools ==
  ASSUME TypeInv, CopyInv, ToolsInv
  PROVE  /\ Environment => ToolsInv'
         /\ \A c \in CR : Start(c) \/ Ignore(c) => ToolsInv'
         /\ StatusUpdate \/ StatusUpdateFails => ToolsInv'
<1> DEFINE OK(s) == UserToolsOK(s, UserHasTools)
<1>a. \A c \in CR : /\ store[c] \in StartedStatus /\ cache[c] \in StartedStatus
                    /\ OK(store[c]) /\ OK(cache[c])
                    /\ OK(Older(store[c])) /\ OK(Older(cache[c]))
  BY OlderWellKept, OlderType
     DEF TypeInv, ApiInv, CopyInv, ToolsInv, UserToolsOK, getLatestCondition
<1>b. OK(inst) /\ OK(EmptyStatus)
  BY EmptyStatusType DEF ToolsInv, UserToolsOK
<1>c. UNCHANGED <<ocp, toolsSpec, userTools>> =>
        /\ UserHasTools' = UserHasTools
        /\ NeverDisablesUserTools' /\ (AllowUpgrade => ~userTools'["StorageCluster"])
  BY DEF UserHasTools, ToolsOwner, ToolsInv, NeverDisablesUserTools
<1>d. ASSUME UNCHANGED <<ocp, toolsSpec, userTools>>,
             \A c \in CR : OK(store'[c]) /\ OK(cache'[c]),
             OK(inst'), pc' = pc \/ pc' # "enable"
      PROVE  ToolsInv'
  BY <1>c, <1>d DEF ToolsInv
<1>e. store \in [CR -> StartedStatus] /\ cache \in [CR -> StartedStatus]
  BY DEF TypeInv, ApiInv
<1>f. UNCHANGED <<clusterVars>> => UNCHANGED <<ocp, toolsSpec, userTools>>
  BY DEF clusterVars, toolsVars
<1> HIDE DEF OK
<1>1. CASE ClusterNext /\ UNCHANGED <<apiVars, queue, workerVars, metrics, restartOwed>>
  <2>1. CASE ClusterUpgrades
    <3>1. /\ ~userTools["StorageCluster"] /\ ocp' = "4.15"
          /\ UNCHANGED <<toolsSpec, userTools, store, cache, inst, pc>>
      BY <1>1, <2>1 DEF ClusterUpgrades, ToolsInv, apiVars, workerVars
    <3>2. ~UserHasTools'
      BY <3>1 DEF UserHasTools, ToolsOwner
    <3> QED BY <3>1, <3>2 DEF ToolsInv, NeverDisablesUserTools, UserToolsOK
  <2>2. CASE ~ClusterUpgrades
    <3>1. UNCHANGED <<ocp, toolsSpec, userTools>>
      BY <1>1, <2>2 DEF ClusterNext, ToolsPodChanges, PodChanges, PodTerminates, MinutePasses,
                        PodGone, NewOSD, JobPodStarts, JobPurges, JobPodEnds, InformerSync,
                        PodRejected, VolumeReleased, toolsVars
    <3>2. UNCHANGED <<store, cache, inst, pc>>
      BY <1>1 DEF apiVars, workerVars
    <3> QED BY <1>a, <1>b, <1>d, <3>1, <3>2
  <2> QED BY <2>1, <2>2
<1>2. ASSUME NEW c \in CR, CreateCR(c) \/ DeleteCR(c) \/ Touch(c) PROVE ToolsInv'
  <2>1. UNCHANGED <<ocp, toolsSpec, userTools>> /\ UNCHANGED <<store, cache, inst, pc>>
    BY <1>2, <1>f DEF CreateCR, DeleteCR, Touch, workerVars
  <2> QED BY <1>a, <1>b, <1>d, <2>1
<1>3. ASSUME NEW c \in CR, CacheSync(c) \/ Tick(c) PROVE ToolsInv'
  <2>1. UNCHANGED <<ocp, toolsSpec, userTools>> /\ UNCHANGED <<inst, pc>>
    BY <1>3, <1>f DEF CacheSync, Tick, workerVars
  <2>2. \A d \in CR : /\ store'[d] \in {store[d], Older(store[d])}
                      /\ cache'[d] \in {cache[d], store[d], Older(cache[d])}
    BY <1>3, <1>e DEF CacheSync, Tick
  <2> QED BY <1>a, <1>b, <1>d, <2>1, <2>2
<1>4. CASE OperatorRestart
  <2>1. /\ UNCHANGED <<ocp, toolsSpec, userTools>> /\ store' = store /\ cache' = store
        /\ inst' = EmptyStatus /\ pc' = "idle"
    BY <1>4 DEF OperatorRestart, Idle, toolsVars
  <2> QED BY <1>a, <1>b, <1>d, <2>1
<1>5. ASSUME NEW c \in CR, Start(c) PROVE ToolsInv'
  <2>1. /\ UNCHANGED <<ocp, toolsSpec, userTools>> /\ UNCHANGED <<store, cache>>
        /\ inst' \in {cache[c], initStatus(cache[c])} /\ pc' = "reconcile"
    BY <1>5, <1>f DEF Start, apiVars
  <2>2. OK(initStatus(cache[c]))
    BY <1>a, InitStatusType DEF OK, UserToolsOK
  <2> QED BY <1>a, <1>d, <2>1, <2>2
<1>6. ASSUME NEW c \in CR, Ignore(c) PROVE ToolsInv'
  <2>1. UNCHANGED <<ocp, toolsSpec, userTools>> /\ UNCHANGED <<store, cache, inst, pc>>
    BY <1>6, <1>f DEF Ignore, apiVars, workerVars
  <2> QED BY <1>a, <1>b, <1>d, <2>1
<1>7. CASE StatusUpdate \/ StatusUpdateFails
  <2>1. /\ UNCHANGED <<ocp, toolsSpec, userTools>> /\ inst' = EmptyStatus /\ pc' = "idle"
        /\ cache' = cache
    BY <1>7, <1>f DEF StatusUpdate, StatusUpdateFails, Idle, apiVars
  <2>2. \A d \in CR : store'[d] \in {store[d], inst}
    BY <1>7, <1>e DEF StatusUpdate, StatusUpdateFails, apiVars
  <2> QED BY <1>a, <1>b, <1>d, <2>1, <2>2
<1> QED BY <1>1, <1>2, <1>3, <1>4, <1>5, <1>6, <1>7 DEF Environment

\* The invariant of the tools switch.
LEMMA ToolsInvCorrect ==
  ASSUME HarmlessUpgrade
  PROVE  Spec => []ToolsInv
<1>1. Init => ToolsInv
  <2> SUFFICES ASSUME Init PROVE ToolsInv
    OBVIOUS
  <2>1. NeverDisablesUserTools /\ (AllowUpgrade => ~userTools["StorageCluster"])
    BY DEF Init, ClusterInit, NeverDisablesUserTools, HarmlessUpgrade
  <2>2. \A c \in CR : store[c] = EmptyStatus /\ cache[c] = EmptyStatus
    BY DEF Init
  <2>3. inst = EmptyStatus /\ pc = "idle"
    BY DEF Init
  <2> QED BY <2>1, <2>2, <2>3, EmptyStatusType DEF ToolsInv, UserToolsOK
<1>2. TypeInv /\ JobInv /\ CopyInv /\ FreshInv /\ ToolsInv /\ [Next]_vars => ToolsInv'
  <2> SUFFICES ASSUME TypeInv, JobInv, CopyInv, FreshInv, ToolsInv, [Next]_vars PROVE ToolsInv'
    OBVIOUS
  <2>1. CASE Handler
    <3>1. /\ inst \in StartedStatus /\ inst.startTime /\ inst.conditions # <<>>
          /\ HandlerStep
      BY <2>1, HandlerBusy, HandlerSteps
    <3>2. UserToolsOK(inst', UserHasTools) /\ (pc' = "enable" => ~UserHasTools)
      BY <2>1, <3>1, LeavingEnable, KeepingTools
    <3>3. UNCHANGED <<store, cache>>
      BY <3>1 DEF HandlerStep, Panics, Panic, Stays, Works, Fails, Completes, Ends, Proceeds,
                  Repeats, Advance, Return, apiVars
    <3>4. UNCHANGED <<ocp, userTools>> /\ UserHasTools' = UserHasTools
      BY <2>1, HandlerTools DEF UserHasTools, ToolsOwner
    <3>5. NeverDisablesUserTools'
      <4>1. toolsSpec \in [ToolsObject -> BOOLEAN] /\ ToolsOwner \in ToolsObject
        BY DEF TypeInv, ClusterTypeOK, ToolsOwner, ToolsObject
      <4>2. CASE UNCHANGED toolsSpec
        BY <3>4, <4>2 DEF ToolsInv, NeverDisablesUserTools
      <4>3. CASE toolsSpec' = [toolsSpec EXCEPT ![ToolsOwner] = TRUE]
        BY <3>4, <4>1, <4>3 DEF ToolsInv, NeverDisablesUserTools
      <4>4. CASE /\ toolsSpec' = [toolsSpec EXCEPT ![ToolsOwner] = FALSE]
                 /\ getLatestCondition(inst) = "DisableCephTools" /\ ~inst.keepCephToolsPod
        <5>1. ~userTools[ToolsOwner]
          BY <3>1, <4>4 DEF ToolsInv, UserToolsOK, UserHasTools
        <5> QED BY <3>4, <4>1, <4>4, <5>1 DEF ToolsInv, NeverDisablesUserTools
      <4> QED BY <2>1, <4>2, <4>3, <4>4, HandlerTools
    <3> QED BY <3>2, <3>3, <3>4, <3>5 DEF ToolsInv
  <2>2. CASE UNCHANGED vars
    BY <2>2 DEF vars, clusterVars, toolsVars, apiVars, workerVars, ToolsInv,
                NeverDisablesUserTools, UserHasTools, ToolsOwner, UserToolsOK
  <2> QED BY <2>1, <2>2, OtherStepsTools DEF Next
<1> QED BY <1>1, <1>2, TypeCorrect, JobInvCorrect, FlowInvCorrect, PTL DEF Spec

(***************************************************************************)
(* The tools a user had enabled stay enabled, under every fault and any    *)
(* number of concurrent recoveries: none of them loses the note to keep    *)
(* the tools pod.  The note is about the object of the version it was made *)
(* under.  With an upgrade in between the theorem needs that the user had  *)
(* not enabled the tools on the object of the new version: those the code  *)
(* does switch off.                                                        *)
(***************************************************************************)
THEOREM NeverDisablesUserToolsCorrect ==
  ASSUME AllowUpgrade => \A f \in InitialTools : ~f["StorageCluster"]
  PROVE  Spec => []NeverDisablesUserTools
<1>1. HarmlessUpgrade
  BY DEF HarmlessUpgrade
<1>2. ToolsInv => NeverDisablesUserTools
  BY DEF ToolsInv
<1> QED BY <1>1, <1>2, ToolsInvCorrect, PTL
===============================================================================
