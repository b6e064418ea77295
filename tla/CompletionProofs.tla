---------------------------- MODULE CompletionProofs ----------------------------
(***************************************************************************)
(* What a recovery that has completed leaves behind, when nothing but time *)
(* goes against it: no call fails, the operator does not crash, nobody     *)
(* else writes to the resources and no reconciliation starts on a cached   *)
(* status that is out of date.  The cluster takes its steps between any    *)
(* two of the worker's, and the informers of the cluster's objects may lag.*)
(***************************************************************************)
EXTENDS RecoveryFlowProofs

Quiet == Faults \subseteq {"slow"}

\* The place of a condition in the order of the recovery.
Rank(t) ==
  CASE t = "EnableCephToolsPod"             -> 1
    [] t = "WaitForCephToolsPodRunning"     -> 2
    [] t = "WaitForOSDPodsStabilize"        -> 3
    [] t = "LabelNodesWithPendingPods"      -> 4
    [] t = "ManageCrashLoopBackOffPods"     -> 5
    [] t = "ForceDeleteRookCephOSDPods"     -> 6
    [] t = "ProcessOCSRemovalTemplate"      -> 7
    [] t = "CleanupOSDRemovalJob"           -> 8
    [] t = "RetryForceCleanupOSDRemovalJob" -> 9
    [] t = "WaitForPersistenVolumeBound"    -> 10
    [] t = "RestartStorageOperator"         -> 11
    [] t = "DeleteFailedPodsNodeAffinity"   -> 12
    [] t = "StorageClusterFitnessCheck"     -> 13
    [] t = "DisableCephTools"               -> 14

\* The conditions were entered in that order.
Sorted(s) ==
  \A i, j \in DOMAIN s.conditions :
    i < j => Rank(s.conditions[i].type) < Rank(s.conditions[j].type)

\* Two statuses at the same place of the recovery.
SamePlace(n, s) ==
  /\ n.startTime = s.startTime /\ n.phase = s.phase /\ Latest(n) = Latest(s)
  /\ n.nodeDevice = s.nodeDevice /\ n.keepCephToolsPod = s.keepCephToolsPod

\* They have met the same pods.
SameFlags(n, s) ==
  /\ n.pendingPods = s.pendingPods /\ n.crashLoopBackOffPods = s.crashLoopBackOffPods
  /\ n.operationalOSDIDs = s.operationalOSDIDs

(***************************************************************************)
(* The worker's copy always descends from the stored status.  The one      *)
(* update the API server refuses is that of a handler that has entered its *)
(* condition once more; what is lost with it is nothing but that entry.    *)
(***************************************************************************)
QuietInv ==
  /\ \A c \in CR : api[c] # "deleted" /\ Sorted(store[c])
  /\ pc # "idle" => fresh
  /\ pc = "reconcile" => inst = Begun(store[cur])
  /\ pc = "update" =>
       \/ Sorted(inst)
       \/ /\ ~UniqueConditionTypes(inst)
          /\ SamePlace(store[cur], inst) /\ SameFlags(store[cur], inst)

-------------------------------------------------------------------------------
\* A condition that follows another has a later place.
LEMMA FollowingRank ==
  /\ \A t \in ConditionType : Rank(t) \in Nat
  /\ \A s, t \in ConditionType : t \in Flow!Following(s) => Rank(s) < Rank(t)
<1>1. \A t \in ConditionType : Rank(t) \in Nat
  BY DEF ConditionType, Rank
<1>2. ASSUME NEW s \in ConditionType, NEW t \in ConditionType, t \in Flow!Following(s)
      PROVE  Rank(s) < Rank(t)
  BY <1>2, FollowingValues DEF ConditionType, Rank
<1> QED BY <1>1, <1>2

\* A list in order has no type twice.
LEMMA SortedUnique ==
  ASSUME NEW s \in StartedStatus, Sorted(s)
  PROVE  UniqueConditionTypes(s)
<1>1. /\ s.conditions \in Seq(RecoveryCondition)
      /\ DOMAIN s.conditions = 1..Len(s.conditions) /\ Len(s.conditions) \in Nat
  BY LenProperties DEF StartedStatus, NodeRecoveryStatus
<1>2. SUFFICES ASSUME NEW i \in DOMAIN s.conditions, NEW j \in DOMAIN s.conditions,
                      s.conditions[i].type = s.conditions[j].type, i # j
               PROVE  FALSE
  BY DEF UniqueConditionTypes
<1>3. s.conditions[i] \in RecoveryCondition
  BY <1>1
<1>4. Rank(s.conditions[i].type) \in Nat
  BY <1>3, FollowingRank DEF RecoveryCondition
<1>5. i < j \/ j < i
  BY <1>1, <1>2
<1> QED BY <1>2, <1>4, <1>5 DEF Sorted

\* Entering a later condition keeps the order.
LEMMA TransitionSorted ==
  ASSUME NEW s \in StartedStatus, s.startTime, Sorted(s),
         NEW t \in ConditionType, Rank(getLatestCondition(s)) < Rank(t)
  PROVE  Sorted(transitionNextCondition(s, t))
<1> DEFINE n    == transitionNextCondition(s, t)
           len  == Len(s.conditions)
           R(i) == Rank(s.conditions[i].type)
<1>1. s \in NodeRecoveryStatus /\ s.conditions # <<>> /\ s.conditions \in Seq(RecoveryCondition)
  BY DEF StartedStatus, NodeRecoveryStatus
<1>2. /\ len \in Nat /\ DOMAIN s.conditions = 1..len /\ DOMAIN n.conditions = 1..(len + 1)
      /\ n.conditions[len + 1] = NewCondition(t)
      /\ \A i \in 1..len : n.conditions[i].type = s.conditions[i].type
  BY <1>1, TransitionConditions
<1>3. n.conditions[len + 1].type = t
  BY <1>2, NewConditionType
<1>4. len \in 1..len /\ R(len) < Rank(t)
  BY <1>1, LatestConditionType DEF getLatestCondition
<1>5. Rank(t) \in Nat /\ \A i \in 1..len : s.conditions[i] \in RecoveryCondition
  BY <1>1, <1>2, FollowingRank
<1>6. \A i \in 1..len : R(i) \in Nat
  BY <1>5, FollowingRank DEF RecoveryCondition
<1> HIDE DEF n, len
<1>7. ASSUME NEW i \in 1..(len + 1), NEW j \in 1..(len + 1), i < j
      PROVE  Rank(n.conditions[i].type) < Rank(n.conditions[j].type)
  <2>1. i \in 1..len /\ Rank(n.conditions[i].type) = R(i)
    BY <1>2, <1>7
  <2>2. CASE j = len + 1
    <3>1. R(i) < R(len) \/ i = len
      BY <1>2, <1>4, <2>1 DEF Sorted
    <3> QED BY <1>3, <1>4, <1>5, <1>6, <2>1, <2>2, <3>1
  <2>3. CASE j # len + 1
    <3>1. j \in 1..len /\ Rank(n.conditions[j].type) = R(j)
      BY <1>2, <2>3
    <3> QED BY <1>2, <1>7, <2>1, <3>1 DEF Sorted
  <2> QED BY <2>2, <2>3
<1>8. \A i, j \in DOMAIN n.conditions :
        i < j => Rank(n.conditions[i].type) < Rank(n.conditions[j].type)
  BY <1>2, <1>7
<1> QED BY <1>8 DEF Sorted, n

\* So do starting a recovery and growing older.
LEMMA BegunSorted ==
  ASSUME NEW s \in StartedStatus, WellKept(s), Sorted(s)
  PROVE  Sorted(Begun(s)) /\ Sorted(Older(s))
<1>1. Sorted(Older(s))
  BY OlderType DEF Sorted
<1>2. CASE s.startTime
  BY <1>1, <1>2 DEF Begun
<1>3. CASE ~s.startTime
  <2>1. Begun(s).conditions = Append(EmptyStatus.conditions, NewCondition("EnableCephToolsPod"))
    BY <1>3 DEF WellKept, Begun, initStatus, EmptyStatus
  <2>2. Begun(s).conditions = <<NewCondition("EnableCephToolsPod")>>
    BY <2>1, EmptyStatusType
  <2> QED BY <1>1, <2>2 DEF Sorted
<1> QED BY <1>2, <1>3

-------------------------------------------------------------------------------
\* The status of a resource as far as it has got: the worker's copy, or the
\* stored one.
Now(c) == IF pc # "idle" /\ cur = c THEN inst ELSE store[c]

\* A step in which no recovery gets any further.
NowSame == \A c \in CR : SamePlace(Now(c)', Now(c)) /\ SameFlags(Now(c)', Now(c))

\* What the users and the operator have recorded about the recoveries stays.
RecordKept == UNCHANGED <<metrics, restartOwed, toolsSpec, userTools>>

\* Growing older changes neither the place nor the pods met.
LEMMA OlderSame ==
  ASSUME NEW s \in StartedStatus
  PROVE  SamePlace(Older(s), s) /\ SameFlags(Older(s), s)
  BY OlderType
     DEF SamePlace, SameFlags, Latest, Started, getLatestCondition, Older, StartedStatus,
         NodeRecoveryStatus

\* While the cluster moves, the users act and time passes, no recovery does.
LEMMA QuietEnvironment ==
  ASSUME TypeInv, CopyInv, FreshInv, QuietInv, Quiet, Environment
  PROVE  QuietInv' /\ NowSame /\ RecordKept
<1>a. /\ \A c \in CR : store[c] \in StartedStatus /\ WellKept(store[c]) /\ Sorted(store[c])
      /\ store \in [CR -> StartedStatus]
      /\ "delete" \notin Faults /\ "touch" \notin Faults /\ "crash" \notin Faults
      /\ inst \in StartedStatus /\ (pc # "idle" => cur \in CR)
      /\ api \in [CR -> {"absent", "live", "deleted"}]
  BY DEF TypeInv, ApiInv, WorkerInv, CopyInv, QuietInv, Quiet
<1>b. \A c \in CR : /\ SamePlace(Now(c), Now(c)) /\ SameFlags(Now(c), Now(c))
                    /\ SamePlace(Older(store[c]), store[c]) /\ SameFlags(Older(store[c]), store[c])
                    /\ Sorted(Older(store[c]))
  BY <1>a, OlderSame, BegunSorted DEF SamePlace, SameFlags
<1>1. CASE ClusterNext /\ UNCHANGED <<apiVars, queue, workerVars, metrics, restartOwed>>
  <2>1. UNCHANGED <<toolsSpec, userTools>>
    BY <1>1 DEF ClusterNext, ToolsPodChanges, ClusterUpgrades, PodChanges, PodTerminates,
                MinutePasses, PodGone, NewOSD, JobPurges, JobPodStarts, JobPodEnds,
                PodRejected, VolumeReleased, InformerSync, toolsVars
  <2>2. QuietInv'
    BY <1>1 DEF apiVars, workerVars, QuietInv
  <2>3. \A c \in CR : Now(c)' = Now(c)
    BY <1>1 DEF apiVars, workerVars, Now
  <2> QED BY <1>1, <1>b, <2>1, <2>2, <2>3 DEF NowSame, RecordKept
<1>2. ASSUME NEW d \in CR, CreateCR(d) \/ CacheSync(d)
      PROVE  QuietInv' /\ NowSame /\ RecordKept
  <2>1. UNCHANGED <<store, workerVars>> /\ RecordKept
    BY <1>2 DEF CreateCR, CacheSync, RecordKept, clusterVars, toolsVars
  <2>2. \A c \in CR : api'[c] # "deleted"
    BY <1>2, <1>a DEF CreateCR, CacheSync, QuietInv
  <2>3. QuietInv'
    BY <2>1, <2>2 DEF workerVars, QuietInv
  <2>4. \A c \in CR : Now(c)' = Now(c)
    BY <2>1 DEF workerVars, Now
  <2> QED BY <1>b, <2>1, <2>3, <2>4 DEF NowSame
<1>3. ASSUME NEW d \in CR, Tick(d)
      PROVE  QuietInv' /\ NowSame /\ RecordKept
  <2>1. /\ UNCHANGED <<api, workerVars>> /\ RecordKept /\ cur # d
        /\ store'[d] = Older(store[d])
        /\ \A c \in CR : c # d => store'[c] = store[c]
    BY <1>3, <1>a DEF Tick, RecordKept, clusterVars, toolsVars
  <2>2. \A c \in CR : Sorted(store'[c])
    BY <1>a, <1>b, <2>1
  <2>3. pc # "idle" => store'[cur] = store[cur]
    BY <1>a, <2>1
  <2>4. QuietInv'
    BY <2>1, <2>2, <2>3 DEF workerVars, QuietInv
  <2>5. ASSUME NEW c \in CR
        PROVE  SamePlace(Now(c)', Now(c)) /\ SameFlags(Now(c)', Now(c))
    <3>1. Now(c)' = Now(c) \/ (Now(c)' = Older(store[c]) /\ Now(c) = store[c])
      BY <2>1 DEF workerVars, Now
    <3> QED BY <1>b, <3>1
  <2> QED BY <2>1, <2>4, <2>5 DEF NowSame
<1> QED BY <1>1, <1>2, <1>3, <1>a DEF Environment, DeleteCR, Touch, OperatorRestart

\* Taking a resource from the queue begins its recovery, if that has not begun.
LEMMA QuietStart ==
  ASSUME TypeInv, CopyInv, FreshInv, QuietInv, Quiet, NEW me \in CR, Start(me)
  PROVE  /\ QuietInv'
         /\ Now(me) = store[me] /\ Now(me)' = Begun(store[me])
         /\ \A c \in CR : c # me => Now(c)' = Now(c)
         /\ metrics' = CountOperand(store[me])
         /\ UNCHANGED <<restartOwed, toolsSpec, userTools>>
<1>1. cache[me] = store[me] /\ synced[me] /\ fresh'
  BY DEF Start, Quiet, FreshInv
<1>2. /\ pc' = "reconcile" /\ cur' = me /\ inst' = Begun(store[me]) /\ pc = "idle"
      /\ metrics' = CountOperand(store[me])
      /\ UNCHANGED <<store, api, restartOwed, toolsSpec, userTools>>
  BY <1>1 DEF Start, Begun, apiVars, clusterVars, toolsVars
<1>3. QuietInv'
  BY <1>1, <1>2 DEF QuietInv
<1> QED BY <1>2, <1>3 DEF Now

\* The status update saves what the worker holds, or loses one more entry
\* into the same condition.
LEMMA QuietUpdate ==
  ASSUME TypeInv, CopyInv, FreshInv, QuietInv, Quiet, StatusUpdate \/ StatusUpdateFails
  PROVE  QuietInv' /\ NowSame /\ RecordKept
<1>a. /\ store \in [CR -> StartedStatus] /\ inst \in StartedStatus /\ cur \in CR
      /\ pc = "update" /\ pc' = "idle" /\ RecordKept /\ UNCHANGED api
  BY DEF TypeInv, ApiInv, WorkerInv, StatusUpdate, StatusUpdateFails, Idle, RecordKept,
         apiVars, clusterVars, toolsVars
<1>b. \A c \in CR : /\ SamePlace(Now(c), Now(c)) /\ SameFlags(Now(c), Now(c))
  BY DEF SamePlace, SameFlags
<1>1. CASE StatusUpdate
  <2>1. UniqueConditionTypes(inst) /\ store' = [store EXCEPT ![cur] = inst]
    BY <1>1 DEF StatusUpdate, StatusAccepted
  <2>2. Sorted(inst)
    BY <1>a, <2>1 DEF QuietInv
  <2>3. QuietInv'
    BY <1>a, <2>1, <2>2 DEF QuietInv
  <2>4. \A c \in CR : Now(c)' = Now(c)
    BY <1>a, <2>1 DEF Now
  <2> QED BY <1>a, <1>b, <2>3, <2>4 DEF NowSame
<1>2. CASE StatusUpdateFails
  <2>1. api[cur] = "live" /\ fresh /\ "api" \notin Faults /\ UNCHANGED store
    BY <1>2, <1>a DEF StatusUpdateFails, QuietInv, FreshInv, Quiet, TypeInv, ApiInv, apiVars
  <2>2. ~UniqueConditionTypes(inst)
    BY <1>2, <2>1 DEF StatusUpdateFails, StatusAccepted, ApiFault
  <2>3. SamePlace(store[cur], inst) /\ SameFlags(store[cur], inst)
    BY <1>a, <2>2, SortedUnique DEF QuietInv
  <2>4. QuietInv'
    BY <1>a, <2>1 DEF QuietInv
  <2>5. \A c \in CR : Now(c)' = store[c] /\ Now(c) = IF c = cur THEN inst ELSE store[c]
    BY <1>a, <2>1 DEF Now
  <2> QED BY <1>a, <1>b, <2>3, <2>4, <2>5 DEF NowSame
<1> QED BY <1>1, <1>2

\* A handler moves its own resource, or panics and leaves it where it was: a
\* reconciliation that is repeated finds the status the lost one had begun with.
LEMMA QuietHandler ==
  ASSUME TypeInv, JobInv, CopyInv, FreshInv, QuietInv, Quiet, Handler
  PROVE  /\ QuietInv' /\ HandlerStep
         /\ cur \in CR /\ Now(cur) = inst /\ inst.phase \notin TerminalPhase
         /\ \A c \in CR : c # cur => Now(c)' = Now(c)
         /\ IF Panics
            THEN /\ SamePlace(store[cur], inst)
                 /\ OverPVC = OSD => SameFlags(store[cur], inst)
                 /\ \A c \in CR : c = cur => Now(c)' = store[c]
            ELSE /\ inst' \in StartedStatus /\ inst'.startTime
                 /\ \A c \in CR : c = cur => Now(c)' = inst'
<1> DEFINE s == store[cur]
<1>a. /\ pc \notin {"idle", "update"} /\ cur \in CR
      /\ inst \in StartedStatus /\ inst.startTime /\ inst.conditions # <<>>
      /\ HandlerStep
  BY HandlerBusy, HandlerSteps
<1>b. /\ fresh /\ s \in StartedStatus /\ WellKept(s) /\ Sorted(s)
      /\ SameRecord(inst, Begun(s))
      /\ s.phase \notin TerminalPhase
  BY <1>a DEF TypeInv, ApiInv, CopyInv, FreshInv, QuietInv
<1>c. /\ inst.phase \notin TerminalPhase
      /\ getLatestCondition(inst) # "EnableCephToolsPod" => s.startTime
  BY <1>a, <1>b, FreshFacts
<1>d. Sorted(inst) /\ Now(cur) = inst
  BY <1>a, <1>b, BegunSorted DEF SameRecord, Sorted, Now
<1>e. getLatestCondition(inst) # "EnableCephToolsPod" => SamePlace(s, inst)
  BY <1>a, <1>b, <1>c DEF SameRecord, Begun, SamePlace, Latest, Started, getLatestCondition
<1>1. CASE Panics
  <2>1. /\ pc' = "idle" /\ UNCHANGED apiVars /\ getLatestCondition(inst) # "EnableCephToolsPod"
        /\ (pc = "scale" /\ todo \ OverPVC # {}) \/ pc = "reconcile"
    BY <1>1 DEF Panics, Panic, Idle
  <2>2. OverPVC = OSD => pc = "reconcile"
    BY <2>1 DEF TypeInv, WorkerInv
  <2>3. pc = "reconcile" => SameFlags(s, inst)
    BY <1>c, <2>1 DEF QuietInv, SameFlags, Begun
  <2>4. QuietInv' /\ \A c \in CR : Now(c)' = store[c]
    BY <2>1 DEF QuietInv, Now, apiVars
  <2>5. \A c \in CR : c # cur => Now(c) = store[c]
    BY DEF Now
  <2> QED BY <1>1, <1>a, <1>c, <1>d, <1>e, <2>1, <2>2, <2>3, <2>4, <2>5
<1>2. CASE ~Panics
  <2>1. /\ UNCHANGED <<apiVars, cur, fresh>> /\ pc' \in {"enable", "scale", "create", "update"}
    BY <1>2, <1>a DEF HandlerStep, Stays, Works, Fails, Completes, Ends, Proceeds, Repeats,
                      Advance, Return
  <2>2. /\ inst' \in StartedStatus /\ inst'.startTime
        /\ pc' = "update" =>
             \/ Sorted(inst')
             \/ /\ ~UniqueConditionTypes(inst')
                /\ SamePlace(s, inst') /\ SameFlags(s, inst')
    <3>1. CASE Stays \/ Works \/ Fails \/ Completes
      BY <3>1, <1>d DEF Stays, Works, Fails, Completes, Ends, Handles, Return, Sorted
    <3>2. CASE Proceeds
      <4>1. PICK n, t :
              /\ Handles(n) /\ t \in ConditionType
              /\ t \in Flow!Following(getLatestCondition(inst)) /\ Advance(n, t)
        BY <3>2 DEF Proceeds
      <4>2. n \in StartedStatus /\ n.startTime /\ n.conditions # <<>> /\ n \in NodeRecoveryStatus
            /\ Sorted(n) /\ getLatestCondition(n) = getLatestCondition(inst)
        BY <1>d, <1>a, <4>1 DEF Handles, Sorted, getLatestCondition, StartedStatus
      <4>3. getLatestCondition(n) \in ConditionType
        BY <4>2, LatestConditionType
      <4>4. Rank(getLatestCondition(n)) < Rank(t)
        BY <4>1, <4>2, <4>3, FollowingRank
      <4>5. Sorted(transitionNextCondition(n, t))
        BY <4>1, <4>2, <4>4, TransitionSorted
      <4>6. transitionNextCondition(n, t) \in StartedStatus
            /\ transitionNextCondition(n, t).startTime
        BY <4>1, <4>2, TransitionType DEF StartedStatus
      <4> QED BY <4>1, <4>5, <4>6 DEF Advance, Return
    <3>3. CASE Repeats
      <4> DEFINE t == "ForceDeleteRookCephOSDPods"
                 n == transitionNextCondition(inst, t)
      <4>1. /\ pc = "reconcile" /\ getLatestCondition(inst) = t /\ t \in ConditionType
            /\ inst' = n /\ inst \in NodeRecoveryStatus
        BY <3>3, <1>a DEF Repeats, Advance, Return, ConditionType, StartedStatus
      <4>2. ~UniqueConditionTypes(n)
        BY <1>a, <4>1, RepeatedCondition
      <4>3. /\ n \in NodeRecoveryStatus /\ n.conditions # <<>> /\ getLatestCondition(n) = t
            /\ n.nodeDevice = inst.nodeDevice /\ n.startTime = inst.startTime
            /\ n.phase = inst.phase /\ n.keepCephToolsPod = inst.keepCephToolsPod
            /\ SameFlags(n, inst)
        BY <1>a, <4>1, TransitionType, TransitionKeeps DEF SameFlags
      <4>4. s = inst
        BY <1>c, <4>1 DEF QuietInv, Begun
      <4> HIDE DEF n
      <4> QED BY <1>a, <4>1, <4>2, <4>3, <4>4
                 DEF SamePlace, SameFlags, Latest, Started, StartedStatus
    <3> QED BY <1>2, <1>a, <3>1, <3>2, <3>3 DEF HandlerStep
  <2>3. QuietInv'
    BY <1>a, <1>b, <2>1, <2>2 DEF QuietInv, apiVars
  <2>4. \A c \in CR : Now(c)' = (IF c = cur THEN inst' ELSE store[c])
    BY <2>1 DEF Now, apiVars
  <2>5. \A c \in CR : c # cur => Now(c) = store[c]
    BY DEF Now
  <2> QED BY <1>2, <1>a, <1>c, <1>d, <2>2, <2>3, <2>4, <2>5
<1> QED BY <1>1, <1>2

\* The invariant holds of every behaviour in which nothing goes wrong.
LEMMA QuietInvCorrect == ASSUME Quiet PROVE Spec => []QuietInv
<1>1. Init => QuietInv
  <2> SUFFICES ASSUME Init PROVE QuietInv
    OBVIOUS
  <2>1. Sorted(EmptyStatus)
    BY EmptyStatusType DEF Sorted
  <2> QED BY <2>1 DEF Init, QuietInv
<1>2. TypeInv /\ JobInv /\ CopyInv /\ FreshInv /\ QuietInv /\ [Next]_vars => QuietInv'
  <2> SUFFICES ASSUME TypeInv, JobInv, CopyInv, FreshInv, QuietInv, [Next]_vars
               PROVE  QuietInv'
    OBVIOUS
  <2>1. CASE UNCHANGED vars
    BY <2>1 DEF vars, apiVars, workerVars, QuietInv
  <2>2. ASSUME NEW c \in CR, Ignore(c) PROVE QuietInv'
    BY <2>2 DEF Ignore, apiVars, workerVars, QuietInv
  <2> QED BY <2>1, <2>2, QuietEnvironment, QuietStart, QuietUpdate, QuietHandler DEF Next
<1> QED BY <1>1, <1>2, TypeCorrect, JobInvCorrect, FlowInvCorrect, PTL DEF Spec

\* Every step that is not the handler's or the start of a recovery leaves all
\* recoveries where they are.
LEMMA QuietOthers ==
  ASSUME TypeInv, CopyInv, FreshInv, QuietInv, Quiet, [Next]_vars, ~Handler
  PROVE  (NowSame /\ RecordKept) \/ (\E c \in CR : Start(c))
<1>1. ASSUME UNCHANGED <<store, workerVars, metrics, restartOwed, clusterVars>>
      PROVE  NowSame /\ RecordKept
  <2>1. \A c \in CR : Now(c)' = Now(c)
    BY <1>1 DEF Now, workerVars
  <2> QED BY <1>1, <2>1 DEF NowSame, RecordKept, clusterVars, toolsVars, SamePlace, SameFlags
<1>2. CASE UNCHANGED vars
  BY <1>1, <1>2 DEF vars, apiVars
<1>3. ASSUME NEW c \in CR, Ignore(c) PROVE NowSame /\ RecordKept
  BY <1>1, <1>3 DEF Ignore, apiVars
<1> QED BY <1>2, <1>3, QuietEnvironment, QuietUpdate DEF Next

-------------------------------------------------------------------------------
(***************************************************************************)
(* A recovery that owes rook a restart knows it, and has the restart still *)
(* before it.                                                              *)
(***************************************************************************)
AfterRestart ==
  {"DeleteFailedPodsNodeAffinity", "StorageClusterFitnessCheck", "DisableCephTools"}
Owes(s) == s.startTime /\ restartIsNeeded(s) /\ Latest(s) \notin AfterRestart

OwedInv ==
  /\ \A c \in restartOwed : Owes(Now(c))
  /\ \A c \in CR : Now(c).phase = "Completed" => Latest(Now(c)) = "DisableCephTools"

\* The handlers that note the debt, and the one that settles it.
LEMMA HandlerOwes ==
  ASSUME TypeInv, CopyInv, Handler
  PROVE  \/ /\ UNCHANGED restartOwed
            /\ getLatestCondition(inst) = "RestartStorageOperator" /\ restartIsNeeded(inst)
                 => inst'.conditions = inst.conditions
         \/ restartOwed' = restartOwed \ {cur}
         \/ /\ restartOwed' = restartOwed \union {cur}
            /\ restartIsNeeded(inst') /\ inst'.startTime
            /\ getLatestCondition(inst') \notin AfterRestart
<1>a. inst \in StartedStatus /\ inst \in NodeRecoveryStatus /\ inst.startTime
      /\ inst.conditions # <<>>
  BY HandlerBusy DEF StartedStatus
<1>1. CASE ReconciliationTimeout \/ CallFails
  BY <1>1, <1>a DEF ReconciliationTimeout, CallFails, NoCount, Return, NodeRecoveryStatus
<1>2. CASE LabelNodesWithPendingPods
  <2> DEFINE noted == [inst EXCEPT !.pendingPods = TRUE]
             t     == "ManageCrashLoopBackOffPods"
  <2>1. CASE UNCHANGED restartOwed
    BY <1>2, <2>1 DEF LabelNodesWithPendingPods, At
  <2>2. CASE ~UNCHANGED restartOwed
    <3>1. /\ restartOwed' = restartOwed \union {cur}
          /\ inst' \in {noted, transitionNextCondition(noted, t)}
          /\ getLatestCondition(inst) = "LabelNodesWithPendingPods"
      BY <1>2, <2>2 DEF LabelNodesWithPendingPods, At, Advance, Return
    <3>2. /\ noted \in NodeRecoveryStatus /\ noted.conditions = inst.conditions
          /\ noted.pendingPods /\ noted.startTime
      BY <1>a DEF NodeRecoveryStatus
    <3> HIDE DEF noted
    <3>3. t \in ConditionType
      BY DEF ConditionType
    <3>4. LET n == transitionNextCondition(noted, t)
          IN  n.pendingPods = noted.pendingPods /\ n.startTime = noted.startTime
              /\ getLatestCondition(n) = t
      BY <1>a, <3>2, <3>3, TransitionType, TransitionKeeps
    <3>5. inst'.pendingPods /\ inst'.startTime
      BY <3>1, <3>2, <3>4
    <3>6. getLatestCondition(inst') \in {t, "LabelNodesWithPendingPods"}
      BY <3>1, <3>2, <3>4 DEF getLatestCondition
    <3> QED BY <3>1, <3>5, <3>6 DEF AfterRestart, restartIsNeeded
  <2> QED BY <2>1, <2>2
<1>3. CASE ManageCrashLoopBackOffPods
  <2> DEFINE n(ids) == [inst EXCEPT !.operationalOSDIDs = ids, !.crashLoopBackOffPods = TRUE]
  <2>1. CASE UNCHANGED restartOwed
    BY <1>3, <2>1 DEF ManageCrashLoopBackOffPods, At
  <2>2. CASE ~UNCHANGED restartOwed
    <3>1. /\ restartOwed' = restartOwed \union {cur}
          /\ \E ids : inst' = n(ids)
          /\ getLatestCondition(inst) = "ManageCrashLoopBackOffPods"
      BY <1>3, <2>2 DEF ManageCrashLoopBackOffPods, At
    <3>2. inst'.conditions = inst.conditions /\ inst'.crashLoopBackOffPods /\ inst'.startTime
      BY <1>a, <3>1 DEF NodeRecoveryStatus
    <3> QED BY <3>1, <3>2 DEF AfterRestart, restartIsNeeded, getLatestCondition
  <2> QED BY <2>1, <2>2
<1>4. CASE RestartStorageOperator
  BY <1>4 DEF RestartStorageOperator, deleteRookCephOperatorPod
<1>5. CASE DisableCephTools
  BY <1>5 DEF DisableCephTools, At
<1>6. CASE EnableCephToolsPod \/ enableCephTools \/ WaitForCephToolsPodRunning
           \/ WaitForOSDPodsStabilize
  BY <1>6 DEF EnableCephToolsPod, enableCephTools, WaitForCephToolsPodRunning,
              WaitForOSDPodsStabilize, At, NoCount, CopyInv
<1>7. CASE \/ \E o \in OSD : handleCrashLoopBackOffPods(o)
           \/ handleCrashLoopBackOffPodsFails \/ handleCrashLoopBackOffPodsPanics
           \/ ManageDone \/ ForceDeleteRookCephOSDPods
  BY <1>7 DEF handleCrashLoopBackOffPods, handleCrashLoopBackOffPodsFails, ManageDone,
              handleCrashLoopBackOffPodsPanics, ForceDeleteRookCephOSDPods, At, NoCount, CopyInv
<1>8. CASE \/ ProcessOCSRemovalTemplate \/ CreateOSDRemovalJob
           \/ WaitForJob \/ ReplaceOSDRemovalJob \/ CreateForcedOSDRemovalJob
           \/ RetryTimedOut \/ validateJobLogs \/ JobSucceeded
  BY <1>8 DEF ProcessOCSRemovalTemplate, CreateOSDRemovalJob, WaitForJob, ReplaceOSDRemovalJob,
              CreateForcedOSDRemovalJob, RetryTimedOut, validateJobLogs, JobSucceeded, AtJob, At,
              NoCount
<1>9. CASE \/ WaitForPersistenVolumeBound \/ DeleteFailedPodsNodeAffinity
           \/ StorageClusterFitnessCheck
  BY <1>9 DEF WaitForPersistenVolumeBound, DeleteFailedPodsNodeAffinity,
              StorageClusterFitnessCheck, At, NoCount
<1> QED BY <1>1, <1>2, <1>3, <1>4, <1>5, <1>6, <1>7, <1>8, <1>9 DEF Handler

\* A handler that does not settle the debt keeps it before it.
LEMMA HandlerKeepsOwing ==
  ASSUME TypeInv, CopyInv, Handler, HandlerStep, ~Panics, Owes(inst),
         getLatestCondition(inst) = "RestartStorageOperator" => inst'.conditions = inst.conditions
  PROVE  Owes(inst')
<1>a. inst \in StartedStatus /\ inst \in NodeRecoveryStatus /\ inst.startTime
      /\ inst.conditions # <<>>
  BY HandlerBusy DEF StartedStatus
<1>b. getLatestCondition(inst) \in ConditionType \ AfterRestart /\ restartIsNeeded(inst)
  BY <1>a, LatestConditionType DEF Owes, Latest, Started
<1>1. ASSUME NEW n, Handles(n), inst' = n PROVE Owes(inst')
  BY <1>1, <1>b DEF Handles, Owes, restartIsNeeded, Latest, Started, getLatestCondition
<1>2. CASE Stays \/ Works \/ Fails \/ Completes
  BY <1>1, <1>2 DEF Stays, Works, Fails, Completes, Ends, Return
<1>3. ASSUME NEW n, NEW t \in ConditionType, Handles(n), Advance(n, t),
             t \notin AfterRestart
      PROVE  Owes(inst')
  <2>1. n \in NodeRecoveryStatus /\ n.conditions # <<>> /\ n.startTime /\ restartIsNeeded(n)
    BY <1>3, <1>a, <1>b DEF Handles, StartedStatus, restartIsNeeded
  <2>2. inst' = transitionNextCondition(n, t)
    BY <1>3 DEF Advance, Return
  <2>3. inst'.startTime /\ restartIsNeeded(inst') /\ getLatestCondition(inst') = t
    BY <2>1, <2>2, TransitionType, TransitionKeeps DEF restartIsNeeded
  <2> QED BY <1>3, <2>3 DEF Owes, Latest, Started
<1>4. CASE Proceeds
  <2>1. PICK n, t : /\ Handles(n) /\ t \in ConditionType /\ Advance(n, t)
                    /\ t \in Flow!Following(getLatestCondition(inst))
    BY <1>4 DEF Proceeds
  <2>2. n \in NodeRecoveryStatus /\ n.conditions = inst.conditions
        /\ inst' = transitionNextCondition(n, t)
    BY <2>1 DEF Handles, StartedStatus, Advance, Return
  <2>3. Len(inst'.conditions) = Len(inst.conditions) + 1 /\ Len(inst.conditions) \in Nat
    BY <1>a, <2>1, <2>2, TransitionConditions
  <2>4. getLatestCondition(inst) # "RestartStorageOperator"
    BY <2>3
  <2>5. t \notin AfterRestart
    BY <1>b, <2>1, <2>4, FollowingValues DEF ConditionType, AfterRestart
  <2> QED BY <1>3, <2>1, <2>5
<1>5. CASE Repeats
  <2>1. Handles(inst) /\ "ForceDeleteRookCephOSDPods" \in ConditionType \ AfterRestart
    BY <1>a DEF Handles, ConditionType, AfterRestart
  <2> QED BY <1>3, <1>5, <2>1 DEF Repeats
<1> QED BY <1>2, <1>4, <1>5 DEF HandlerStep

\* Only the last handler completes a recovery.
LEMMA CompletesLast ==
  ASSUME TypeInv, Handler, HandlerStep, ~Panics, inst.phase \notin TerminalPhase,
         inst'.phase = "Completed"
  PROVE  Latest(inst') = "DisableCephTools" /\ Completes
<1>a. inst \in StartedStatus /\ inst \in NodeRecoveryStatus /\ inst.startTime
      /\ inst.conditions # <<>> /\ inst.phase # "Completed"
  BY HandlerBusy DEF StartedStatus, TerminalPhase
<1>1. ~Stays /\ ~Works /\ ~Fails
  BY <1>a DEF Stays, Works, Fails, Ends, SameRecord, Return
<1>2. ASSUME NEW n, NEW t \in ConditionType, Handles(n), Advance(n, t)
      PROVE  n.phase = inst'.phase
  <2>1. n \in NodeRecoveryStatus /\ n.conditions # <<>> /\ inst' = transitionNextCondition(n, t)
    BY <1>2, <1>a DEF Handles, StartedStatus, Advance, Return
  <2> QED BY <2>1, TransitionKeeps
<1>3. ~Proceeds
  BY <1>2, <1>a DEF Proceeds
<1>4. ~Repeats
  <2>1. Handles(inst) /\ "ForceDeleteRookCephOSDPods" \in ConditionType
    BY <1>a DEF Handles, ConditionType
  <2> QED BY <1>2, <1>a, <2>1 DEF Repeats
<1>5. Completes
  BY <1>1, <1>3, <1>4 DEF HandlerStep
<1> QED
  BY <1>5 DEF Completes, Ends, Return, Handles, Latest, Started, getLatestCondition

\* A handler that panics notes nothing.
LEMMA HandlerPanics ==
  ASSUME Handler, Panics
  PROVE  UNCHANGED <<metrics, restartOwed, toolsSpec, userTools>>
<1>1. pc' = "idle" /\ UNCHANGED <<toolsSpec, userTools>>
  BY DEF Panics, Panic, Idle, clusterVars, toolsVars
<1>2. UNCHANGED <<metrics, restartOwed>>
  BY <1>1 DEF Handler, ReconciliationTimeout, CallFails, EnableCephToolsPod, enableCephTools,
         WaitForCephToolsPodRunning, WaitForOSDPodsStabilize, LabelNodesWithPendingPods,
         ManageCrashLoopBackOffPods, handleCrashLoopBackOffPods,
         handleCrashLoopBackOffPodsFails, handleCrashLoopBackOffPodsPanics, ManageDone,
         ForceDeleteRookCephOSDPods, ProcessOCSRemovalTemplate, CreateOSDRemovalJob,
         WaitForJob, ReplaceOSDRemovalJob, CreateForcedOSDRemovalJob, RetryTimedOut,
         validateJobLogs, JobSucceeded, WaitForPersistenVolumeBound, RestartStorageOperator,
         DeleteFailedPodsNodeAffinity, StorageClusterFitnessCheck, DisableCephTools,
         Return, Advance, GoOn, NoCount
<1> QED BY <1>1, <1>2

\* The worker holds no resource whose stored status is final.
LEMMA NowCompleted ==
  ASSUME TypeInv, FreshInv, QuietInv, NEW c \in CR, store[c].phase \in TerminalPhase
  PROVE  Now(c) = store[c]
  BY DEF FreshInv, QuietInv, Now

LEMMA OwedInvCorrect == ASSUME Quiet, OverPVC = OSD PROVE Spec => []OwedInv
<1>1. Init => OwedInv
  <2> SUFFICES ASSUME Init PROVE OwedInv
    OBVIOUS
  <2>1. restartOwed = {} /\ \A c \in CR : Now(c) = EmptyStatus
    BY DEF Init, Now
  <2>2. EmptyStatus.phase = ""
    BY DEF EmptyStatus
  <2> QED BY <2>1, <2>2 DEF OwedInv
<1>2. TypeInv /\ JobInv /\ CopyInv /\ FreshInv /\ QuietInv /\ OwedInv /\ [Next]_vars => OwedInv'
  <2> SUFFICES ASSUME TypeInv, JobInv, CopyInv, FreshInv, QuietInv, OwedInv, [Next]_vars
               PROVE  OwedInv'
    OBVIOUS
  <2>a. restartOwed \subseteq CR
    BY DEF TypeInv, CountInv
  <2>1. CASE NowSame /\ RecordKept
    BY <2>1, <2>a DEF NowSame, RecordKept, SamePlace, SameFlags, OwedInv, Owes, restartIsNeeded
  <2>2. ASSUME NEW me \in CR, Start(me) PROVE OwedInv'
    <3>1. /\ Now(me) = store[me] /\ Now(me)' = Begun(store[me])
          /\ \A c \in CR : c # me => Now(c)' = Now(c)
          /\ UNCHANGED restartOwed
      BY <2>2, QuietStart
    <3>2. store[me].startTime => Now(me)' = Now(me)
      BY <3>1 DEF Begun
    <3>3. ~store[me].startTime => me \notin restartOwed /\ Now(me)'.phase # "Completed"
      BY <3>1 DEF OwedInv, Owes, Begun, initStatus, TypeInv, ApiInv, StartedStatus,
                  NodeRecoveryStatus
    <3> QED BY <2>a, <3>1, <3>2, <3>3 DEF OwedInv
  <2>3. CASE Handler
    <3>1. /\ HandlerStep
          /\ cur \in CR /\ Now(cur) = inst /\ inst.phase \notin TerminalPhase
          /\ \A c \in CR : c # cur => Now(c)' = Now(c)
          /\ IF Panics
             THEN /\ SamePlace(store[cur], inst) /\ SameFlags(store[cur], inst)
                  /\ \A c \in CR : c = cur => Now(c)' = store[c]
             ELSE /\ inst'.startTime
                  /\ \A c \in CR : c = cur => Now(c)' = inst'
      BY <2>3, QuietHandler
    <3>2. CASE Panics
      <4>1. /\ cur \in restartOwed => Owes(store[cur])
            /\ store[cur].phase # "Completed"
        BY <3>1, <3>2 DEF OwedInv, Owes, SamePlace, SameFlags, restartIsNeeded, TerminalPhase
      <4>2. restartOwed' \subseteq restartOwed
        BY <2>3, <3>2, HandlerPanics
      <4> QED BY <2>a, <3>1, <3>2, <4>1, <4>2 DEF OwedInv
    <3>3. CASE ~Panics
      <4>1. inst'.phase = "Completed" => Latest(inst') = "DisableCephTools"
        BY <2>3, <3>1, <3>3, CompletesLast
      <4>2. cur \in restartOwed' => Owes(inst')
        <5>1. cur \in restartOwed => Owes(inst)
          BY <3>1 DEF OwedInv
        <5>2. CASE cur \in restartOwed /\ UNCHANGED restartOwed
                   /\ (getLatestCondition(inst) = "RestartStorageOperator" /\ restartIsNeeded(inst)
                         => inst'.conditions = inst.conditions)
          BY <2>3, <3>1, <3>3, <5>1, <5>2, HandlerKeepsOwing DEF Owes
        <5> QED BY <2>3, <3>1, <3>3, <5>2, HandlerOwes DEF Owes, Latest, Started
      <4>3. \A c \in restartOwed' : c = cur \/ c \in restartOwed
        BY <2>3, HandlerOwes
      <4> QED BY <2>a, <3>1, <3>3, <4>1, <4>2, <4>3 DEF OwedInv
    <3> QED BY <3>2, <3>3
  <2> QED BY <2>1, <2>2, <2>3, QuietOthers
<1> QED BY <1>1, <1>2, TypeCorrect, JobInvCorrect, FlowInvCorrect, QuietInvCorrect, PTL DEF Spec

\* A completed recovery owes no restart of the rook operator: with every OSD on
\* a claim, what it met is never lost with a reconciliation that is repeated.
THEOREM RestartNotOwedCorrect ==
  ASSUME Quiet, OverPVC = OSD
  PROVE  Spec => []RestartNotOwed
<1>1. TypeInv /\ FreshInv /\ QuietInv /\ OwedInv => RestartNotOwed
  <2> SUFFICES ASSUME TypeInv, FreshInv, QuietInv, OwedInv,
                      NEW c \in CR, store[c].phase = "Completed", c \in restartOwed
               PROVE  FALSE
    BY DEF RestartNotOwed
  <2>1. Now(c) = store[c]
    BY NowCompleted DEF TerminalPhase
  <2> QED BY <2>1 DEF OwedInv, Owes, AfterRestart
<1> QED BY <1>1, TypeCorrect, FlowInvCorrect, QuietInvCorrect, OwedInvCorrect, PTL

-------------------------------------------------------------------------------
\* The last condition has one handler.
LEMMA LastHandler ==
  ASSUME CopyInv, Handler, getLatestCondition(inst) = "DisableCephTools"
  PROVE  ReconciliationTimeout \/ CallFails \/ DisableCephTools
<1>1. ~EnableCephToolsPod /\ ~enableCephTools /\ ~WaitForCephToolsPodRunning
      /\ ~WaitForOSDPodsStabilize /\ ~LabelNodesWithPendingPods /\ ~ManageCrashLoopBackOffPods
  BY DEF EnableCephToolsPod, enableCephTools, WaitForCephToolsPodRunning, CopyInv,
         WaitForOSDPodsStabilize, LabelNodesWithPendingPods, ManageCrashLoopBackOffPods, At
<1>2. /\ \A o \in OSD : ~handleCrashLoopBackOffPods(o)
      /\ ~handleCrashLoopBackOffPodsFails /\ ~handleCrashLoopBackOffPodsPanics
      /\ ~ManageDone /\ ~ForceDeleteRookCephOSDPods
  BY DEF handleCrashLoopBackOffPods, handleCrashLoopBackOffPodsFails, CopyInv,
         handleCrashLoopBackOffPodsPanics, ManageDone, ForceDeleteRookCephOSDPods, At
<1>3. /\ ~ProcessOCSRemovalTemplate /\ ~CreateOSDRemovalJob /\ ~WaitForJob
      /\ ~ReplaceOSDRemovalJob /\ ~CreateForcedOSDRemovalJob
      /\ ~RetryTimedOut /\ ~validateJobLogs /\ ~JobSucceeded
  BY DEF ProcessOCSRemovalTemplate, CreateOSDRemovalJob, WaitForJob, ReplaceOSDRemovalJob,
         CreateForcedOSDRemovalJob, RetryTimedOut, validateJobLogs, JobSucceeded, AtJob, At
<1>4. /\ ~WaitForPersistenVolumeBound /\ ~RestartStorageOperator
      /\ ~DeleteFailedPodsNodeAffinity /\ ~StorageClusterFitnessCheck
  BY DEF WaitForPersistenVolumeBound, RestartStorageOperator, DeleteFailedPodsNodeAffinity,
         StorageClusterFitnessCheck, At
<1> QED BY <1>1, <1>2, <1>3, <1>4 DEF Handler

(***************************************************************************)
(* Every recovery that has started, and every one that has completed, has  *)
(* been counted once, as far as each has got.                              *)
(***************************************************************************)
StartedNow   == {c \in CR : Now(c).startTime}
CompletedNow == {c \in CR : Now(c).phase = "Completed"}
TallyInv ==
  /\ metrics.total = Cardinality(StartedNow)
  /\ metrics.completed = Cardinality(CompletedNow)

\* A handler counts the recovery it completes, and no other.
LEMMA HandlerCounts ==
  ASSUME TypeInv, CopyInv, Handler, HandlerStep, inst.phase \notin TerminalPhase, ~Panics
  PROVE  /\ metrics'.total = metrics.total
         /\ metrics'.completed = IF inst'.phase = "Completed" THEN Inc(metrics.completed)
                                 ELSE metrics.completed
<1>a. inst \in NodeRecoveryStatus /\ metrics \in Metrics
  BY DEF TypeInv, WorkerInv, CountInv, StartedStatus
<1>1. CASE DisableCephTools
  BY <1>1, <1>a DEF DisableCephTools, Return, Metrics, NodeRecoveryStatus
<1>2. CASE ~DisableCephTools
  <2>1. inst'.phase # "Completed"
    <3>1. CASE ReconciliationTimeout \/ CallFails
      BY <3>1, <1>a DEF ReconciliationTimeout, CallFails, Return, NodeRecoveryStatus,
                        TerminalPhase
    <3>2. CASE ~(ReconciliationTimeout \/ CallFails)
      BY <1>2, <3>2, LastHandler, CompletesLast DEF Completes
    <3> QED BY <3>1, <3>2
  <2>2. CASE ReconciliationTimeout
    BY <2>1, <2>2, <1>a DEF ReconciliationTimeout, Metrics
  <2>3. CASE ~ReconciliationTimeout
    <3>1. UNCHANGED metrics
      BY <1>2, <2>3
      DEF Handler, CallFails, EnableCephToolsPod, enableCephTools,
         WaitForCephToolsPodRunning, WaitForOSDPodsStabilize, LabelNodesWithPendingPods,
         ManageCrashLoopBackOffPods, handleCrashLoopBackOffPods,
         handleCrashLoopBackOffPodsFails, handleCrashLoopBackOffPodsPanics, ManageDone,
         ForceDeleteRookCephOSDPods, ProcessOCSRemovalTemplate, CreateOSDRemovalJob,
         WaitForJob, ReplaceOSDRemovalJob, CreateForcedOSDRemovalJob, RetryTimedOut,
         validateJobLogs, JobSucceeded, WaitForPersistenVolumeBound, RestartStorageOperator,
         DeleteFailedPodsNodeAffinity, StorageClusterFitnessCheck, NoCount
    <3> QED BY <2>1, <3>1
  <2> QED BY <2>2, <2>3
<1> QED BY <1>1, <1>2

\* Counting one more element of a set that the counter can hold.
LEMMA CountOneMore ==
  ASSUME IsFiniteSet(CR), Cardinality(CR) <= MaxCount,
         NEW S \in SUBSET CR, NEW x \in CR, x \notin S
  PROVE  Inc(Cardinality(S)) = Cardinality(S \union {x})
<1>1. IsFiniteSet(S) /\ IsFiniteSet(S \union {x})
  BY FS_Subset
<1>2. Cardinality(S \union {x}) = Cardinality(S) + 1 /\ Cardinality(S) \in Nat
  BY <1>1, FS_AddElement, FS_CardinalityType
<1>3. Cardinality(S \union {x}) <= Cardinality(CR) /\ Cardinality(CR) \in Nat
  BY FS_Subset, FS_CardinalityType
<1> QED BY <1>2, <1>3, ControllerAssumption DEF Inc

\* Between reconciliations the counters of started and of completed recoveries
\* agree with the stored statuses, for any number of resources they can count.
THEOREM CountersExactCorrect ==
  ASSUME Quiet, IsFiniteSet(CR), Cardinality(CR) <= MaxCount
  PROVE  Spec => []CountersExact
<1>1. Init => TallyInv
  <2> SUFFICES ASSUME Init PROVE TallyInv
    OBVIOUS
  <2>1. \A c \in CR : Now(c) = EmptyStatus
    BY DEF Init, Now
  <2>2. StartedNow = {} /\ CompletedNow = {}
    <3>1. EmptyStatus.phase = "" /\ EmptyStatus.startTime = FALSE
      BY DEF EmptyStatus
    <3> QED BY <2>1, <3>1 DEF StartedNow, CompletedNow
  <2> QED BY <2>2, FS_EmptySet DEF TallyInv, Init, ZeroMetrics
<1>2. TypeInv /\ JobInv /\ CopyInv /\ FreshInv /\ QuietInv /\ TallyInv /\ [Next]_vars => TallyInv'
  <2> SUFFICES ASSUME TypeInv, JobInv, CopyInv, FreshInv, QuietInv, TallyInv, [Next]_vars
               PROVE  TallyInv'
    OBVIOUS
  <2>a. metrics \in Metrics
    BY DEF TypeInv, CountInv
  <2>1. CASE NowSame /\ RecordKept
    <3>1. StartedNow' = StartedNow /\ CompletedNow' = CompletedNow
      BY <2>1 DEF NowSame, SamePlace, StartedNow, CompletedNow
    <3> QED BY <2>1, <3>1 DEF RecordKept, TallyInv
  <2>2. ASSUME NEW me \in CR, Start(me) PROVE TallyInv'
    <3>1. /\ Now(me) = store[me] /\ Now(me)' = Begun(store[me])
          /\ \A c \in CR : c # me => Now(c)' = Now(c)
          /\ metrics' = CountOperand(store[me])
      BY <2>2, QuietStart
    <3>2. CASE store[me].startTime
      <4>1. \A c \in CR : Now(c)' = Now(c)
        BY <3>1, <3>2 DEF Begun
      <4>2. StartedNow' = StartedNow /\ CompletedNow' = CompletedNow
        BY <4>1 DEF StartedNow, CompletedNow
      <4> QED BY <3>1, <3>2, <4>2 DEF CountOperand, TallyInv
    <3>3. CASE ~store[me].startTime
      <4>1. store[me] = EmptyStatus
        BY <3>3 DEF CopyInv, WellKept
      <4>a. EmptyStatus.phase = "" /\ EmptyStatus \in NodeRecoveryStatus
        BY EmptyStatusType DEF EmptyStatus, StartedStatus
      <4>b. initStatus(EmptyStatus).startTime /\ initStatus(EmptyStatus).phase = "Running"
        BY <4>a DEF initStatus, NodeRecoveryStatus
      <4>2. Now(me)'.startTime /\ Now(me)'.phase # "Completed" /\ Now(me).phase # "Completed"
        BY <3>1, <3>3, <4>1, <4>a, <4>b DEF Begun
      <4>3. /\ me \notin StartedNow /\ StartedNow' = StartedNow \union {me}
            /\ CompletedNow' = CompletedNow
        BY <3>1, <3>3, <4>2 DEF StartedNow, CompletedNow
      <4>4. metrics'.total = Inc(metrics.total) /\ metrics'.completed = metrics.completed
        BY <2>a, <3>1, <3>3 DEF CountOperand, Metrics
      <4>5. Inc(Cardinality(StartedNow)) = Cardinality(StartedNow \union {me})
        BY <4>3, CountOneMore DEF StartedNow
      <4> QED BY <4>3, <4>4, <4>5 DEF TallyInv
    <3> QED BY <3>2, <3>3
  <2>3. CASE Handler
    <3>1. /\ HandlerStep
          /\ cur \in CR /\ Now(cur) = inst /\ inst.phase \notin TerminalPhase
          /\ \A c \in CR : c # cur => Now(c)' = Now(c)
          /\ IF Panics
             THEN /\ SamePlace(store[cur], inst)
                  /\ \A c \in CR : c = cur => Now(c)' = store[c]
             ELSE /\ inst'.startTime
                  /\ \A c \in CR : c = cur => Now(c)' = inst'
      BY <2>3, QuietHandler
    <3>2. inst.startTime
      BY <2>3, HandlerBusy
    <3>3. CASE Panics
      <4>1. StartedNow' = StartedNow /\ CompletedNow' = CompletedNow
        BY <3>1, <3>3 DEF SamePlace, StartedNow, CompletedNow
      <4> QED BY <2>3, <3>3, <4>1, HandlerPanics DEF TallyInv
    <3>4. CASE ~Panics
      <4>1. StartedNow' = StartedNow /\ cur \notin CompletedNow
        BY <3>1, <3>2, <3>4 DEF StartedNow, CompletedNow, TerminalPhase
      <4>2. CompletedNow' = IF inst'.phase = "Completed" THEN CompletedNow \union {cur}
                            ELSE CompletedNow
        BY <3>1, <3>4, <4>1 DEF CompletedNow
      <4>3. Inc(Cardinality(CompletedNow)) = Cardinality(CompletedNow \union {cur})
        BY <3>1, <4>1, CountOneMore DEF CompletedNow
      <4> QED BY <2>3, <3>1, <3>4, <4>1, <4>2, <4>3, HandlerCounts DEF TallyInv
    <3> QED BY <3>3, <3>4
  <2> QED BY <2>1, <2>2, <2>3, QuietOthers
<1>3. TallyInv => CountersExact
  <2> SUFFICES ASSUME TallyInv, pc = "idle"
               PROVE  /\ metrics.total = Cardinality({c \in CR : Started(store[c])})
                      /\ metrics.completed = Cardinality({c \in CR : store[c].phase = "Completed"})
    BY DEF CountersExact
  <2>1. \A c \in CR : Now(c) = store[c]
    BY DEF Now
  <2>2. /\ StartedNow = {c \in CR : Started(store[c])}
        /\ CompletedNow = {c \in CR : store[c].phase = "Completed"}
    BY <2>1 DEF StartedNow, CompletedNow, Started
  <2> QED BY <2>2 DEF TallyInv
<1> QED BY <1>1, <1>2, <1>3, TypeCorrect, JobInvCorrect, FlowInvCorrect, QuietInvCorrect, PTL
        DEF Spec

-------------------------------------------------------------------------------
\* So has the first condition, in two steps.
LEMMA FirstHandler ==
  ASSUME CopyInv, Handler, getLatestCondition(inst) = "EnableCephToolsPod"
  PROVE  ReconciliationTimeout \/ CallFails \/ EnableCephToolsPod \/ enableCephTools
<1>1. ~WaitForCephToolsPodRunning /\ ~WaitForOSDPodsStabilize /\ ~LabelNodesWithPendingPods
      /\ ~ManageCrashLoopBackOffPods
  BY DEF WaitForCephToolsPodRunning, WaitForOSDPodsStabilize, LabelNodesWithPendingPods,
         ManageCrashLoopBackOffPods, At
<1>2. /\ \A o \in OSD : ~handleCrashLoopBackOffPods(o)
      /\ ~handleCrashLoopBackOffPodsFails /\ ~handleCrashLoopBackOffPodsPanics
      /\ ~ManageDone /\ ~ForceDeleteRookCephOSDPods
  BY DEF handleCrashLoopBackOffPods, handleCrashLoopBackOffPodsFails, CopyInv,
         handleCrashLoopBackOffPodsPanics, ManageDone, ForceDeleteRookCephOSDPods, At
<1>3. /\ ~ProcessOCSRemovalTemplate /\ ~CreateOSDRemovalJob /\ ~WaitForJob
      /\ ~ReplaceOSDRemovalJob /\ ~CreateForcedOSDRemovalJob
      /\ ~RetryTimedOut /\ ~validateJobLogs /\ ~JobSucceeded
  BY DEF ProcessOCSRemovalTemplate, CreateOSDRemovalJob, WaitForJob, ReplaceOSDRemovalJob,
         CreateForcedOSDRemovalJob, RetryTimedOut, validateJobLogs, JobSucceeded, AtJob, At
<1>4. /\ ~WaitForPersistenVolumeBound /\ ~RestartStorageOperator
      /\ ~DeleteFailedPodsNodeAffinity /\ ~StorageClusterFitnessCheck /\ ~DisableCephTools
  BY DEF WaitForPersistenVolumeBound, RestartStorageOperator, DeleteFailedPodsNodeAffinity,
         StorageClusterFitnessCheck, DisableCephTools, At
<1> QED BY <1>1, <1>2, <1>3, <1>4 DEF Handler

\* Only an upgrade changes the version.
LEMMA OcpKept == ASSUME ~AllowUpgrade, [Next]_vars PROVE UNCHANGED ocp
<1>1. CASE Handler
  BY <1>1, HandlerTools
<1>2. CASE Environment
  <2>1. ClusterNext => UNCHANGED ocp
    BY DEF ClusterNext, ToolsPodChanges, ClusterUpgrades, PodChanges, PodTerminates,
           MinutePasses, PodGone, NewOSD, JobPurges, JobPodStarts, JobPodEnds,
           PodRejected, VolumeReleased, InformerSync, toolsVars
  <2> QED BY <1>2, <2>1 DEF Environment, CreateCR, DeleteCR, Touch, CacheSync, Tick,
                            OperatorRestart, clusterVars, toolsVars
<1>3. CASE (\E c \in CR : Start(c) \/ Ignore(c)) \/ StatusUpdate \/ StatusUpdateFails
  BY <1>3 DEF Start, Ignore, StatusUpdate, StatusUpdateFails, clusterVars, toolsVars
<1>4. CASE UNCHANGED vars
  BY <1>4 DEF vars, clusterVars, toolsVars
<1> QED BY <1>1, <1>2, <1>3, <1>4 DEF Next

(***************************************************************************)
(* The tools switch of a single recovery: on, between the condition that   *)
(* enables the tools and the one that disables them, if the user had them  *)
(* off, and otherwise as the user had set it.                              *)
(***************************************************************************)
Switched(s) ==
  /\ s.startTime /\ s.phase # "Completed" /\ ~s.keepCephToolsPod
  /\ Latest(s) # "EnableCephToolsPod"

SwitchOK(s, tools) ==
  /\ tools = IF Switched(s) THEN [userTools EXCEPT ![ToolsOwner] = TRUE] ELSE userTools
  /\ Latest(s) \in {"New", "EnableCephToolsPod"} => ~s.keepCephToolsPod

SwitchInv == \A c \in CR : SwitchOK(Now(c), toolsSpec)

\* What the first condition does to the switch and to the note about it.
LEMMA FirstHandlerSwitches ==
  ASSUME TypeInv, CopyInv, ToolsInv, Handler, inst.phase \notin TerminalPhase,
         getLatestCondition(inst) = "EnableCephToolsPod", SwitchOK(inst, toolsSpec)
  PROVE  SwitchOK(inst', toolsSpec')
<1>a. inst \in StartedStatus /\ inst \in NodeRecoveryStatus /\ inst.startTime
      /\ inst.conditions # <<>> /\ ~inst.keepCephToolsPod /\ toolsSpec = userTools
  BY HandlerBusy DEF StartedStatus, SwitchOK, Switched, Latest, Started
<1>b. UNCHANGED <<userTools, ToolsOwner>>
  BY HandlerTools DEF ToolsOwner
<1>c. "WaitForCephToolsPodRunning" \in ConditionType
  BY DEF ConditionType
<1>1. ASSUME UNCHANGED toolsSpec, inst'.conditions = inst.conditions, inst'.startTime,
             ~inst'.keepCephToolsPod
      PROVE  SwitchOK(inst', toolsSpec')
  BY <1>1, <1>a, <1>b DEF SwitchOK, Switched, Latest, Started, getLatestCondition
<1>2. CASE ReconciliationTimeout \/ CallFails
  BY <1>1, <1>2, <1>a DEF ReconciliationTimeout, CallFails, NoCall, Return, clusterVars,
                          toolsVars, NodeRecoveryStatus
<1>3. ASSUME Advance([inst EXCEPT !.keepCephToolsPod = TRUE], "WaitForCephToolsPodRunning"),
             NoCall
      PROVE  SwitchOK(inst', toolsSpec')
  <2> DEFINE n == [inst EXCEPT !.keepCephToolsPod = TRUE]
  <2>1. n \in NodeRecoveryStatus /\ n.conditions # <<>> /\ n.keepCephToolsPod /\ n.startTime
    BY <1>a DEF NodeRecoveryStatus
  <2>2. inst' = transitionNextCondition(n, "WaitForCephToolsPodRunning") /\ UNCHANGED toolsSpec
    BY <1>3 DEF Advance, Return, NoCall, clusterVars, toolsVars
  <2> HIDE DEF n
  <2>3. inst'.keepCephToolsPod /\ inst'.startTime
        /\ getLatestCondition(inst') = "WaitForCephToolsPodRunning"
    BY <1>c, <2>1, <2>2, TransitionType, TransitionKeeps
  <2> QED BY <1>a, <1>b, <2>2, <2>3 DEF SwitchOK, Switched, Latest, Started
<1>4. ASSUME Advance(inst, "WaitForCephToolsPodRunning"),
             toolsSpec' = [toolsSpec EXCEPT ![ToolsOwner] = TRUE]
      PROVE  SwitchOK(inst', toolsSpec')
  <2>1. inst' = transitionNextCondition(inst, "WaitForCephToolsPodRunning")
    BY <1>4 DEF Advance, Return
  <2>2. /\ ~inst'.keepCephToolsPod /\ inst'.startTime /\ inst'.phase = inst.phase
        /\ getLatestCondition(inst') = "WaitForCephToolsPodRunning"
    BY <1>a, <1>c, <2>1, TransitionType, TransitionKeeps
  <2>3. toolsSpec' = [userTools EXCEPT ![ToolsOwner] = TRUE]
    BY <1>4, <1>a
  <2>4. Switched(inst') /\ Latest(inst') = "WaitForCephToolsPodRunning"
    BY <2>2 DEF Switched, Latest, Started, TerminalPhase
  <2> QED BY <1>b, <2>3, <2>4 DEF SwitchOK
<1>5. CASE EnableCephToolsPod
  <2>1. CASE NoCall /\ GoOn("enable")
    BY <1>1, <1>a, <2>1 DEF NoCall, GoOn, clusterVars, toolsVars
  <2> QED BY <1>3, <1>5, <2>1 DEF EnableCephToolsPod
<1>6. CASE enableCephTools
  <2>1. CASE NoCall /\ Return(inst, "error")
    BY <1>1, <1>a, <2>1 DEF NoCall, Return, clusterVars, toolsVars
  <2> QED BY <1>4, <1>6, <2>1 DEF enableCephTools, setEnableCephToolsValue
<1> QED BY <1>2, <1>5, <1>6, FirstHandler

\* What the last one does to it.
LEMMA LastHandlerSwitches ==
  ASSUME TypeInv, CopyInv, ToolsInv, Handler, inst.phase \notin TerminalPhase,
         getLatestCondition(inst) = "DisableCephTools", SwitchOK(inst, toolsSpec)
  PROVE  SwitchOK(inst', toolsSpec')
<1>a. inst \in StartedStatus /\ inst \in NodeRecoveryStatus /\ inst.startTime
      /\ inst.conditions # <<>> /\ inst.phase # "Completed"
  BY HandlerBusy DEF StartedStatus, TerminalPhase
<1>b. UNCHANGED <<userTools, ToolsOwner>>
  BY HandlerTools DEF ToolsOwner
<1>c. /\ userTools \in [ToolsObject -> BOOLEAN] /\ ToolsOwner \in ToolsObject
      /\ Latest(inst) = "DisableCephTools"
  BY <1>a DEF TypeInv, ClusterTypeOK, ToolsOwner, ToolsObject, Latest, Started
<1>1. CASE ReconciliationTimeout \/ CallFails
  <2>1. /\ inst'.conditions = inst.conditions /\ inst'.startTime = inst.startTime
        /\ inst'.keepCephToolsPod = inst.keepCephToolsPod /\ inst'.phase # "Completed"
        /\ UNCHANGED toolsSpec
    BY <1>1, <1>a DEF ReconciliationTimeout, CallFails, NoCall, Return, clusterVars, toolsVars,
                      NodeRecoveryStatus
  <2>2. Latest(inst') = "DisableCephTools" /\ Switched(inst') = Switched(inst)
    BY <1>a, <1>c, <2>1 DEF Switched, Latest, Started, getLatestCondition
  <2> QED BY <1>b, <2>1, <2>2 DEF SwitchOK
<1>2. CASE DisableCephTools
  <2>1. /\ inst'.conditions = inst.conditions /\ inst'.startTime = inst.startTime
        /\ inst'.phase = "Completed"
    BY <1>2, <1>a DEF DisableCephTools, Return, NodeRecoveryStatus
  <2>2. ~Switched(inst') /\ Latest(inst') = "DisableCephTools"
    BY <1>a, <1>c, <2>1 DEF Switched, Latest, Started, getLatestCondition
  <2>3. CASE inst.keepCephToolsPod
    <3>1. UNCHANGED toolsSpec /\ toolsSpec = userTools
      BY <1>2, <2>3 DEF DisableCephTools, NoCall, clusterVars, toolsVars, SwitchOK, Switched
    <3> QED BY <1>b, <2>2, <3>1 DEF SwitchOK
  <2>4. CASE ~inst.keepCephToolsPod
    <3>1. /\ toolsSpec' = [toolsSpec EXCEPT ![ToolsOwner] = FALSE]
          /\ toolsSpec = [userTools EXCEPT ![ToolsOwner] = TRUE]
      BY <1>2, <1>a, <1>c, <2>4 DEF DisableCephTools, setEnableCephToolsValue, SwitchOK, Switched
    <3>2. userTools[ToolsOwner] = FALSE
      BY <1>a, <1>c, <2>4 DEF ToolsInv, UserToolsOK, UserHasTools
    <3>3. toolsSpec' = userTools
      BY <1>c, <3>1, <3>2
    <3> QED BY <1>b, <2>2, <3>3 DEF SwitchOK
  <2> QED BY <2>3, <2>4
<1> QED BY <1>1, <1>2, LastHandler

\* The handlers between them leave both alone.
LEMMA OtherHandlersSwitch ==
  ASSUME TypeInv, CopyInv, Handler, HandlerStep, ~Panics, inst.phase \notin TerminalPhase,
         getLatestCondition(inst) \notin {"EnableCephToolsPod", "DisableCephTools"},
         SwitchOK(inst, toolsSpec)
  PROVE  SwitchOK(inst', toolsSpec')
<1>a. inst \in StartedStatus /\ inst \in NodeRecoveryStatus /\ inst.startTime
      /\ inst.conditions # <<>> /\ inst.phase # "Completed"
  BY HandlerBusy DEF StartedStatus, TerminalPhase
<1>b. UNCHANGED <<userTools, ToolsOwner, toolsSpec>>
  BY HandlerTools DEF ToolsOwner, CopyInv
<1>c. inst'.phase # "Completed"
  BY CompletesLast DEF Completes
<1>1. ASSUME inst'.startTime, inst'.keepCephToolsPod = inst.keepCephToolsPod,
             getLatestCondition(inst') # "EnableCephToolsPod",
             getLatestCondition(inst') \in ConditionType
      PROVE  SwitchOK(inst', toolsSpec')
  <2>1. Switched(inst') = Switched(inst) /\ Latest(inst') \notin {"New", "EnableCephToolsPod"}
    BY <1>1, <1>a, <1>c DEF Switched, Latest, Started, ConditionType
  <2> QED BY <1>b, <2>1 DEF SwitchOK
<1>d. getLatestCondition(inst) \in ConditionType
  BY <1>a, LatestConditionType
<1>2. CASE Stays \/ Works \/ Fails \/ Completes
  <2>1. inst'.startTime /\ inst'.keepCephToolsPod = inst.keepCephToolsPod
        /\ inst'.conditions = inst.conditions
    BY <1>2 DEF Stays, Works, Fails, Completes, Ends, Handles, SameRecord, Return
  <2> QED BY <1>1, <1>d, <2>1 DEF getLatestCondition
<1>3. ASSUME NEW n, NEW t \in ConditionType, Handles(n), Advance(n, t),
             n.keepCephToolsPod = inst.keepCephToolsPod, t # "EnableCephToolsPod"
      PROVE  SwitchOK(inst', toolsSpec')
  <2>1. n \in NodeRecoveryStatus /\ n.conditions # <<>> /\ n.startTime
        /\ inst' = transitionNextCondition(n, t)
    BY <1>3, <1>a DEF Handles, StartedStatus, Advance, Return
  <2>2. inst'.startTime /\ inst'.keepCephToolsPod = n.keepCephToolsPod
        /\ getLatestCondition(inst') = t
    BY <2>1, TransitionType, TransitionKeeps
  <2> QED BY <1>1, <1>3, <2>2
<1>4. CASE Proceeds
  <2>1. PICK n, t : /\ Handles(n) /\ t \in ConditionType /\ Advance(n, t)
                    /\ t \in Flow!Following(getLatestCondition(inst))
                    /\ n.keepCephToolsPod = inst.keepCephToolsPod
    BY <1>4 DEF Proceeds
  <2>2. t # "EnableCephToolsPod"
    BY <1>d, <2>1, FollowingValues DEF ConditionType
  <2> QED BY <1>3, <2>1, <2>2
<1>5. CASE Repeats
  <2>1. Handles(inst) /\ "ForceDeleteRookCephOSDPods" \in ConditionType
    BY <1>a DEF Handles, ConditionType
  <2> QED BY <1>3, <1>5, <2>1 DEF Repeats
<1> QED BY <1>2, <1>4, <1>5 DEF HandlerStep

\* A completed recovery leaves the tools switch as the user had set it, if it
\* is the only recovery and the cluster is not upgraded meanwhile.
THEOREM ToolsRestoredCorrect ==
  ASSUME Quiet, ~AllowUpgrade, \A c, d \in CR : c = d
  PROVE  Spec => []ToolsRestored
<1>1. Init => SwitchInv
  <2> SUFFICES ASSUME Init PROVE SwitchInv
    OBVIOUS
  <2>1. toolsSpec = userTools /\ \A c \in CR : Now(c) = EmptyStatus
    BY DEF Init, ClusterInit, Now
  <2>2. EmptyStatus.startTime = FALSE /\ EmptyStatus.keepCephToolsPod = FALSE
    BY DEF EmptyStatus
  <2> QED BY <2>1, <2>2 DEF SwitchInv, SwitchOK, Switched
<1>2. /\ TypeInv /\ JobInv /\ CopyInv /\ FreshInv /\ QuietInv /\ ToolsInv
      /\ SwitchInv /\ [Next]_vars
      => SwitchInv'
  <2> SUFFICES ASSUME TypeInv, JobInv, CopyInv, FreshInv, QuietInv, ToolsInv, SwitchInv,
                      [Next]_vars
               PROVE  SwitchInv'
    OBVIOUS
  <2>1. CASE NowSame /\ RecordKept
    <3>1. UNCHANGED ToolsOwner
      BY OcpKept DEF ToolsOwner
    <3> QED BY <2>1, <3>1 DEF NowSame, RecordKept, SamePlace, SwitchInv, SwitchOK, Switched
  <2>2. ASSUME NEW me \in CR, Start(me) PROVE SwitchInv'
    <3>1. /\ Now(me) = store[me] /\ Now(me)' = Begun(store[me])
          /\ UNCHANGED <<toolsSpec, userTools>>
      BY <2>2, QuietStart
    <3>2. UNCHANGED ToolsOwner
      BY OcpKept DEF ToolsOwner
    <3>3. store[me].startTime => Now(me)' = Now(me)
      BY <3>1 DEF Begun
    <3>4. ~store[me].startTime =>
            /\ Now(me)'.startTime /\ ~Now(me)'.keepCephToolsPod
            /\ getLatestCondition(Now(me)') = "EnableCephToolsPod"
      <4>1. store[me] \in StartedStatus /\ WellKept(store[me])
        BY DEF TypeInv, ApiInv, CopyInv
      <4>a. EmptyStatus.keepCephToolsPod = FALSE
        BY DEF EmptyStatus
      <4>2. ~store[me].startTime => store[me].keepCephToolsPod = FALSE
        BY <4>1, <4>a DEF WellKept
      <4> QED BY <3>1, <4>1, <4>2, BegunFacts DEF SameFacts
    <3>5. SwitchOK(Now(me), toolsSpec)
      BY DEF SwitchInv
    <3>6. ~store[me].startTime => toolsSpec = userTools
      BY <3>1, <3>5 DEF SwitchOK, Switched
    <3>7. SwitchOK(Now(me), toolsSpec)'
      BY <3>1, <3>2, <3>3, <3>4, <3>5, <3>6 DEF SwitchOK, Switched, Latest, Started
    <3> QED BY <3>7 DEF SwitchInv
  <2>3. CASE Handler
    <3>1. /\ HandlerStep
          /\ cur \in CR /\ Now(cur) = inst /\ inst.phase \notin TerminalPhase
          /\ IF Panics
             THEN /\ SamePlace(store[cur], inst)
                  /\ \A c \in CR : c = cur => Now(c)' = store[c]
             ELSE \A c \in CR : c = cur => Now(c)' = inst'
      BY <2>3, QuietHandler
    <3>2. SwitchOK(inst, toolsSpec)
      BY <3>1 DEF SwitchInv
    <3>3. \A c \in CR : c = cur
      BY <3>1
    <3>4. UNCHANGED <<ToolsOwner, userTools>>
      BY <2>3, HandlerTools DEF ToolsOwner
    <3>5. CASE Panics
      <4>1. UNCHANGED toolsSpec
        BY <2>3, <3>5, HandlerPanics
      <4>2. SwitchOK(store[cur], toolsSpec)
        BY <3>1, <3>2, <3>5 DEF SamePlace, SwitchOK, Switched
      <4>3. \A c \in CR : Now(c)' = store[cur]
        BY <3>1, <3>3, <3>5
      <4> QED BY <3>4, <4>1, <4>2, <4>3 DEF SwitchInv, SwitchOK
    <3>6. CASE ~Panics
      <4>1. SwitchOK(inst', toolsSpec')
        BY <2>3, <3>1, <3>2, <3>6, FirstHandlerSwitches, LastHandlerSwitches,
           OtherHandlersSwitch
      <4>2. \A c \in CR : Now(c)' = inst'
        BY <3>1, <3>3, <3>6
      <4> QED BY <3>4, <4>1, <4>2 DEF SwitchInv, SwitchOK
    <3> QED BY <3>5, <3>6
  <2> QED BY <2>1, <2>2, <2>3, QuietOthers
<1>3. TypeInv /\ FreshInv /\ QuietInv /\ SwitchInv => ToolsRestored
  <2> SUFFICES ASSUME TypeInv, FreshInv, QuietInv, SwitchInv,
                      NEW c \in CR, store[c].phase = "Completed"
               PROVE  toolsSpec = userTools
    BY DEF ToolsRestored
  <2>1. Now(c) = store[c]
    BY NowCompleted DEF TerminalPhase
  <2> QED BY <2>1 DEF SwitchInv, SwitchOK, Switched
<1>4. HarmlessUpgrade
  BY DEF HarmlessUpgrade
<1> QED BY <1>1, <1>2, <1>3, <1>4, TypeCorrect, JobInvCorrect, FlowInvCorrect,
           QuietInvCorrect, ToolsInvCorrect, PTL
        DEF Spec
===============================================================================
