--------------------------- MODULE NodeRecoveryTypes ---------------------------
(***************************************************************************)
(* The NodeRecovery resource: the condition types, the status the operator *)
(* keeps in it and the helpers that read and extend the condition list     *)
(* (api/v1alpha1/noderecovery_types.go and the tail of                     *)
(* internal/controller/node_recovery_reconciler.go).                       *)
(*                                                                         *)
(* Reasons, messages and probe times are only reported to the user and are *)
(* left out.  Of the times, StartTime and CompletionTime keep whether they *)
(* are set; LastTransitionTime of the latest condition is represented by   *)
(* its age, cut at the two deadlines the code compares it with.            *)
(***************************************************************************)
EXTENDS Naturals, Sequences

CONSTANT OSD                  \* the OSD ids, used and not yet used

ConditionType ==
  { "EnableCephToolsPod", "WaitForCephToolsPodRunning",
    "WaitForOSDPodsStabilize", "LabelNodesWithPendingPods",
    "ManageCrashLoopBackOffPods", "ForceDeleteRookCephOSDPods",
    "ProcessOCSRemovalTemplate", "CleanupOSDRemovalJob",
    "RetryForceCleanupOSDRemovalJob", "WaitForPersistenVolumeBound",
    "RestartStorageOperator", "DeleteFailedPodsNodeAffinity",
    "StorageClusterFitnessCheck", "DisableCephTools" }

RecoveryCondition == [type : ConditionType, status : {"True", "False"}]

\* "" is the phase of a resource no reconciliation has touched yet.
RecoveryPhase == {"", "Running", "Failed", "Completed"}
TerminalPhase == {"Failed", "Completed"}

(***************************************************************************)
(* Age of the latest condition: 0 before osdRemovalJobTimeout (10 min), 1  *)
(* from there to reconciliationTimeout (30 min), 2 after it.               *)
(***************************************************************************)
Age == 0..2
osdRemovalJobTimeout  == 1
reconciliationTimeout == 2

\* An OSD's pods: the current one, and one that kubelet has rejected.
OSDPod == OSD \X {"current", "rejected"}

(***************************************************************************)
(* NodeDevice holds one entry per failing OSD, in the order they were      *)
(* handled.  An entry's node and PV are functions of the OSD (its PV's     *)
(* hostname label, its claim), so the entry is the OSD id.                 *)
(*                                                                         *)
(* OperationalOSDIDs is a list with an id for each operational pod.  Only  *)
(* its length is ever read; the model keeps the pods, so that equal ids    *)
(* count as often as they occur.                                           *)
(***************************************************************************)
NodeRecoveryStatus ==
  [ phase                : RecoveryPhase,
    startTime            : BOOLEAN,
    completionTime       : BOOLEAN,
    conditions           : Seq(RecoveryCondition),
    age                  : Age,
    pendingPods          : BOOLEAN,
    crashLoopBackOffPods : BOOLEAN,
    nodeDevice           : Seq(OSD),
    forcedOSDRemoval     : BOOLEAN,
    keepCephToolsPod     : BOOLEAN,
    operationalOSDIDs    : SUBSET OSDPod ]

\* The status of a resource as the user creates it.
EmptyStatus ==
  [ phase |-> "", startTime |-> FALSE, completionTime |-> FALSE,
    conditions |-> <<>>, age |-> 0,
    pendingPods |-> FALSE, crashLoopBackOffPods |-> FALSE,
    nodeDevice |-> <<>>, forcedOSDRemoval |-> FALSE,
    keepCephToolsPod |-> FALSE, operationalOSDIDs |-> {} ]

\* Mutant: a condition in a status the schema does not know.
NewUnknownCondition(t) == [type |-> t, status |-> "Unknown"]

NewCondition(t) == [type |-> t, status |-> "True"]

\* The condition a reconciliation acts on.
getLatestCondition(s) == s.conditions[Len(s.conditions)].type

\* Mutant: the current condition keeps its status "True".
appendCondition(s, next) ==
  [s EXCEPT !.conditions = Append(@, NewCondition(next)), !.age = 0]

\* Flags the current condition "False" and appends the next one as "True".
transitionNextCondition(s, next) ==
  LET closed == [s.conditions EXCEPT ![Len(s.conditions)] =
                   [type |-> getLatestCondition(s), status |-> "False"]]
  IN  [s EXCEPT !.conditions = Append(closed, NewCondition(next)), !.age = 0]

\* What the outer Reconcile puts in a status whose StartTime is zero.
initStatus(s) ==
  [s EXCEPT !.startTime = TRUE, !.phase = "Running",
            !.conditions = Append(s.conditions, NewCondition("EnableCephToolsPod"))]

getOSDIDsFromNodeDevices(nd) == {nd[i] : i \in DOMAIN nd}

(***************************************************************************)
(* The API server's admission of a status update: conditions is declared   *)
(* a map list keyed by type, so two entries of one type are refused.       *)
(***************************************************************************)
UniqueConditionTypes(s) ==
  \A i, j \in DOMAIN s.conditions :
    s.conditions[i].type = s.conditions[j].type => i = j

\* Time passes: the latest condition of this copy of the status gets older.
Older(s) ==
  [s EXCEPT !.age = IF s.phase = "Running" /\ @ < reconciliationTimeout
                    THEN @ + 1 ELSE @]
===============================================================================
