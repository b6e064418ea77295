------------------------------ MODULE OdfCluster ------------------------------
(***************************************************************************)
(* The OpenShift Data Foundation cluster the operator works on: the OSD    *)
(* pods with their deployments and volumes, the ceph tools switch, the OSD *)
(* removal job and the node labels.  The first half is external: kubelet,  *)
(* scheduler, rook, the ocs-operator and the job controller, modelled from *)
(* what the operator reads of them.  The second half are the operator's    *)
(* own calls (ceph.go and the helpers of node_recovery_reconciler.go).     *)
(***************************************************************************)
EXTENDS NodeRecoveryTypes, PodStates, FiniteSets

CONSTANTS
  Node,
  NodeOf,             \* the node of an OSD: its PV's hostname label
  OverPVC,            \* the OSDs whose pod carries the claim label
  Spare,              \* OSD ids not in use yet: rook takes a new OSD's id here
  InitialPodStates,   \* states an OSD pod may be found in
  PodMoves,           \* pairs <<from, to>> of states a pod may go through
  InitialVersions,    \* versions the cluster may have at the start
  InitialTools,       \* what the tools switches may be at the start
  AllowUpgrade,       \* may the cluster upgrade from 4.14 to 4.15
  InitialRejected,    \* OSDs a pod of which kubelet may have rejected before
  Rejectable,         \* OSDs a pod of which kubelet may yet reject
  Lagging             \* kinds of objects whose informer may lag behind

(***************************************************************************)
(* The operator reads through informers, one per kind of object, each of   *)
(* which shows all objects of its kind as they were at some earlier time.  *)
(* Kinds that are only read to be written back are left out: the API       *)
(* server refuses an update that carries an outdated resourceVersion.      *)
(***************************************************************************)
Kind == {"Pod", "PersistentVolume", "PersistentVolumeClaim", "Job"}

Version     == {"4.14", "4.15"}
ToolsObject == {"OCSInitialization", "StorageCluster"}

ASSUME ClusterAssumption ==
  /\ NodeOf \in [OSD -> Node]
  /\ OverPVC \subseteq OSD
  /\ Spare \subseteq OSD
  /\ InitialPodStates \subseteq PodState \ {"none"}
  /\ PodMoves \subseteq KubeletMoves
  /\ InitialVersions \subseteq Version
  /\ InitialTools \subseteq [ToolsObject -> BOOLEAN]
  /\ AllowUpgrade \in BOOLEAN
  /\ InitialRejected \subseteq OSD \ Spare
  /\ Rejectable \subseteq OSD
  /\ Lagging \subseteq Kind

VARIABLES
  pod,                \* state of an OSD's current pod
  term,               \* deletion timestamp: 0 none, 1 set, 2 over a minute ago
  replicas,           \* replicas of the OSD's deployment (0 also: none)
  pv,                 \* the OSD's volume, and its claim (see VolumePhase)
  labelled,           \* nodes with the storage label
  nodeAffinityFailed, \* OSDs with a Failed pod, reason NodeAffinity, as well
  crashReports,       \* are there ceph daemon crash reports not archived
  ocp,                \* latest completed version of the ClusterVersion history
  toolsSpec,          \* EnableCephTools of each of the two objects
  userTools,          \* what toolsSpec was before any recovery ran
  toolsPod,           \* phase of the rook-ceph-tools pod
  job,                \* the removal job: does it exist, what was it given
  jobPod,             \* its pod: phase, and for Succeeded the last log line
  seen                \* what the informers that lag behind show

podVars   == <<pod, term, replicas, pv>>
miscVars  == <<labelled, nodeAffinityFailed, crashReports, seen>>
toolsVars == <<ocp, toolsSpec, userTools, toolsPod>>
jobVars   == <<job, jobPod>>
clusterVars == <<podVars, miscVars, toolsVars, jobVars>>

\* A removal job with FAILED_OSD_IDS and FORCE_OSD_REMOVAL filled in.
RemovalJob == [exists : BOOLEAN, complete : BOOLEAN, ids : SUBSET OSD, forced : BOOLEAN]
NoJob      == [exists |-> FALSE, complete |-> FALSE, ids |-> {}, forced |-> FALSE]

\* "Removed" and "NotRemoved" are phase Succeeded, told apart by the log.
JobPodState  == {"none", "Active", "Failed", "Removed", "NotRemoved"}
SucceededPod == {"Removed", "NotRemoved"}

\* "Bound" is a volume with a bound claim.  "Unclaimed" is in phase Bound
\* too, but the claim is gone: the volume controller has not seen it yet.
VolumePhase == {"Unused", "Bound", "Unclaimed", "Released", "Deleted"}
VolumeThere == {"Bound", "Unclaimed", "Released"}
ToolsPhase  == {"none", "Pending", "Running"}

\* The objects the informers show, and whether the job pod among them is the
\* one that exists now (pods of a job have names of their own).
View ==
  [ pod : [OSD -> PodState], term : [OSD -> 0..2], toolsPod : ToolsPhase,
    jobPod : JobPodState, jobPodExists : BOOLEAN, nodeAffinityFailed : SUBSET OSD,
    pv : [OSD -> VolumePhase], claims : SUBSET OSD, job : BOOLEAN ]

ClusterTypeOK ==
  /\ pod \in [OSD -> PodState]
  /\ term \in [OSD -> 0..2]
  /\ replicas \in [OSD -> 0..1]
  /\ pv \in [OSD -> VolumePhase]
  /\ labelled \subseteq Node
  /\ nodeAffinityFailed \subseteq OSD
  /\ crashReports \in BOOLEAN
  /\ ocp \in Version
  /\ toolsSpec \in [ToolsObject -> BOOLEAN]
  /\ userTools \in [ToolsObject -> BOOLEAN]
  /\ toolsPod \in ToolsPhase
  /\ job \in RemovalJob
  /\ jobPod \in JobPodState
  /\ seen \in View

\* The claims of the OSDs: one whose OSD was purged is gone.
boundClaims == {o \in OSD : pv[o] = "Bound"}

\* The object the ocs-operator takes the tools switch from.
ToolsOwner == IF ocp = "4.14" THEN "OCSInitialization" ELSE "StorageCluster"

ClusterInit ==
  /\ pod \in {f \in [OSD -> InitialPodStates \union {"none"}] :
                \A o \in OSD : f[o] = "none" <=> o \in Spare}
  /\ term = [o \in OSD |-> 0]
  /\ replicas = [o \in OSD |-> IF o \in Spare THEN 0 ELSE 1]
  /\ pv = [o \in OSD |-> IF o \in Spare THEN "Unused" ELSE "Bound"]
  /\ labelled = {}
  /\ nodeAffinityFailed \in SUBSET InitialRejected
  /\ crashReports = TRUE
  /\ ocp \in InitialVersions
  /\ toolsSpec \in InitialTools
  /\ userTools = toolsSpec
  /\ toolsPod = "none"
  /\ job = NoJob
  /\ jobPod = "none"
  /\ seen = [ pod |-> pod, term |-> term, toolsPod |-> toolsPod,
              jobPod |-> jobPod, jobPodExists |-> FALSE,
              nodeAffinityFailed |-> nodeAffinityFailed,
              pv |-> pv, claims |-> boundClaims, job |-> FALSE ]

-------------------------------------------------------------------------------
(***************************************************************************)
(* External steps.                                                         *)
(***************************************************************************)

\* The ocs-operator deploys or removes the tools pod; kubelet starts it.
ToolsPodChanges ==
  /\ \/ toolsSpec[ToolsOwner] /\ toolsPod = "none"    /\ toolsPod' = "Pending"
     \/ toolsSpec[ToolsOwner] /\ toolsPod = "Pending" /\ toolsPod' = "Running"
     \/ ~toolsSpec[ToolsOwner] /\ toolsPod # "none"   /\ toolsPod' = "none"
  /\ UNCHANGED <<podVars, miscVars, ocp, toolsSpec, userTools, jobVars>>

ClusterUpgrades ==
  /\ AllowUpgrade /\ ocp = "4.14"
  /\ ocp' = "4.15"
  /\ UNCHANGED <<podVars, miscVars, toolsSpec, userTools, toolsPod, jobVars>>

\* A pod starts, crashes or is scheduled (which takes the node's label).
PodChanges(o) ==
  /\ \E s \in PodState :
       /\ <<pod[o], s>> \in PodMoves
       /\ pod[o] = "pending" => NodeOf[o] \in labelled
       /\ pod' = [pod EXCEPT ![o] = s]
  /\ UNCHANGED <<term, replicas, pv, miscVars, toolsVars, jobVars>>

\* kubelet restarts on a node that has lost its label and rejects the pod.
\* It stays, Failed and without container statuses; the replica set does not
\* count it and creates another.
PodRejected(o) ==
  /\ o \in Rejectable \ nodeAffinityFailed
  /\ replicas[o] = 1 /\ pod[o] \notin {"none", "pending"} /\ NodeOf[o] \notin labelled
  /\ pod' = [pod EXCEPT ![o] = "pending"]
  /\ nodeAffinityFailed' = nodeAffinityFailed \union {o}
  /\ UNCHANGED <<term, replicas, pv, labelled, crashReports, seen, toolsVars, jobVars>>

\* The replica set of a deployment scaled to zero deletes its pod.
PodTerminates(o) ==
  /\ replicas[o] = 0 /\ pod[o] # "none" /\ term[o] = 0
  /\ term' = [term EXCEPT ![o] = 1]
  /\ UNCHANGED <<pod, replicas, pv, miscVars, toolsVars, jobVars>>

MinutePasses(o) ==
  /\ 1 \in {term[o], seen.term[o]}
  /\ term' = [term EXCEPT ![o] = IF @ = 1 THEN 2 ELSE @]
  /\ seen' = [seen EXCEPT !.term[o] = IF @ = 1 THEN 2 ELSE @]
  /\ UNCHANGED <<pod, replicas, pv, labelled, nodeAffinityFailed, crashReports,
                 toolsVars, jobVars>>

PodGone(o) ==
  /\ term[o] > 0
  /\ pod' = [pod EXCEPT ![o] = "none"]
  /\ term' = [term EXCEPT ![o] = 0]
  /\ UNCHANGED <<replicas, pv, miscVars, toolsVars, jobVars>>

\* rook provisions an OSD with a new id on a new volume.
NewOSD(o) ==
  /\ o \in Spare /\ pv[o] = "Unused"
  /\ pod' = [pod EXCEPT ![o] = "init"]
  /\ replicas' = [replicas EXCEPT ![o] = 1]
  /\ pv' = [pv EXCEPT ![o] = "Bound"]
  /\ UNCHANGED <<term, miscVars, toolsVars, jobVars>>

\* The job controller starts a pod for the job, again after a failure.
JobPodStarts ==
  /\ job.exists /\ ~job.complete /\ jobPod \in {"none", "Failed"}
  /\ jobPod' = "Active"
  /\ UNCHANGED <<podVars, miscVars, toolsVars, job>>

\* The job takes an OSD out of ceph, with its deployment and its claim.  The
\* pod that does it need not be the one the operator finds first.
JobPurges(o) ==
  /\ jobPod = "Active" \/ (jobPod = "Failed" /\ job.exists)
  /\ o \in job.ids /\ pv[o] = "Bound"
  /\ pv' = [pv EXCEPT ![o] = "Unclaimed"]
  /\ replicas' = [replicas EXCEPT ![o] = 0]
  /\ pod' = [pod EXCEPT ![o] = "none"]
  /\ term' = [term EXCEPT ![o] = 0]
  /\ nodeAffinityFailed' = nodeAffinityFailed \ {o}
  /\ UNCHANGED <<labelled, crashReports, seen, toolsVars, jobVars>>

\* The volume controller sees that the claim is gone.
VolumeReleased(o) ==
  /\ pv[o] = "Unclaimed"
  /\ pv' = [pv EXCEPT ![o] = "Released"]
  /\ UNCHANGED <<pod, term, replicas, miscVars, toolsVars, jobVars>>

\* The job's pod ends; its log reports the removal only if all ids are out.
JobPodEnds ==
  /\ jobPod = "Active"
  /\ \/ /\ \A o \in job.ids : pv[o] # "Bound"
        /\ jobPod' = "Removed"
     \/ jobPod' \in {"NotRemoved", "Failed"}
  /\ job' = [job EXCEPT !.complete = job.exists /\ jobPod' \in SucceededPod]
  /\ UNCHANGED <<podVars, miscVars, toolsVars>>

\* What the informers of these kinds show once they have caught up.
Snapshot(kinds) ==
  [ pod      |-> IF "Pod" \in kinds THEN pod      ELSE seen.pod,
    term     |-> IF "Pod" \in kinds THEN term     ELSE seen.term,
    toolsPod |-> IF "Pod" \in kinds THEN toolsPod ELSE seen.toolsPod,
    jobPod   |-> IF "Pod" \in kinds THEN jobPod   ELSE seen.jobPod,
    jobPodExists |-> "Pod" \in kinds \/ seen.jobPodExists,
    nodeAffinityFailed |-> IF "Pod" \in kinds THEN nodeAffinityFailed
                           ELSE seen.nodeAffinityFailed,
    pv       |-> IF "PersistentVolume" \in kinds THEN pv ELSE seen.pv,
    claims   |-> IF "PersistentVolumeClaim" \in kinds THEN boundClaims ELSE seen.claims,
    job      |-> IF "Job" \in kinds THEN job.exists ELSE seen.job ]

InformerSync(kind) ==
  /\ kind \in Lagging /\ seen # Snapshot({kind})
  /\ seen' = Snapshot({kind})
  /\ UNCHANGED <<podVars, labelled, nodeAffinityFailed, crashReports, toolsVars, jobVars>>

ClusterNext ==
  \/ ToolsPodChanges
  \/ ClusterUpgrades
  \/ \E o \in OSD : \/ PodChanges(o) \/ PodTerminates(o) \/ MinutePasses(o)
                    \/ PodGone(o) \/ NewOSD(o) \/ JobPurges(o)
                    \/ PodRejected(o) \/ VolumeReleased(o)
  \/ JobPodStarts
  \/ JobPodEnds
  \/ \E kind \in Kind : InformerSync(kind)

-------------------------------------------------------------------------------
(***************************************************************************)
(* What the operator reads: Get and List are answered by the informers,    *)
(* commands in a pod and the logs of a pod by the cluster itself.          *)
(***************************************************************************)
readPod      == IF "Pod" \in Lagging THEN seen.pod      ELSE pod
readTerm     == IF "Pod" \in Lagging THEN seen.term     ELSE term
readToolsPod == IF "Pod" \in Lagging THEN seen.toolsPod ELSE toolsPod
readJobPod   == IF "Pod" \in Lagging THEN seen.jobPod   ELSE jobPod
readAffinity == IF "Pod" \in Lagging THEN seen.nodeAffinityFailed ELSE nodeAffinityFailed
readPV       == IF "PersistentVolume" \in Lagging THEN seen.pv ELSE pv
readClaims   == IF "PersistentVolumeClaim" \in Lagging THEN seen.claims ELSE boundClaims
readJob      == IF "Job" \in Lagging THEN seen.job ELSE job.exists

getOSDPods == {p \in OSDPod : IF p[2] = "current" THEN readPod[p[1]] # "none"
                              ELSE p[1] \in readAffinity}

\* Mutant: a label selector that matches no pod.
getOSDPodsWithNoID(o) == {}

getOSDPodsWithID(o) == {p \in getOSDPods : p[1] = o}

deletionTimestamp(p) == IF p[2] = "current" THEN readTerm[p[1]] ELSE 0

\* A pod without container statuses is taken for operational, so the failing
\* ones are current pods and are told apart by their OSD.
failingOSDPods     == {o \in OSD : readPod[o] \in FailingStates}
operationalOSDPods == {p \in getOSDPods : p[2] = "current" => p[1] \notin failingOSDPods}

\* The answers it may give: all pods of the namespace are asked, those that
\* are not modelled as well.
hasPodsInCreatingOrInitializingState ==
  IF readToolsPod = "Pending" \/ \E o \in OSD : readPod[o] \in CreatingStates
  THEN {TRUE} ELSE BOOLEAN

getPodsInPendingPhase == {o \in OSD : readPod[o] \in PendingPhase}

\* isCephToolsEnabled and setEnableCephToolsValue both pick the object by
\* the version they read, below 4.15 or not.
isCephToolsEnabled == toolsSpec[ToolsOwner]

getPVsForNode(n) ==
  {o \in OSD : NodeOf[o] = n /\ readPV[o] \in VolumeThere}

\* Mutant: a succeeded pod is taken at its phase.
phaseOfJobPod == "Removed"

\* The log of the pod the informer shows, if that pod is still there.
GetLogs ==
  IF "Pod" \in Lagging /\ ~seen.jobPodExists THEN "none" ELSE jobPod

\* The claim and its volume, without which there is no entry for an OSD.
hasNodeDevice(o) ==
  o \in OverPVC \intersect readClaims /\ readPV[o] \in VolumeThere

\* Despite its name it counts pods.
countPVCsBoundToODSPods ==
  Cardinality({p \in getOSDPods : p[1] \in OverPVC \intersect readClaims})

\* Crash reports keep ceph out of HEALTH_OK.
getCephHealthStatus ==
  IF crashReports THEN {"HEALTH_WARN"} ELSE {"HEALTH_OK", "HEALTH_WARN"}

(***************************************************************************)
(* What the operator writes.                                               *)
(***************************************************************************)
setEnableCephToolsValue(value) ==
  /\ toolsSpec' = [toolsSpec EXCEPT ![ToolsOwner] = value]
  /\ UNCHANGED <<podVars, miscVars, ocp, userTools, toolsPod, jobVars>>

labelNodesWithPodsInPendingState(nodes) ==
  /\ labelled' = labelled \union nodes
  /\ UNCHANGED <<podVars, nodeAffinityFailed, crashReports, seen, toolsVars, jobVars>>

scaleRookCephOSDDeploymentToZero(o) ==
  /\ replicas' = [replicas EXCEPT ![o] = 0]
  /\ UNCHANGED <<pod, term, pv, miscVars, toolsVars, jobVars>>

forceDeleteRookCephOSDPods(ids) ==
  /\ pod' = [o \in OSD |-> IF o \in ids THEN "none" ELSE pod[o]]
  /\ term' = [o \in OSD |-> IF o \in ids THEN 0 ELSE term[o]]
  /\ nodeAffinityFailed' = nodeAffinityFailed \ ids
  /\ UNCHANGED <<replicas, pv, labelled, crashReports, seen, toolsVars, jobVars>>

\* Mutant: the pods of the job stay.
deleteOnlyOSDRemovalJob ==
  /\ job' = NoJob
  /\ UNCHANGED <<podVars, miscVars, toolsVars, jobPod>>

\* The job is deleted if Get finds it, and its pods in any case.  Delete
\* fails on a job that is gone.
deleteOldOSDRemovalJob ==
  /\ readJob => job.exists
  /\ job' = IF job.exists /\ ~readJob THEN job ELSE NoJob
  /\ jobPod' = "none"
  /\ seen' = [seen EXCEPT !.jobPodExists = FALSE]
  /\ UNCHANGED <<podVars, labelled, nodeAffinityFailed, crashReports, toolsVars>>

\* The call that deletes the pods fails after the job is gone.
deleteOldOSDRemovalJobFails ==
  /\ readJob /\ job.exists
  /\ job' = [job EXCEPT !.exists = FALSE]
  /\ UNCHANGED <<podVars, miscVars, toolsVars, jobPod>>

\* Creates the job from the template, with its two parameters filled in.
\* There is one name for all removal jobs.
processOCSOSDRemovalTemplate(ids, forced) ==
  /\ ~job.exists
  /\ job' = [exists |-> TRUE, complete |-> FALSE, ids |-> ids, forced |-> forced]
  /\ UNCHANGED <<podVars, miscVars, toolsVars, jobPod>>

\* A volume that is gone already cannot be deleted again.
deletePVs(released) ==
  /\ pv' = [o \in OSD |-> IF o \in released THEN "Deleted" ELSE pv[o]]
  /\ UNCHANGED <<pod, term, replicas, miscVars, toolsVars, jobVars>>

deleteFailedPodsWithReasonNodeAffinity(pods) ==
  /\ nodeAffinityFailed' = nodeAffinityFailed \ pods
  /\ UNCHANGED <<podVars, labelled, crashReports, seen, toolsVars, jobVars>>

archiveCephDaemonCrashMessages ==
  /\ crashReports' = FALSE
  /\ UNCHANGED <<podVars, labelled, nodeAffinityFailed, seen, toolsVars, jobVars>>
===============================================================================
