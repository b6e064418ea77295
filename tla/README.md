# A TLA+ model of the ODF node recovery operator

The operator recovers an OpenShift Data Foundation cluster after a device or a
node has failed. A user creates a `NodeRecovery` resource; the operator takes
down the failing OSDs, has them removed from ceph by a job, waits for their
replacements, restarts rook where needed and reports the progress in the
resource's status. This directory holds a model of that operator and of the
cluster it works on, the TLC configurations that check it and TLAPS proofs.

## Inventory

| component | state it keeps | operations | interacts with |
|---|---|---|---|
| `NodeRecovery` resource (`api/v1alpha1/noderecovery_types.go`) | phase, start and completion time, the list of conditions, flags found on the way (`PendingPods`, `CrashLoopBackOffPods`, `ForcedOSDRemoval`, `KeepCephToolsPod`), `NodeDevice`, `OperationalOSDIDs` | `transitionNextCondition`, `getLatestCondition`, initialisation | API server (optimistic concurrency, schema validation), informer cache |
| controller (`noderecovery_controller.go`) | work queue, informer cache (both of controller-runtime) | `Reconcile`: get, early returns, first-time initialisation, call of the recoverer, status update; watch with `GenerationChangedPredicate` | recoverer, API server |
| recoverer (`node_recovery_reconciler.go`) | none: everything is in the resource | 14 conditions, one handler each, and the 30 minute limit | cluster calls, metrics |
| cluster calls (`ceph.go`, second half of `node_recovery_reconciler.go`) | none | tools switch, node labels, scaling of deployments, forced deletion, volumes, health | API server, commands in the tools pod |
| OSD removal job (template `ocs-osd-removal`) | one job with a fixed name, its pods, their log | delete, create, wait, read log | job controller, ceph |
| metrics (`monitoring/metrics.go`) | five counters in memory | increments | controller, recoverer |
| cluster (external) | OSD pods, deployments, volumes, labels, tools pod, version | scheduling, crashing, termination, provisioning | everything above |
| pod classification (`checkPodStatus`, `isPodInCrashBackLoopOffOrErrorStatus`) | none | two loops over lists of container statuses | kubelet's reports, recoverer |
| remote commands and logs (`pod/remote_command.go`, `LogClient`) | buffers of a call | `Run` over a WebSocket with SPDY to fall back to; `GetLogs` | tools pod, job pod |
| privileged pod runner (`pod/privileged_pod.go`) | namespace and pod it creates | `Initialize`, clean-up; not called by the operator | API server |
| manager (`cmd/main.go`) | manager, metrics registry, certificate watchers | start-up call by call, `mgr.Start`, exit | lease, kubelet, signals |
| deep copies (`zz_generated.deepcopy.go`) | none | generated | - |

What is hard here: every handler writes to the cluster first and to the status
last, in separate calls, so each may be repeated after a crash, a failed call
or a refused update, on a cluster it has already changed; the resource is read
from a cache that may lag behind the last update, and so are pods, volumes,
claims and the job, each from a cache of its own; several resources share one
job and one tools switch; commands run over streams that break before or after
the command has run; and progress depends on two deadlines, the queue and on
the absence of events for status updates. `PROJECT.json` lists these hazards
at their lines.

What makes the parts correct:

- resource: the conditions advance in order, one is current, a terminal phase
  is final, recorded facts are written once;
- recoverer and job: an OSD in service is never given to the removal job, no
  job stays behind, the recovery goes on only when the failed devices are
  replaced by new OSDs, nothing is left half removed;
- cluster calls: the user's tools switch is respected and restored;
- metrics: they agree with the stored statuses;
- controller: every resource reaches a terminal phase;
- pod classification: which pods hold up the recovery, and that the classes
  used elsewhere are the ones the code computes;
- remote commands: a call starts its command once, and the health check gets
  through in the end;
- manager: one replica reconciles, and there is one again after any failure.

## Modules

| module | content |
|---|---|
| `NodeRecoveryTypes` | the status and the helpers on it |
| `PodStates` | the states of an OSD pod that the reconciler tells apart, and how kubelet may change them |
| `PodStatus` | one pod with its lists of container statuses and the two classifications; derives `PodStates` |
| `OdfCluster` | the cluster and its informers: external steps, what the operator reads, what it writes |
| `NodeRecoveryController` | queue, cache, reconciliation, one action per handler step; faults; `Spec`, `FairSpec` |
| `RecoveryFlow` | the abstract specification of a resource: how its stored status may move |
| `NodeRecoveryProperties` | the properties, and the refinement mapping to `RecoveryFlow` |
| `MCNodeRecovery` | instances for TLC |
| `CephCommands` | the `StorageClusterFitnessCheck` handler command by command, with `Run` and its streams |
| `Manager` | `main`, replicas, the lease of leader election |
| `NodeRecoveryProofs` | lemmas about the status helpers; type correctness; the removal job is only given OSDs that are down |
| `RecoveryFlowProofs` | the conditions, the refinement of `RecoveryFlow`, the user's tools |
| `CompletionProofs` | what a recovery without faults has done when it completes |
| `RemovalProofs` | what a single recovery does with the job and the replacements |
| `PodStatusProofs` | what the classifications return for lists of any length; pod states and moves |
| `CephCommandsProofs` | a command is started once |
| `ManagerProofs` | one replica reconciles, and serves its own metrics |

The proof modules of the operator extend one another in the order of the table.

`NodeRecoveryController` extends `OdfCluster`, which extends
`NodeRecoveryTypes` and `PodStates`. `PodStatus`, `CephCommands` and `Manager`
stand beside it: the first shows that the pods of `OdfCluster` are an exact
abstraction, the second opens up a handler that is one step of
`NodeRecoveryController`, the last shows that there is one worker.

Operators whose comment starts with "Mutant" are variants of the definition
below them with a plausible mistake; they are not used by any specification and
serve to show that the properties can fail.

### How the model corresponds to the code

*A reconciliation* is a sequence of steps of the single worker (`pc`):
`Start` (or `Ignore`) is the outer `Reconcile` up to the recoverer; then the
handler named by the latest condition of the worker's copy `inst`; then
`StatusUpdate` or `StatusUpdateFails`. A handler is one step, unless it makes
two calls another actor can come between: reading and writing the tools switch
(`EnableCephToolsPod`, `enableCephTools`, both reading the version), scaling
one deployment after the other (`ManageCrashLoopBackOffPods`,
`handleCrashLoopBackOffPods`, `ManageDone`), and deleting and creating the job
(`ProcessOCSRemovalTemplate` / `ReplaceOSDRemovalJob`, then `CreateOSDRemovalJob`
/ `CreateForcedOSDRemovalJob`).

*The resource* exists three times: `store` (API server), `cache` (informer) and
`inst`. `synced` says whether the cache has the latest resourceVersion, `fresh`
whether the worker's copy has. An update is refused when the resource is gone,
the copy is outdated, or two conditions have one type (the schema declares a map
list). `CacheSync` puts a resource on the queue when it appears or disappears;
updates raise no event because of the `GenerationChangedPredicate`.

*Errors.* `CallFails` is the failure of a handler's first call: nothing is done
and the status, unchanged, is saved. Failures later in a handler are disjuncts
of it, with what had been done by then. A nil dereference (`Panic`) is recovered
by controller-runtime: the status is not saved and the resource is requeued.

*Time.* The age of the latest condition has three values, cut at 10 and at 30
minutes; a deletion timestamp has none, set, older than a minute. Ages advance
between reconciliations of a resource.

*Pods* have six states, the ones `checkPodStatus`,
`isPodInCrashBackLoopOffOrErrorStatus` and the phase selector tell apart
(`PodStates`); `PodStatus` checks that every pod kubelet can report is in
exactly one of them and that its changes are in `KubeletMoves`. A `NodeDevice`
entry is the OSD id: its node and volume are functions of it.

An OSD may have two pods, its current one and one that kubelet has rejected
(phase Failed, reason NodeAffinity), which stays until
`DeleteFailedPodsNodeAffinity`, a forced deletion or the removal job deletes it;
a pod is a pair of the OSD and which of the two it is (`OSDPod`). The reconciler
lists and counts pods, rejected ones included: `OperationalOSDIDs` has an id for
each of them, and the model keeps the pods so that equal ids count as often as
they occur. `InitialRejected` are the OSDs that may have a rejected pod at the
start, `Rejectable` those that may get one later (`PodRejected`).
`hasPodsInCreatingOrInitializingState` asks every pod of the namespace; those
that are not modelled may hold the recovery up at any time.

*Volumes.* The removal job takes an OSD out of ceph with its deployment and its
claim; its volume is then still in phase Bound ("Unclaimed") until the volume
controller has seen it (`VolumeReleased`). A volume that is not yet Released is
passed over by `processPVForNode`.

*Informers.* `Get` and `List` are answered from caches, one per kind of object.
For a kind in `Lagging` the operator reads `seen`, which `InformerSync` brings
up to date at any time or never; a restart lists everything anew. All objects of
a kind are of the same time, two kinds need not be. Deletions and updates go to
the API server, and so does `GetLogs`, which is why `seen` remembers whether the
job's pod it shows is still the one that exists. Deployments, nodes, the version
and the two objects with the tools switch do not lag: they are read to be
written back, and an update on an outdated resourceVersion is refused, which is
a failing call.

*Commands* (`CephCommands`). `Run` connects, the process in the tools pod runs,
the answer arrives in pieces, the stream ends; each may fail, and a command
whose stream breaks runs on. The SPDY executor is tried only after the server
has refused to upgrade. Output on stderr and an answer that is cut off are
errors. The module starts with crash reports and repeats the handler, as the
requeue does, until it advances.

*The manager* (`Manager`). `pc` is the next call of `main`; a call that fails,
and a kill, ends the process and kubelet restarts it. After `Start` the
servers run, and the controller once the lease is held. The lease is not
released (`LeaderElectionReleaseOnCancel` is commented out) and a new process
has a new identity, so it has to run out. After a signal a running
reconciliation is finished with the lease still held.

*History variables*: `userTools` is the tools switch before any recovery,
`restartOwed` holds the resources that met pending or failing pods and have not
restarted rook since.

### Assumptions

- One worker: the default of controller-runtime, and one leader (`Manager`).
- A leader notices by its own clock that it could not renew in time, before the
  lease runs out for the others: a process is not frozen in between.
- A stream of a remote command ends or fails; the code sets no deadline.
- rook does not scale a deployment up again that the operator scaled down.
- A failed call had no effect; a call whose answer is lost is a crash.
- The removal job and its pods are gone when their deletion returns. A job that
  lingers with a deletion timestamp, so that creating the next one is refused,
  is a failing call ("api") of the model.
- An OSD has at most two pods, and a terminating pod has no successor: a
  deployment of an OSD is not restarted or rolled out during a recovery.
- A single reconciliation takes less than 10 minutes; no deadline passes in
  runs without the fault "slow".
- Resource names are not reused.
- `MaxForcedPods` stands for the 3 of `len(osdPods.Items) <= 3`, so that both
  outcomes occur with one or two OSDs.
- `MaxCount` caps the counters; it is above every count reached in the run that
  looks at them and 0 elsewhere.

## Runs

The runs of the first table use `MCNodeRecovery`. `CHECK_DEADLOCK FALSE` because
the system rests once every resource is terminal. The faults are: "api" (calls
fail), "crash" (the operator restarts), "stale" (the resource is read from a
cache that lags), "touch" (another writer), "delete" (the resource is deleted)
and "slow" (the deadlines pass).

| run | instance | shows |
|---|---|---|
| `MCFaults` | one failing OSD, one spare id, failing calls, crashes, stale cache, upgrade from 4.14 to 4.15 | `TypeOK`, `OneTrueCondition`, `JobTargetsDown`, `NoJobLeftBehind`, `FlowRefinement` |
| `MCTwoDevices` | two OSDs found running or crashing, with or without a rejected pod from before, more crashing on the way, two spare ids (symmetric), deadlines pass, no other faults | `NoOrphanedOSD`, `RestartNotOwed`, `ToolsRestored`, `ReplacementsUp` |
| `MCLag` | one failing OSD, with or without a rejected pod from before, one spare id, informers of pods, volumes, claims and the job lag, deadlines pass | `JobTargetsDown`, `RemovalConfirmed`, `ReplacementsUp` |
| `MCPending` | two OSDs in any state of phase Pending on two nodes, one without a claim, the other's pod may be rejected, all faults, version 4.15, the tools on or off | `OneTrueCondition`, `NeverDisablesUserTools`, `FlowRefinement` |
| `MCTwoResources` | two resources (symmetric), one failing OSD whose pod goes through all of `KubeletMoves` | `JobTargetsDown`, `CountersExact` |
| `MCLiveness` | one failing OSD, failing calls, stale cache, fairness | `EventuallyEnds` |

| run | module, instance | shows |
|---|---|---|
| `MCPodStatus` | `PodStatus`, three init containers and three others | `StabilizeVerdict`, `PodStateExact`, `PodMovesAllowed` |
| `MCCephCommands` | `CephCommands`, three faults, fairness | `TypeOK`, `CommandStartedOnce`, `FitnessReached` |
| `MCManager` | `Manager`, two replicas, three failures, fairness | `TypeOK`, `OneWorker`, `ServesOwnMetrics`, `ActiveAgain` |

The bounds. One failing OSD suffices for the flow, the job and its repetitions;
two are needed where entries can be lost or counted wrongly, with one spare id
for each so that replacements can appear before, during and after the removal.
Two resources are the smallest number that share the job. Faults are not
counted: each may happen any number of times. `MCTwoResources` and `MCLag`
have one failing OSD because each multiplies the pod states or their outdated
copies; the pod moves of the other runs are those that move a recovery on.
`MCTwoDevices` begins with the tools switched off, the case in which they are
restored; the pod of a new OSD stays in its first state there, which keeps the
run small (in `MCLag` it starts, and the theorems are about all moves of kubelet).
`MCFaults` has 0 for `MaxForcedPods`, so the first removal job is not
forced, and begins with the tools off, so that they are switched on and off;
`MCPending` has both.
Three containers of each sort put a crashing one before, between and
behind ones that wait. Three faults in `CephCommands` are enough for a refused
upgrade, a broken stream and a replaced pod in one handler; three failures in
`Manager` for both replicas to fail and one to be stopped. `CephCommands` may stop
once the handler has advanced, which is why its run does not check for deadlock.
With two workers every run ends within four minutes.

`ReplacementsUp` says that new OSDs are up, not that the volumes of the old ones
are deleted. That is not guaranteed: a volume that is still in phase Bound after
its claim is gone, or that the informer does not show as Released, is passed over
by `processPVForNode`, and if the replacements are counted in the same
reconciliation the recovery goes on and nobody comes back to it. It stays behind,
Released, until somebody deletes it; nothing in the documentation says otherwise.

Three things would break `ReplacementsUp`, and are left out of the runs that check
it.

- A pod rejected after the operational pods were listed is not in that list and
  is in the count: the next section has the run. A terminating pod beside its
  successor would have the same effect and is not modelled.
- A resource read from a cache that lags. TLC shows it with the constants of
  `MCFaults` and `CrashMoves` for its pods: the failing OSD is scaled down
  and recorded; its replacement starts, and crashes; a reconciliation on the
  status from before runs `ManageCrashLoopBackOffPods` once more, finds the
  replacement failing and scales it down. Its update is refused. The next
  reconciliations read the right status and count the replacement's pod, which
  still holds a bound claim while it terminates; then it is gone, and no status
  knows that its deployment is at zero. The removal job is unaffected
  (`JobTargetsDown`, `RemovalConfirmed`).
- A second resource, which can take down an OSD the first has counted.

`NeverDisablesUserTools` is checked without an upgrade (`MCPending`). With one it
holds if the user's `StorageCluster` switch was off at the start, which the
theorem assumes, and fails otherwise: at 4.14 the recovery finds
`OCSInitialization` off, switches it on and notes nothing to keep; the cluster is
upgraded to 4.15; at the end `disableCephTools` writes FALSE to the `StorageCluster`,
where the user had the tools on. TLC finds this in the instance of `MCFaults` with
`AnySwitch` for `InitialTools`. No documented sentence is about this case, so no
run is kept for it.

`NoOrphanedOSD`, `RestartNotOwed`, `ToolsRestored` and `CountersExact` are
guarantees of a run without faults; the next table shows what becomes of the
first two, and of the tools switch, after a crash, and counters are lost with
the process that holds them.

### Disagreements with the documentation

Three runs each check a documented statement that the code does not keep, and end
with a counterexample.

| run | property | the documentation, and what happens |
|---|---|---|
| `MCViolationOrphan` | `NoOrphanedOSD` | `NodeDevice` tracks the failed devices; a crash after a scaling and before the status is saved forgets the OSD, which stays scaled to zero and in ceph |
| `MCViolationStolen` | `RemovalConfirmed` | the job's log shows that the removal was successful; with two resources it may be the log of the other's job, and the first recovery goes on with its OSD still in ceph |
| `MCViolationReplacement` | `ReplacementsUp` | `OperationalOSDIDs` serve to filter out existing OSD ids (`noderecovery_types.go:134`); only their number is used, and a pod of a healthy OSD that is rejected during the recovery, Failed beside its successor, is counted as the replacement of the failed OSD |

The same model shows the following as well; no run is kept for them.

- `KeepCephToolsPod` means the tools pod existed before (`noderecovery_types.go:130`);
  after a lost status update the operator takes its own switch for the user's.
- `PendingPods` tells whether pods were pending (`noderecovery_types.go:116`); a lost
  update forgets it after the label has let the pods start, and rook is not
  restarted.
- Any existing removal job is deleted (`ceph.go:105`); one that the informer does
  not show yet is not, and outlives the recovery.
- `ForcedOSDRemoval` means a first job timed out (`noderecovery_types.go:126`); with
  at most 3 OSD pods the first job is forced.
- Conditions are a map list keyed by type; a forced deletion submits two of one
  type, which is refused.
- The failed counter counts failed operands; only the 30 minute limit
  increments it.
- `OperationalOSDIDs` are of Running pods (`noderecovery_types.go:134`); every pod
  that is not failing is taken.

### Fairness

`EventuallyEnds` assumes: the worker carries a reconciliation through (weak
fairness of handlers and of the update), takes each queued resource again and
again (strong fairness: the work queue is first in, first out), the informer
catches up (weak), time passes between reconciliations (strong, since a tick is
disabled while the resource is being worked on; every requeue has a delay), and
the API server does not refuse for ever an update it could accept (strong).
Nothing is assumed of the cluster: pods may stay as they are and the job may
never run. The 30 minute limit does the rest.

`FitnessReached` assumes that ceph recovers once crash reports are archived, that
the tools pod starts, that commands and streams end or fail, and that the
handler is repeated; each is weakly fair. Faults are bounded in number, as a
health check that never succeeds ends at the 30 minute limit instead.

`ActiveAgain` assumes weak fairness of the calls of `main`, of kubelet's restart,
of the lease (it ages, is taken when old, and is noticed as lost) and of a
reconciliation's end. Renewal needs none: a leader that does not renew stops.

## Proofs

TLAPS checks all theorems, for all sets of OSDs, nodes and resources and all
bounds. Some hold under every combination of faults; others need hypotheses,
which are written into the theorem, and the runs and the notes below say what
happens without them.

### Under every fault

- `TypeOKCorrect`: `Spec => []TypeOK`. `TypeOK` is not inductive, since a
  transition rewrites the last element of the condition list. `TypeInv` adds
  that a started status, stored, cached or held, has a condition, and that a
  busy worker holds a started status. The module begins with the lemmas about
  Append and EXCEPT this rests on; the step lemmas go action by action.
- `JobTargetsDownCorrect`: `Spec => []JobTargetsDown`. The inductive invariant
  `JobInv` says of *every* copy of a status, however outdated, that its
  recorded devices are OSDs in use with a deployment scaled to zero
  (`ScaledSet`) and, if its condition is one of the three job conditions, that
  they have no pod either (`DownSet`) and are not none. With lagging informers
  "no pod" is what the informer shows, so both sets lie in `WatchedSet`: OSDs
  that have no pod if the informer shows none. An OSD gets there when the
  informer has shown its pod, which is how the scaling loop came to it, and
  stays there because no pod of it is ever created again. Two facts make the
  invariant inductive: the sets only grow (`ClusterGrowth`, `CallsGrowth`), so
  an old copy stays true; and the entries a scaling loop has put together are
  scaled already (`LoopOK`). The only transition that has work to do is the one
  out of `ForceDeleteRookCephOSDPods`, where the code has just found no pod.
- `OneTrueConditionCorrect` and `FlowRefinementCorrect`: `Spec => []OneTrueCondition`
  and `Spec => FlowRefinement`, that is, the operator implements `RecoveryFlow`.
  Every handler step is classified once (`HandlerStep`): it stays, works on,
  fails, completes, proceeds, enters its condition again, or panics. `CopyInv`
  says that every copy of a status has exactly its last condition "True", and
  that what is stored has no type twice. `FreshInv` is what the refinement
  needs: while the worker's copy has the latest resourceVersion it differs from
  the stored status by what this reconciliation did, so that a save is one step
  of the flow (`MaySave`); a copy that is outdated, or has a type twice, is not
  saved. All other steps are stuttering steps of the flow.
- `NeverDisablesUserToolsCorrect`: from `ToolsInv`: every copy past the first
  condition that has no note to keep the tools says that the user had not
  enabled them, on the object that counts at the current version. Its hypothesis
  is that an upgrade is excluded or harmless, that is, the user's `StorageCluster`
  switch was off at the start; without it the theorem is false (see Runs).
- `StabilizeVerdictCorrect`, `PodStateExactCorrect` and `PodMovesCorrect` of
  `PodStatus`, for any number of containers. `LoopExact` says
  what the loop of `checkPodStatus` returns for a list of any length. It is an
  induction over the list, done without an induction rule: `Found` satisfies the
  loop's equation, and anything else that does would differ from it at a least
  position (`Least`, from the library's `WFMin`), where the equation says that it
  does not. With the elements of the joined list (`AllStatuses`) the
  classifications become questions about the two lists, and `OrderlyStep` is
  what a step can do to their answers: whoever leaves phase Pending is failing
  after just when it was before, and so on. Together with the theorems about
  `Spec` this covers OSD pods of any shape.
- `CommandStartedOnceCorrect` and `CommandTypesCorrect` of `CephCommands`, from
  `RunInv`: as long as `Run` connects, be it for the second time, nothing has been
  started.
- `OneWorkerCorrect` of `Manager` if `LeaderElect` is TRUE, from `LeaseInv`: who
  reconciles holds the lease, and the lease of a holder is not older than the
  renewal deadline. `ServesOwnMetricsCorrect`, from `ServesInv`, which follows the
  registry and the watchers through the calls of `main`; `ManagerTypesCorrect`.

### Without faults

`Quiet` says that only the deadlines may pass (fault "slow"). `QuietInv` then
holds: no reconciliation is lost but one whose handler has entered its condition
a second time, and nothing but that entry is lost with it. The argument is that
conditions are entered in order (`Sorted`), so that a refused update is one with
a repeated type. `Now(c)` is how far the recovery of `c` has got, in the worker's
hands or stored; the invariants below are about it.

- `RestartNotOwedCorrect`: any number of recoveries, any lag. `OwedInv`: who owes
  a restart has recorded the pods that are the reason and has the restart still
  before it. It needs `OverPVC = OSD`: an OSD without a claim makes the handler
  panic before the reason is saved, and if its pod recovers before the next
  reconciliation, the reason is forgotten.
- `CountersExactCorrect`: any finite number of resources up to `MaxCount`.
  `TallyInv` is the same equation about `Now`, which holds in every state.
- `ToolsRestoredCorrect`: one resource and no upgrade, from `SwitchInv`. Two
  recoveries share the switch: the second takes the first one's for the user's.

### A single recovery

These theorems are about a cluster with one resource: with two, one recovery
can take the other's job for its own, which `MCViolationStolen` shows.

- `RemovalConfirmedCorrect`: under every fault and any lag. `RemovalInv`: the
  devices are recorded once, an old copy has none or the same ones, a job that
  exists was given all of them, and a pod that reports success has taken all of
  them out. The worker may put together other devices on an old copy, but
  cannot save them.
- `NoJobLeftBehindCorrect`: under every fault, with pods and jobs read as they
  are. `BehindInv`: once the status is past the job, a reconciliation on an old
  copy waits for a job pod that is gone and creates nothing. A job that the
  informer does not show yet is not deleted, hence the hypothesis.
- `NoOrphanedOSDCorrect`: without faults, all OSDs on claims, volumes and claims
  read as they are. `OrphanInv`: an OSD that is scaled down and not out of ceph
  is recorded, or among the entries of the loop that is running. The hypotheses
  keep that loop from breaking off; `MCViolationOrphan` shows a crash doing so.
- `ReplacementsUpCorrect`: finitely many OSDs, any lag, every fault but "stale",
  and no pod rejected after the start (`Rejectable = {}`; see Runs for both).
  Rejected pods that are there at the start are allowed: they are listed, and
  counted unless they have been deleted by then. `RejectedInv` follows them: they
  only get fewer, the informer shows each until it is gone, and no new OSD has
  one. The parts of `ReplacementInv` are:
  - the loop over the OSD pods lists each one that is shown as failing or as
    operational. So an OSD of the start, and one that is scaled down and still
    shown with a pod (`LeftOver`), is a recorded device or was listed as
    operational, also when a crash or an error has broken the loop off before it
    could save;
  - the devices are out of the informer's sight (`GoneSet`) before the job is
    created, so none of them is counted as a replacement;
  - whatever else is shown with a pod is not scaled down, hence it is up on a
    bound claim (`Live`), even if the claim informer shows an older claim;
  - a rejected pod that is counted was listed, so it adds to both numbers. The
    number counted is at least the operational and the failed pods together, so
    at least as many pods as failed are new; these are current pods of OSDs that
    are not recorded, one each (`NewOnes`), and it stays so because only recorded
    devices are purged and the pod of an OSD that is not scaled down does not go
    (`PodsUp`).

  The cluster changes what an informer shows of one OSD per step (`OneStep`),
  which is how the sets are followed through a lag.

### Assumptions and what is only model-checked

The assumptions are those named in the modules: `ClusterAssumption` (`NodeOf`
maps OSDs to nodes, pod states other than "none", moves that kubelet can make,
known versions, switches and kinds, rejected pods of OSDs in use), `PodAssumption` (a pod has a container),
`ControllerAssumption` (`NoCR` is not a resource,
faults are known kinds, bounds are naturals), `CommandAssumption` and
`ManagerAssumption` (the renewal deadline is below the
lease's duration). TLC evaluates them in the runs.

Only model-checked:

- `EventuallyEnds`, `FitnessReached` and `ActiveAgain`: liveness under fairness is
  outside the prover's reach.

Every invariant and action property of a passing run is stated by a theorem, for
the hypotheses given there.

## Not modelled

Reasons, messages, events and probe times (only reported); the label of the
failed counter; template processing, JSON parsing and selectors beyond their
result; the privileged pod runner (`pod/privileged_pod.go`), which nothing in the
repository calls; terminating pods beside their successors; flags, TLS options, probes and
the content of the scheme in `main`; lagging informers of deployments, nodes,
the version and the tools objects (see above); generated deep copies.

## Plan

- Two resources with faults: what one recovery may do to the other through the
  tools switch, beyond the job that `MCViolationStolen` is about.
- `RestartNotOwed` under faults: a crash between the scaling and the save is the
  known exception (`MCViolationOrphan`); what is left is to state the rest of it.
