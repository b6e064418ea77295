------------------------------- MODULE PodStatus -------------------------------
(***************************************************************************)
(* One OSD pod: the container statuses kubelet reports for it and what     *)
(* checkPodStatus and isPodInCrashBackLoopOffOrErrorStatus make of them.   *)
(* The rest of the project knows a pod by the states of OdfCluster; here   *)
(* they are derived.                                                       *)
(***************************************************************************)
EXTENDS PodStates, Naturals, Sequences

CONSTANTS
  InitContainers,     \* how many init containers the pod has
  Containers          \* how many other containers

ASSUME PodAssumption == InitContainers \in Nat /\ Containers \in Nat \ {0}

\* Reasons of a waiting container, of a terminated one, and "Running".
WaitingReason == {"ContainerCreating", "PodInitializing", "CrashLoopBackOff", "ImagePullBackOff"}
ContainerState == WaitingReason \union {"Running", "Error", "Completed"}

\* Waiting to be started for the first time.
NotStarted == {"ContainerCreating", "PodInitializing", "ImagePullBackOff"}

VARIABLES
  initStatuses,       \* InitContainerStatuses, empty until a node has the pod
  statuses            \* ContainerStatuses

vars == <<initStatuses, statuses>>

PodTypeOK ==
  /\ initStatuses \in {<<>>} \union [1..InitContainers -> ContainerState]
  /\ statuses \in {<<>>} \union [1..Containers -> ContainerState]

Initialized == \A i \in DOMAIN initStatuses : initStatuses[i] = "Completed"

\* status.phase of a pod that is always restarted.
Phase ==
  IF statuses = <<>> \/ ~Initialized \/ \E i \in DOMAIN statuses : statuses[i] \in NotStarted
  THEN "Pending" ELSE "Running"

-------------------------------------------------------------------------------
(***************************************************************************)
(* External: the scheduler and kubelet.                                    *)
(***************************************************************************)
Init == initStatuses = <<>> /\ statuses = <<>>

\* What kubelet reports for containers it has not started.
FirstReason == IF InitContainers > 0 THEN "PodInitializing" ELSE "ContainerCreating"

Scheduled ==
  /\ statuses = <<>>
  /\ initStatuses' = [i \in 1..InitContainers |-> FirstReason]
  /\ statuses' = [i \in 1..Containers |-> FirstReason]

\* Init containers run one after the other, until each has completed.
InitContainerChanges(i) ==
  /\ \A j \in 1..(i - 1) : initStatuses[j] = "Completed"
  /\ \E s \in ContainerState :
       /\ \/ initStatuses[i] \in NotStarted \union {"Error", "CrashLoopBackOff"} /\ s = "Running"
          \/ initStatuses[i] = "Running" /\ s \in {"Completed", "Error"}
          \/ initStatuses[i] = "Error" /\ s = "CrashLoopBackOff"
          \/ initStatuses[i] = FirstReason /\ s = "ImagePullBackOff"
       /\ initStatuses' = [initStatuses EXCEPT ![i] = s]
  /\ UNCHANGED statuses

\* The others run side by side and are restarted whenever they end.
ContainerChanges(i) ==
  /\ Initialized
  /\ \E s \in ContainerState :
       /\ \/ statuses[i] # "Running" /\ s = "Running"
          \/ statuses[i] = "Running" /\ s \in {"Completed", "Error"}
          \/ statuses[i] \in {"Completed", "Error"} /\ s = "CrashLoopBackOff"
          \/ statuses[i] = FirstReason /\ s = "ImagePullBackOff"
       /\ statuses' = [statuses EXCEPT ![i] = s]
  /\ UNCHANGED initStatuses

\* The node restarts: the init containers are run again.
SandboxChanges ==
  /\ statuses # <<>>
  /\ initStatuses' = [i \in 1..InitContainers |-> FirstReason]
  /\ statuses' = [i \in 1..Containers |-> IF statuses[i] = "Running" THEN "Error" ELSE statuses[i]]

\* The pod is deleted and its replica set creates another one.
Replaced == statuses # <<>> /\ initStatuses' = <<>> /\ statuses' = <<>>

Next ==
  \/ Scheduled \/ SandboxChanges \/ Replaced
  \/ \E i \in DOMAIN initStatuses : InitContainerChanges(i)
  \/ \E i \in DOMAIN statuses : ContainerChanges(i)

Spec == Init /\ [][Next]_vars

-------------------------------------------------------------------------------
(***************************************************************************)
(* The reconciler's classification.  A pod is a pair of status lists.      *)
(***************************************************************************)
allStatuses == initStatuses \o statuses

\* Mutant: the loop goes on after a container in CrashLoopBackOff.
checkPodStatusInFull(list) ==
  {i \in DOMAIN list : list[i] \in {"ContainerCreating", "PodInitializing"}}

\* Mutant: every waiting container counts, whatever it waits for.
checkPodStatusAnyReason(list) == {i \in DOMAIN list : list[i] \in WaitingReason}

\* One container status: the loop returns nil, and what it has collected is
\* lost, at a crashing container.
examineStatus(acc, list, i) ==
  IF acc.returned THEN acc
  ELSE IF list[i] = "CrashLoopBackOff" THEN [returned |-> TRUE, errs |-> {}]
  ELSE IF list[i] \in {"ContainerCreating", "PodInitializing"}
       THEN [returned |-> FALSE, errs |-> acc.errs \union {i}]
  ELSE acc

\* The errors collected by the loop, as positions in the list.
checkPodStatus(list) ==
  LET after[i \in 0..Len(list)] ==
        IF i = 0 THEN [returned |-> FALSE, errs |-> {}]
        ELSE examineStatus(after[i - 1], list, i)
  IN  after[Len(list)].errs

\* Mutant: a container that waits to be restarted is not noticed.
isPodInErrorStatus(list) == \E i \in DOMAIN list : list[i] = "Error"

isPodInCrashBackLoopOffOrErrorStatus(list) ==
  \E i \in DOMAIN list : list[i] \in {"CrashLoopBackOff", "Error"}

Creating == checkPodStatus(allStatuses) # {}
Failing  == isPodInCrashBackLoopOffOrErrorStatus(allStatuses)

-------------------------------------------------------------------------------
(***************************************************************************)
(* The pods that hold up WaitForOSDPodsStabilize are those with a          *)
(* container being created and none in CrashLoopBackOff: a pod that cannot *)
(* get past a crashing container, in whatever position, holds up nothing,  *)
(* although the containers behind it stay in PodInitializing.              *)
(***************************************************************************)
StabilizeVerdict ==
  Creating <=> LET present == {allStatuses[i] : i \in DOMAIN allStatuses}
               IN  /\ "CrashLoopBackOff" \notin present
                   /\ present \intersect {"ContainerCreating", "PodInitializing"} # {}

\* s is how the reconciler sees the pod.
Observed(s) ==
  /\ Phase = "Pending" <=> s \in PendingPhase
  /\ Creating <=> s \in CreatingStates
  /\ Failing <=> s \in FailingStates

(***************************************************************************)
(* The pod states the rest of the project works with tell the reconciler's *)
(* three questions apart and nothing else: for every list of statuses a    *)
(* pod can have there is exactly one.  So no pod outside phase Pending     *)
(* ever holds up WaitForOSDPodsStabilize.                                  *)
(***************************************************************************)
PodStateExact ==
  \E s \in PodState \ {"none"} :
    Observed(s) /\ \A z \in PodState \ {"none"} : Observed(z) => z = s

podState == CHOOSE s \in PodState \ {"none"} : Observed(s)

(***************************************************************************)
(* Every step of the pod is one OdfCluster allows its pods, so what holds  *)
(* of the operator there holds for pods with any number of containers.     *)
(***************************************************************************)
PodMovesAllowed ==
  [][podState' = podState \/ <<podState, podState'>> \in KubeletMoves]_vars
================================================================================
