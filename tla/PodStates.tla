------------------------------- MODULE PodStates -------------------------------
(***************************************************************************)
(* An OSD pod, as the reconciler tells pods apart: by phase (Pending or    *)
(* not), by containers in ContainerCreating or PodInitializing and none in *)
(* CrashLoopBackOff, and by containers in CrashLoopBackOff or terminated   *)
(* with Error.  PodStatus derives these states from container statuses;    *)
(* "none" is no pod.                                                       *)
(***************************************************************************)
PodState       == {"none", "pending", "init", "initerror", "initcrash", "crash", "running"}
PendingPhase   == {"pending", "init", "initerror", "initcrash"}
CreatingStates == {"init", "initerror"}
FailingStates  == {"initerror", "initcrash", "crash"}

\* The changes a single step of kubelet, or the replacement of the pod, can
\* make.  (A container starts or ends at a time: a pod that has both failing
\* containers and ones not started never has neither in one step, and so on.)
KubeletMoves ==
  {m \in (PodState \ {"none"}) \X (PodState \ {"none"}) : m[1] # m[2]} \
    { <<"pending", "crash">>, <<"init", "crash">>, <<"initerror", "running">>,
      <<"initcrash", "running">>, <<"running", "initcrash">>, <<"crash", "init">> }
================================================================================
