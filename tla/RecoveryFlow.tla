----------------------------- MODULE RecoveryFlow -----------------------------
(***************************************************************************)
(* What each NodeRecovery resource promises, whatever goes wrong           *)
(* in between: the recovery moves along the conditions in order, a         *)
(* condition is never entered twice, a terminal phase is final, and the    *)
(* two facts recorded on the way, the failed devices and whether the tools *)
(* pod stays, are written once, at the step that finds them out.           *)
(***************************************************************************)
EXTENDS NodeRecoveryTypes

CONSTANT CR

VARIABLES
  at,                 \* "New", a condition type, "Failed" or "Completed"
  devices,            \* the failed devices, by OSD id
  keep                \* leave the tools pod in place at the end

flowVars == <<at, devices, keep>>

\* The conditions that can follow a condition.
Following(t) ==
  CASE t = "EnableCephToolsPod"             -> {"WaitForCephToolsPodRunning"}
    [] t = "WaitForCephToolsPodRunning"     -> {"WaitForOSDPodsStabilize"}
    [] t = "WaitForOSDPodsStabilize"        -> {"LabelNodesWithPendingPods"}
    [] t = "LabelNodesWithPendingPods"      -> {"ManageCrashLoopBackOffPods"}
    [] t = "ManageCrashLoopBackOffPods"     -> {"ForceDeleteRookCephOSDPods",
                                                "RestartStorageOperator"}
    [] t = "ForceDeleteRookCephOSDPods"     -> {"ProcessOCSRemovalTemplate"}
    [] t = "ProcessOCSRemovalTemplate"      -> {"CleanupOSDRemovalJob"}
    [] t = "CleanupOSDRemovalJob"           -> {"RetryForceCleanupOSDRemovalJob",
                                                "WaitForPersistenVolumeBound"}
    [] t = "RetryForceCleanupOSDRemovalJob" -> {"WaitForPersistenVolumeBound"}
    [] t = "WaitForPersistenVolumeBound"    -> {"RestartStorageOperator"}
    [] t = "RestartStorageOperator"         -> {"DeleteFailedPodsNodeAffinity"}
    [] t = "DeleteFailedPodsNodeAffinity"   -> {"StorageClusterFitnessCheck"}
    [] t = "StorageClusterFitnessCheck"     -> {"DisableCephTools"}
    [] t = "DisableCephTools"               -> {}

FlowInit ==
  /\ at = [c \in CR |-> "New"]
  /\ devices = [c \in CR |-> {}]
  /\ keep = [c \in CR |-> FALSE]

Goto(c, t) == at' = [at EXCEPT ![c] = t]

\* The first reconciliation enters the first condition and may leave it.
Begin(c) ==
  /\ at[c] = "New"
  /\ \/ Goto(c, "EnableCephToolsPod") /\ UNCHANGED keep
     \/ /\ Goto(c, "WaitForCephToolsPodRunning")
        /\ \E k \in BOOLEAN : keep' = [keep EXCEPT ![c] = k]
  /\ UNCHANGED devices

Proceed(c) ==
  /\ at[c] \in ConditionType
  /\ \E t \in Following(at[c]) :
       /\ Goto(c, t)
       /\ IF t = "ForceDeleteRookCephOSDPods"
          THEN \E d \in (SUBSET OSD) \ {{}} : devices' = [devices EXCEPT ![c] = d]
          ELSE UNCHANGED devices
  /\ IF at[c] = "EnableCephToolsPod"
     THEN \E k \in BOOLEAN : keep' = [keep EXCEPT ![c] = k]
     ELSE UNCHANGED keep

Fail(c) ==
  /\ at[c] \in ConditionType
  /\ Goto(c, "Failed")
  /\ UNCHANGED <<devices, keep>>

Complete(c) ==
  /\ at[c] = "DisableCephTools"
  /\ Goto(c, "Completed")
  /\ UNCHANGED <<devices, keep>>

FlowNext == \E c \in CR : Begin(c) \/ Proceed(c) \/ Fail(c) \/ Complete(c)

FlowSpec == FlowInit /\ [][FlowNext]_flowVars
===============================================================================
