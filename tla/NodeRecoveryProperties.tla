------------------------ MODULE NodeRecoveryProperties ------------------------
(***************************************************************************)
(* What the operator is expected to guarantee.                             *)
(***************************************************************************)
EXTENDS NodeRecoveryController

Started(s) == s.startTime
Latest(s)  == IF Started(s) THEN getLatestCondition(s) ELSE "New"

FlowAt(s) ==
  IF s.phase \in TerminalPhase THEN s.phase ELSE Latest(s)

Flow == INSTANCE RecoveryFlow
          WITH at      <- [c \in CR |-> FlowAt(store[c])],
               devices <- [c \in CR |-> getOSDIDsFromNodeDevices(store[c].nodeDevice)],
               keep    <- [c \in CR |-> store[c].keepCephToolsPod]

(***************************************************************************)
(* Each stored status moves along the abstract flow: stale reads, repeated *)
(* handlers, crashes and refused updates never take it back, round or out  *)
(* of a terminal phase, nor rewrite what it recorded.  The only writer is  *)
(* Status().Update on the resourceVersion the reconciliation has read.     *)
(***************************************************************************)
FlowRefinement == Flow!FlowSpec

(***************************************************************************)
(* The State column of `oc get noderec` prints the type of the condition   *)
(* with status "True": in a started resource exactly the last condition is *)
(* "True", and no type occurs twice.                                       *)
(***************************************************************************)
OneTrueCondition ==
  \A c \in CR : Started(store[c]) =>
    LET conds == store[c].conditions
    IN  /\ \A i \in DOMAIN conds : (conds[i].status = "True") = (i = Len(conds))
        /\ UniqueConditionTypes(store[c])

(***************************************************************************)
(* The ceph tools the user had enabled are never switched off: the flag    *)
(* KeepCephToolsPod survives every fault in the direction that matters.    *)
(* (An upgrade in between breaks this: the flag is about one object, the   *)
(* switch at the end is on the other.)                                     *)
(***************************************************************************)
NeverDisablesUserTools ==
  \A x \in ToolsObject : userTools[x] => toolsSpec[x]

(***************************************************************************)
(* A removal job has OSDs to remove, and is only ever given OSDs whose     *)
(* deployment is scaled to zero and whose pod is gone: it never purges an  *)
(* OSD that may be serving, whatever was repeated or lost before the job   *)
(* was created.                                                            *)
(***************************************************************************)
JobTargetsDown ==
  job.exists => /\ job.ids # {}
                /\ \A o \in job.ids : replicas[o] = 0 /\ pod[o] = "none"

AfterJob ==
  { "WaitForPersistenVolumeBound", "RestartStorageOperator",
    "DeleteFailedPodsNodeAffinity", "StorageClusterFitnessCheck",
    "DisableCephTools" }
AfterReplacement == AfterJob \ {"WaitForPersistenVolumeBound"}

(***************************************************************************)
(* A recovery that is past the removal has left no job and no job pod: a   *)
(* reconciliation on an outdated condition does not create one again.      *)
(***************************************************************************)
NoJobLeftBehind ==
  \A c \in CR : Latest(store[c]) \in AfterJob => ~job.exists /\ jobPod = "none"

(***************************************************************************)
(* A recovery that is past the removal has really had its devices taken    *)
(* out of ceph: the success of a job is never read off a pod of an earlier *)
(* job that the informer still shows, since the log is not cached.         *)
(***************************************************************************)
RemovalConfirmed ==
  \A c \in CR : Latest(store[c]) \in AfterJob =>
    \A o \in getOSDIDsFromNodeDevices(store[c].nodeDevice) : pv[o] # "Bound"

\* The OSDs that are up on bound claims.
boundOSDPods == {o \in OverPVC : pod[o] # "none" /\ pv[o] = "Bound"}

\* The OSDs a recovery has recorded, as failed or as operational.
RecordedOSDs(s) ==
  getOSDIDsFromNodeDevices(s.nodeDevice) \union {p[1] : p \in s.operationalOSDIDs}

(***************************************************************************)
(* A recovery only restarts rook and goes on to the health check when at   *)
(* least as many OSDs as failed have come up, on bound claims and with ids *)
(* it has not recorded.  The code compares two numbers of pods, which are  *)
(* counted at different times, from informers each at a time of its own.   *)
(***************************************************************************)
ReplacementsUp ==
  \A c \in CR : Latest(store[c]) \in AfterReplacement =>
    Cardinality(boundOSDPods \ RecordedOSDs(store[c]))
      >= Cardinality(getOSDIDsFromNodeDevices(store[c].nodeDevice))

(***************************************************************************)
(* A completed recovery leaves no OSD half removed: scaled to zero by the  *)
(* operator, but never taken out of ceph.                                  *)
(***************************************************************************)
NoOrphanedOSD ==
  \A c \in CR : store[c].phase = "Completed" =>
    ~ \E o \in OSD : replicas[o] = 0 /\ pv[o] = "Bound"

(***************************************************************************)
(* A recovery that labelled nodes for pending pods or took down failing    *)
(* OSDs has restarted the rook operator before it completes.               *)
(***************************************************************************)
RestartNotOwed ==
  \A c \in CR : store[c].phase = "Completed" => c \notin restartOwed

\* A completed recovery leaves the tools switch as the user had set it.
ToolsRestored ==
  \A c \in CR : store[c].phase = "Completed" => toolsSpec = userTools

(***************************************************************************)
(* Between reconciliations the counters agree with the stored statuses:    *)
(* every started and every completed recovery has been counted once.       *)
(***************************************************************************)
CountersExact ==
  pc = "idle" =>
    /\ metrics.total = Cardinality({c \in CR : Started(store[c])})
    /\ metrics.completed = Cardinality({c \in CR : store[c].phase = "Completed"})

(***************************************************************************)
(* Every resource ends in a terminal phase or is deleted: the 30 minute    *)
(* limit of a condition is reached through every wait, error, panic and    *)
(* repeated handler.                                                       *)
(***************************************************************************)
EventuallyEnds ==
  \A c \in CR : api[c] = "live" ~>
    (api[c] = "deleted" \/ store[c].phase \in TerminalPhase)
===============================================================================
