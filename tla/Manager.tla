-------------------------------- MODULE Manager --------------------------------
(***************************************************************************)
(* The operator's process: main sets up the manager step by step and exits *)
(* when a step fails, kubelet starts it again, and with --leader-elect the *)
(* replicas take turns through a lease that none of them gives back.       *)
(* NodeRecoveryController is what the one active worker does.              *)
(***************************************************************************)
EXTENDS Naturals

CONSTANTS
  Replica,            \* the pods of the operator's deployment
  NoHolder,           \* the lease is held by a process that is gone, or by none
  CertPaths,          \* certificates given by flags, of "webhook", "metrics"
  LeaderElect,        \* --leader-elect, as in config/manager/manager.yaml
  RenewDeadline,      \* a leader that could not renew for so long stops
  LeaseDuration,      \* the others take a lease this old
  MaxFailures         \* how many steps fail, signals and kills included

ASSUME ManagerAssumption ==
  /\ NoHolder \notin Replica
  /\ CertPaths \subseteq {"webhook", "metrics"} /\ LeaderElect \in BOOLEAN
  /\ RenewDeadline \in Nat \ {0} /\ LeaseDuration \in Nat /\ RenewDeadline < LeaseDuration
  /\ MaxFailures \in Nat

VARIABLES
  pc,                 \* per replica: the next call of main, or how far Start is
  watchers,           \* certificate watchers created, and those added
  registry,           \* what metrics.Registry is
  served,             \* the registry the metrics server serves
  working,            \* is a reconciliation running
  lease,              \* its holder and the time since it was renewed
  failures

procVars == <<pc, watchers, registry, served, working>>
vars     == <<procVars, lease, failures>>

\* The calls of main in their order.
Setup == {"certs", "NewManager", "getScheme", "SetupWithManager", "addCerts", "checks",
          "RegisterMetrics", "Start"}
\* mgr.Start: without the lease, with it, after a signal.
Started == {"standby", "active", "stopping"}

TypeOK ==
  /\ pc \in [Replica -> Setup \union Started \union {"exited"}]
  /\ watchers \in [Replica -> [created : SUBSET CertPaths, added : SUBSET CertPaths]]
  /\ registry \in [Replica -> {"default", "own"}]
  /\ served \in [Replica -> {"none", "default", "own"}]
  /\ working \in [Replica -> BOOLEAN]
  /\ lease \in [holder : Replica \union {NoHolder}, age : 0..LeaseDuration]
  /\ failures \in 0..MaxFailures

NoWatchers == [created |-> {}, added |-> {}]

Init ==
  /\ pc = [r \in Replica |-> "certs"]
  /\ watchers = [r \in Replica |-> NoWatchers]
  /\ registry = [r \in Replica |-> "default"]
  /\ served = [r \in Replica |-> "none"]
  /\ working = [r \in Replica |-> FALSE]
  /\ lease = [holder |-> NoHolder, age |-> LeaseDuration]
  /\ failures = 0

Failure == failures < MaxFailures /\ failures' = failures + 1

-------------------------------------------------------------------------------
(***************************************************************************)
(* main.                                                                   *)
(***************************************************************************)
\* The call that main is at succeeds; the next one is to.
Call(r, at, to) == pc[r] = at /\ pc' = [pc EXCEPT ![r] = to]

\* certwatcher.New, for each certificate that a flag gives.  The options of
\* the servers are left out.
NewCertWatchers(r) ==
  /\ Call(r, "certs", "NewManager")
  /\ watchers' = [watchers EXCEPT ![r].created = CertPaths]
  /\ UNCHANGED <<registry, served, working, lease, failures>>

NewManager(r) ==
  /\ Call(r, "NewManager", "getScheme")
  /\ UNCHANGED <<watchers, registry, served, working, lease, failures>>

getScheme(r) ==
  /\ Call(r, "getScheme", "SetupWithManager")
  /\ UNCHANGED <<watchers, registry, served, working, lease, failures>>

SetupWithManager(r) ==
  /\ Call(r, "SetupWithManager", "addCerts")
  /\ UNCHANGED <<watchers, registry, served, working, lease, failures>>

AddCertWatchers(r) ==
  /\ Call(r, "addCerts", "checks")
  /\ watchers' = [watchers EXCEPT ![r].added = watchers[r].created]
  /\ UNCHANGED <<registry, served, working, lease, failures>>

\* AddHealthzCheck and AddReadyzCheck.
AddChecks(r) ==
  /\ Call(r, "checks", "RegisterMetrics")
  /\ UNCHANGED <<watchers, registry, served, working, lease, failures>>

\* Mutant: the counters are registered in a registry nobody serves.
newRegistry == "default"

\* RegisterMetrics replaces the registry of controller-runtime.
ownRegistry == "own"

RegisterMetrics(r) ==
  /\ Call(r, "RegisterMetrics", "Start")
  /\ registry' = [registry EXCEPT ![r] = ownRegistry]
  /\ UNCHANGED <<watchers, served, working, lease, failures>>

\* The servers and the certificate watchers start, with or without the lease.
Start(r) ==
  /\ Call(r, "Start", "standby")
  /\ served' = [served EXCEPT ![r] = registry[r]]
  /\ UNCHANGED <<watchers, registry, working, lease, failures>>

\* Mutant: main logs the error and does not end the process.
hangs(r) == pc' = [pc EXCEPT ![r] = "stopping"]

\* Mutant: the process ends in a way that kubelet does not restart.
completes(r) == pc' = [pc EXCEPT ![r] = "completed"]

\* os.Exit(1).
exits(r) == pc' = [pc EXCEPT ![r] = "exited"]

\* The process ends.  The lease is not released: it stays with an identity
\* that never comes back.
Exit(r) ==
  /\ exits(r)
  /\ watchers' = [watchers EXCEPT ![r] = NoWatchers]
  /\ registry' = [registry EXCEPT ![r] = "default"]
  /\ served' = [served EXCEPT ![r] = "none"]
  /\ working' = [working EXCEPT ![r] = FALSE]
  /\ lease' = IF lease.holder = r THEN [lease EXCEPT !.holder = NoHolder] ELSE lease

\* A call of main returns an error, or the process is killed.
Fails(r) == pc[r] # "exited" /\ Failure /\ Exit(r)

-------------------------------------------------------------------------------
(***************************************************************************)
(* External: what controller-runtime does in mgr.Start.                    *)
(***************************************************************************)
\* Mutant: the flag does not reach the manager's options.
noLeaderElection == FALSE

\* ctrl.Options.LeaderElection.
leaderElection == LeaderElect

\* The controller is started.
Lead(r) ==
  /\ Call(r, "standby", "active")
  /\ IF leaderElection
     THEN lease.age = LeaseDuration /\ lease' = [holder |-> r, age |-> 0]
     ELSE UNCHANGED lease
  /\ UNCHANGED <<watchers, registry, served, working, failures>>

Renew(r) ==
  /\ lease.holder = r /\ lease' = [lease EXCEPT !.age = 0]
  /\ UNCHANGED <<procVars, failures>>

\* Start returns an error when the lease could not be renewed in time.
LeaseLost(r) ==
  /\ lease.holder = r /\ lease.age >= RenewDeadline
  /\ Exit(r)
  /\ UNCHANGED failures

Reconcile(r) ==
  /\ pc[r] = "active" \/ working[r]
  /\ working' = [working EXCEPT ![r] = ~working[r]]
  /\ UNCHANGED <<pc, watchers, registry, served, lease, failures>>

\* SetupSignalHandler: the controller takes up nothing new; the lease is
\* renewed until the reconciliation that is running has ended.
Signal(r) ==
  /\ pc[r] \in {"standby", "active"} /\ Failure
  /\ pc' = [pc EXCEPT ![r] = "stopping"]
  /\ UNCHANGED <<watchers, registry, served, working, lease>>

\* Start returns; so does main.
Stopped(r) ==
  /\ pc[r] = "stopping" /\ ~working[r]
  /\ Exit(r)
  /\ UNCHANGED failures

\* kubelet starts the container again.
Restarted(r) ==
  /\ Call(r, "exited", "certs")
  /\ UNCHANGED <<watchers, registry, served, working, lease, failures>>

\* Time passes.  A leader renews before the deadline unless the API server
\* cannot be reached, and stops at the deadline by its own clock.
LeaseAges ==
  /\ lease.age < LeaseDuration
  /\ lease' = [lease EXCEPT !.age = @ + 1]
  /\ \/ lease.holder = NoHolder /\ UNCHANGED failures
     \/ lease.holder # NoHolder /\ lease.age + 1 < RenewDeadline /\ UNCHANGED failures
     \/ lease.holder # NoHolder /\ lease.age + 1 = RenewDeadline /\ Failure
  /\ UNCHANGED procVars

-------------------------------------------------------------------------------
Main(r) ==
  \/ NewCertWatchers(r) \/ NewManager(r) \/ getScheme(r) \/ SetupWithManager(r)
  \/ AddCertWatchers(r) \/ AddChecks(r) \/ RegisterMetrics(r) \/ Start(r)

Next ==
  \/ LeaseAges
  \/ \E r \in Replica :
       \/ Main(r) \/ Fails(r) \/ Signal(r)
       \/ Lead(r) \/ Renew(r) \/ LeaseLost(r) \/ Reconcile(r) \/ Stopped(r) \/ Restarted(r)

Spec == Init /\ [][Next]_vars

(***************************************************************************)
(* Processes run, kubelet restarts them, time passes and reconciliations   *)
(* end.  (That one replica does not always lose the race for the lease is  *)
(* not needed.)                                                            *)
(***************************************************************************)
Fairness ==
  /\ WF_vars(LeaseAges)
  /\ \A r \in Replica :
       /\ WF_vars(Main(r)) /\ WF_vars(Restarted(r)) /\ WF_vars(Lead(r)) /\ WF_vars(LeaseLost(r))
       /\ WF_vars(working[r] /\ Reconcile(r)) /\ WF_vars(Stopped(r))

FairSpec == Spec /\ Fairness

-------------------------------------------------------------------------------
(***************************************************************************)
(* At most one replica reconciles at a time, through every loss and        *)
(* expiry of the lease and while a replica that was told to stop still     *)
(* finishes its reconciliation ("Enabling this will ensure there is only   *)
(* one active controller manager", cmd/main.go).                           *)
(***************************************************************************)
OneWorker == \A r, z \in Replica : working[r] /\ working[z] => r = z

(***************************************************************************)
(* Whatever a replica serves, before and after it leads, is the registry   *)
(* with the operator's own counters, and certificates that are kept up to  *)
(* date: RegisterMetrics replaces a global that Start hands to the server. *)
(***************************************************************************)
ServesOwnMetrics ==
  \A r \in Replica :
    served[r] # "none" => served[r] = "own" /\ watchers[r].added = CertPaths

(***************************************************************************)
(* Whichever calls fail and whichever processes are told to stop or are    *)
(* killed, there is an active manager again: main never stays up with its  *)
(* manager stopped, and a lease left behind runs out.                      *)
(***************************************************************************)
ActiveAgain == []<>(\E r \in Replica : pc[r] = "active")
================================================================================
