----------------------------- MODULE ManagerProofs -----------------------------
(***************************************************************************)
(* With leader election at most one replica reconciles, and every replica  *)
(* serves its own metrics, for any number of replicas, failures and any    *)
(* deadline shorter than the lease.                                        *)
(***************************************************************************)
EXTENDS Manager, TLAPS

(***************************************************************************)
(* OneWorker is not inductive.  A replica that reconciles, or may begin    *)
(* to, is the holder of the lease, and the lease of a holder never gets    *)
(* old enough for another replica to take it.                              *)
(***************************************************************************)
LeaseInv ==
  /\ pc \in [Replica -> Setup \union Started \union {"exited"}]
  /\ working \in [Replica -> BOOLEAN]
  /\ lease \in [holder : Replica \union {NoHolder}, age : Nat]
  /\ \A r \in Replica : pc[r] = "active" \/ working[r] => lease.holder = r
  /\ \A r \in Replica : working[r] => pc[r] \in {"active", "stopping"}
  /\ lease.holder # NoHolder => lease.age <= RenewDeadline

\* The invariant holds at the start: no process has started its manager.
LEMMA LeaseInit == Init => LeaseInv
BY ManagerAssumption DEF Init, LeaseInv, Setup

\* A process that ends gives up its work, and the lease is left to nobody.
LEMMA ExitLease ==
  ASSUME LeaseInv, NEW r \in Replica, Exit(r)
  PROVE  LeaseInv'
BY ManagerAssumption DEF LeaseInv, Exit, exits

\* The calls of main touch neither the lease nor the worker.
LEMMA MainLease ==
  ASSUME LeaseInv, NEW r \in Replica, Main(r)
  PROVE  LeaseInv'
<1>1. \E to \in (Setup \union Started) \ {"active"} :
        pc' = [pc EXCEPT ![r] = to] /\ pc[r] \in Setup
  BY DEF Main, NewCertWatchers, NewManager, getScheme, SetupWithManager, AddCertWatchers,
         AddChecks, RegisterMetrics, Start, Call, Setup, Started
<1>2. UNCHANGED <<working, lease>>
  BY DEF Main, NewCertWatchers, NewManager, getScheme, SetupWithManager, AddCertWatchers,
         AddChecks, RegisterMetrics, Start
<1>3. ~working[r]
  BY <1>1 DEF LeaseInv, Setup
<1> QED BY <1>1, <1>2, <1>3 DEF LeaseInv

\* Each step keeps the lease with the one replica that may reconcile.
LEMMA LeaseStep ==
  ASSUME LeaderElect = TRUE, LeaseInv, [Next]_vars
  PROVE  LeaseInv'
<1>1. ASSUME NEW r \in Replica, Fails(r) \/ LeaseLost(r) \/ Stopped(r) PROVE LeaseInv'
  BY <1>1, ExitLease DEF Fails, LeaseLost, Stopped
<1>2. ASSUME NEW r \in Replica, Lead(r) PROVE LeaseInv'
  <2>1. lease.age = LeaseDuration /\ lease' = [holder |-> r, age |-> 0]
    BY <1>2 DEF Lead, leaderElection
  <2>2. lease.holder = NoHolder
    BY <2>1, ManagerAssumption DEF LeaseInv
  <2>3. \A z \in Replica : pc[z] # "active" /\ ~working[z]
    BY <2>2, ManagerAssumption DEF LeaseInv
  <2>4. pc' = [pc EXCEPT ![r] = "active"] /\ working' = working
    BY <1>2 DEF Lead, Call
  <2> QED BY <2>1, <2>3, <2>4, ManagerAssumption DEF LeaseInv, Started
<1>3. ASSUME NEW r \in Replica, Renew(r) PROVE LeaseInv'
  BY <1>3, ManagerAssumption DEF Renew, procVars, LeaseInv
<1>4. ASSUME NEW r \in Replica, Reconcile(r) PROVE LeaseInv'
  BY <1>4 DEF Reconcile, LeaseInv
<1>5. ASSUME NEW r \in Replica, Signal(r) PROVE LeaseInv'
  BY <1>5 DEF Signal, LeaseInv, Started
<1>6. ASSUME NEW r \in Replica, Restarted(r) PROVE LeaseInv'
  BY <1>6 DEF Restarted, Call, LeaseInv, Setup
<1>7. CASE LeaseAges
  BY <1>7, ManagerAssumption DEF LeaseAges, procVars, LeaseInv
<1>8. CASE UNCHANGED vars
  BY <1>8 DEF vars, procVars, LeaseInv
<1> QED BY <1>1, <1>2, <1>3, <1>4, <1>5, <1>6, <1>7, <1>8, MainLease DEF Next

\* With --leader-elect at most one replica reconciles at a time, through every
\* failed start, kill, signal and lost lease.
THEOREM OneWorkerCorrect ==
  ASSUME LeaderElect = TRUE
  PROVE  Spec => []OneWorker
<1>1. LeaseInv => OneWorker
  BY DEF LeaseInv, OneWorker
<1>2. LeaseInv /\ [Next]_vars => LeaseInv'
  BY LeaseStep
<1> QED BY <1>1, <1>2, LeaseInit, PTL DEF Spec

-------------------------------------------------------------------------------
\* What each call of main, and each step of Start, does to the process and to
\* the counts: it keeps the types.
LEMMA ManagerTypes == TypeOK /\ [Next]_vars => TypeOK'
<1> SUFFICES ASSUME TypeOK, [Next]_vars PROVE TypeOK'
  OBVIOUS
<1>1. failures' \in 0..MaxFailures
  BY ManagerAssumption
     DEF Next, Main, vars, procVars, NewCertWatchers, NewManager, getScheme, SetupWithManager,
         AddCertWatchers, AddChecks, RegisterMetrics, Start, Fails, Failure, Signal, Lead, Renew,
         LeaseLost, Reconcile, Stopped, Restarted, LeaseAges, TypeOK
<1>2. lease' \in [holder : Replica \union {NoHolder}, age : 0..LeaseDuration]
  BY ManagerAssumption
     DEF Next, Main, vars, procVars, NewCertWatchers, NewManager, getScheme, SetupWithManager,
         AddCertWatchers, AddChecks, RegisterMetrics, Start, Fails, Signal, Lead, Renew,
         LeaseLost, Reconcile, Stopped, Restarted, LeaseAges, Exit, TypeOK
<1>3. /\ pc' \in [Replica -> Setup \union Started \union {"exited"}]
      /\ watchers' \in [Replica -> [created : SUBSET CertPaths, added : SUBSET CertPaths]]
      /\ registry' \in [Replica -> {"default", "own"}]
      /\ served' \in [Replica -> {"none", "default", "own"}]
      /\ working' \in [Replica -> BOOLEAN]
  <2> USE DEF TypeOK, Setup, Started
  <2>1. ASSUME NEW r \in Replica, Main(r) PROVE <1>3!:
    <3>1. CASE NewCertWatchers(r)
      BY <3>1 DEF Call, NewCertWatchers
    <3>2. CASE NewManager(r) \/ getScheme(r) \/ SetupWithManager(r) \/ AddChecks(r)
      BY <3>2 DEF Call, NewManager, getScheme, SetupWithManager, AddChecks
    <3>3. CASE AddCertWatchers(r)
      BY <3>3 DEF Call, AddCertWatchers
    <3>4. CASE RegisterMetrics(r)
      BY <3>4 DEF Call, RegisterMetrics, ownRegistry
    <3>5. CASE Start(r)
      BY <3>5 DEF Call, Start
    <3> QED BY <2>1, <3>1, <3>2, <3>3, <3>4, <3>5 DEF Main
  <2>2. ASSUME NEW r \in Replica, Exit(r) PROVE <1>3!:
    BY <2>2 DEF Exit, exits, NoWatchers
  <2>3. ASSUME NEW r \in Replica, Lead(r) \/ Restarted(r) \/ Signal(r) PROVE <1>3!:
    BY <2>3 DEF Lead, Restarted, Signal, Call
  <2>4. ASSUME NEW r \in Replica, Reconcile(r) PROVE <1>3!:
    BY <2>4 DEF Reconcile
  <2>5. CASE UNCHANGED procVars
    BY <2>5 DEF procVars
  <2> QED BY <2>1, <2>2, <2>3, <2>4, <2>5
          DEF Next, Fails, LeaseLost, Stopped, Renew, LeaseAges, vars
<1> QED BY <1>1, <1>2, <1>3 DEF TypeOK

\* The calls of main after certwatcher.New, and those after the watchers were
\* added to the manager.
Watching == {"NewManager", "getScheme", "SetupWithManager", "addCerts"}
Added    == {"checks", "RegisterMetrics", "Start", "standby", "active", "stopping"}

(***************************************************************************)
(* ServesOwnMetrics is not inductive: what Start hands to the servers was  *)
(* set up by the calls before it, in their order.                          *)
(***************************************************************************)
ServesInv ==
  \A r \in Replica :
    /\ pc[r] \in Watching => watchers[r].created = CertPaths
    /\ pc[r] \in Added => watchers[r].added = CertPaths
    /\ pc[r] = "Start" => registry[r] = "own"
    /\ served[r] # "none" => /\ pc[r] \in Started
                             /\ served[r] = "own"

\* Each call of main leaves what the calls after it rely on.
LEMMA ServesStep ==
  ASSUME TypeOK, ServesInv, [Next]_vars
  PROVE  ServesInv'
<1> USE DEF TypeOK, ServesInv, Watching, Added, Started
<1>1. ASSUME NEW r \in Replica, Main(r) PROVE ServesInv'
  BY <1>1 DEF Main, Call, NewCertWatchers, NewManager, getScheme, SetupWithManager,
              AddCertWatchers, AddChecks, RegisterMetrics, ownRegistry, Start
<1>2. ASSUME NEW r \in Replica, Exit(r) PROVE ServesInv'
  BY <1>2 DEF Exit, exits, NoWatchers
<1>3. ASSUME NEW r \in Replica, Lead(r) \/ Restarted(r) \/ Signal(r) PROVE ServesInv'
  BY <1>3 DEF Lead, Restarted, Signal, Call
<1>4. ASSUME NEW r \in Replica, Reconcile(r) \/ Renew(r) PROVE ServesInv'
  BY <1>4 DEF Reconcile, Renew, procVars
<1>5. CASE LeaseAges \/ UNCHANGED vars
  BY <1>5 DEF LeaseAges, vars, procVars
<1> HIDE DEF TypeOK, ServesInv
<1> QED BY <1>1, <1>2, <1>3, <1>4, <1>5 DEF Next, Fails, LeaseLost, Stopped

\* Every value of every replica and of the lease is of its type; neither the
\* lease's age nor the number of failures exceeds its bound.
THEOREM ManagerTypesCorrect == Spec => []TypeOK
<1>1. Init => TypeOK
  BY ManagerAssumption DEF Init, TypeOK, NoWatchers, Setup
<1> QED BY <1>1, ManagerTypes, PTL DEF Spec

(***************************************************************************)
(* For any number of replicas, and through every failed start and restart, *)
(* a replica that serves metrics serves the registry with the operator's   *)
(* counters, and its certificates are watched.                             *)
(***************************************************************************)
THEOREM ServesOwnMetricsCorrect == Spec => []ServesOwnMetrics
<1>1. Init => ServesInv
  BY DEF Init, ServesInv, Watching, Added
<1>2. ServesInv => ServesOwnMetrics
  BY DEF ServesInv, ServesOwnMetrics, Added, Started
<1>3. TypeOK /\ ServesInv /\ [Next]_vars => ServesInv'
  BY ServesStep
<1> QED BY <1>1, <1>2, <1>3, ManagerTypesCorrect, PTL DEF Spec
================================================================================
