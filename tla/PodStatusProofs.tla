---------------------------- MODULE PodStatusProofs ----------------------------
(***************************************************************************)
(* Proofs about PodStatus, for any number of containers and of init        *)
(* containers.  What the loop of checkPodStatus returns is found by        *)
(* induction over the list, as the least position where the loop and its   *)
(* result would part; the moves of the pod rest on that result.            *)
(***************************************************************************)
EXTENDS PodStatus, SequenceTheorems, WellFoundedInduction, TLAPS

(***************************************************************************)
(* A set of naturals has a least element.                                  *)
(***************************************************************************)
LEMMA Least ==
  ASSUME NEW T \in SUBSET Nat, T # {}
  PROVE  \E x \in T : \A y \in T : x <= y
<1> DEFINE R == {ss \in Nat \X Nat : ss[1] < ss[2]}
<1>1. IsWellFoundedOn(R, Nat)
  BY NatLessThanWellFounded DEF OpToRel
<1> HIDE DEF R
<1>2. \E x \in T : \A y \in T : ~ (<<y, x>> \in R)
  BY <1>1, WFMin
<1>3. ASSUME NEW x \in Nat, NEW y \in Nat, ~ (<<y, x>> \in R)
      PROVE  x <= y
  <2>1. <<y, x>> \in Nat \X Nat /\ <<y, x>>[1] = y /\ <<y, x>>[2] = x
    OBVIOUS
  <2> QED BY <1>3, <2>1 DEF R
<1> QED BY <1>2, <1>3

-------------------------------------------------------------------------------
(***************************************************************************)
(* What the loop has found after i containers.                             *)
(***************************************************************************)
CrashedBy(list, i) == \E j \in 1..i : list[j] = "CrashLoopBackOff"
CreatingBy(list, i) == {j \in 1..i : list[j] \in {"ContainerCreating", "PodInitializing"}}

Found(list, i) ==
  [returned |-> CrashedBy(list, i), errs |-> IF CrashedBy(list, i) THEN {} ELSE CreatingBy(list, i)]

\* f is the sequence of the loop's intermediate results.
LoopOver(list, f) ==
  f = [i \in 0..Len(list) |-> IF i = 0 THEN [returned |-> FALSE, errs |-> {}]
                              ELSE examineStatus(f[i - 1], list, i)]

LEMMA FoundAtZero ==
  ASSUME NEW list
  PROVE  Found(list, 0) = [returned |-> FALSE, errs |-> {}]
<1>1. 1..0 = {}
  OBVIOUS
<1>2. ~ CrashedBy(list, 0) /\ CreatingBy(list, 0) = {}
  BY <1>1 DEF CrashedBy, CreatingBy
<1>3. CrashedBy(list, 0) = FALSE
  BY <1>2 DEF CrashedBy
<1> QED BY <1>2, <1>3 DEF Found

(***************************************************************************)
(* Examining one more container adds it to what has been found.            *)
(***************************************************************************)
LEMMA FoundNext ==
  ASSUME NEW list, NEW i \in Nat \ {0}
  PROVE  Found(list, i) = examineStatus(Found(list, i - 1), list, i)
<1>1. 1..i = 1..(i - 1) \union {i}
  OBVIOUS
<1>2. CrashedBy(list, i) = (CrashedBy(list, i - 1) \/ list[i] = "CrashLoopBackOff")
  BY <1>1, Zenon DEF CrashedBy
<1>3. CrashedBy(list, i) \in BOOLEAN /\ CrashedBy(list, i - 1) \in BOOLEAN
  BY DEF CrashedBy
<1>4. CreatingBy(list, i) = CreatingBy(list, i - 1) \union
         (IF list[i] \in {"ContainerCreating", "PodInitializing"} THEN {i} ELSE {})
  BY <1>1 DEF CreatingBy
<1> DEFINE acc == Found(list, i - 1)
<1>5. acc.returned = CrashedBy(list, i - 1)
  BY DEF Found
<1>6. acc.errs = IF CrashedBy(list, i - 1) THEN {} ELSE CreatingBy(list, i - 1)
  BY DEF Found
<1>7. CASE CrashedBy(list, i - 1)
  <2>1. CrashedBy(list, i) = TRUE /\ CrashedBy(list, i - 1) = TRUE
    BY <1>2, <1>3, <1>7
  <2>2. Found(list, i) = Found(list, i - 1)
    BY <2>1 DEF Found
  <2> QED BY <2>1, <2>2, <1>5 DEF examineStatus
<1>8. CASE ~ CrashedBy(list, i - 1) /\ list[i] = "CrashLoopBackOff"
  <2>1. CrashedBy(list, i) = TRUE
    BY <1>2, <1>3, <1>8
  <2> QED BY <2>1, <1>5, <1>8 DEF Found, examineStatus
<1>9. CASE ~ CrashedBy(list, i - 1) /\ list[i] # "CrashLoopBackOff"
  <2>1. CrashedBy(list, i) = FALSE /\ CrashedBy(list, i - 1) = FALSE
    BY <1>2, <1>3, <1>9
  <2>2. acc = [returned |-> FALSE, errs |-> CreatingBy(list, i - 1)]
    BY <2>1 DEF Found
  <2>3. Found(list, i) = [returned |-> FALSE, errs |-> CreatingBy(list, i)]
    BY <2>1 DEF Found
  <2>4. CASE list[i] \in {"ContainerCreating", "PodInitializing"}
    <3>1. examineStatus(acc, list, i) = [returned |-> FALSE, errs |-> acc.errs \union {i}]
      BY <2>2, <2>4, <1>9 DEF examineStatus
    <3>2. CreatingBy(list, i) = CreatingBy(list, i - 1) \union {i}
      BY <2>4, <1>4
    <3>3. acc.errs = CreatingBy(list, i - 1)
      BY <2>2
    <3> QED BY <3>1, <3>2, <3>3, <2>3
  <2>5. CASE list[i] \notin {"ContainerCreating", "PodInitializing"}
    <3>1. examineStatus(acc, list, i) = acc
      BY <2>2, <2>5, <1>9 DEF examineStatus
    <3>2. CreatingBy(list, i) = CreatingBy(list, i - 1)
      BY <2>5, <1>4
    <3> QED BY <3>1, <3>2, <2>2, <2>3
  <2> QED BY <2>4, <2>5
<1> QED BY <1>7, <1>8, <1>9

(***************************************************************************)
(* The loop has intermediate results, and they are what has been found.    *)
(***************************************************************************)
LEMMA LoopExists ==
  ASSUME NEW list, Len(list) \in Nat
  PROVE  LoopOver(list, [i \in 0..Len(list) |-> Found(list, i)])
<1> DEFINE f == [i \in 0..Len(list) |-> Found(list, i)]
<1>1. ASSUME NEW i \in 0..Len(list)
      PROVE  Found(list, i) = IF i = 0 THEN [returned |-> FALSE, errs |-> {}]
                              ELSE examineStatus(f[i - 1], list, i)
  <2>1. CASE i = 0
    BY <2>1, FoundAtZero
  <2>2. CASE i # 0
    <3>1. i \in Nat \ {0} /\ i - 1 \in 0..Len(list)
      BY <2>2
    <3>2. f[i - 1] = Found(list, i - 1)
      BY <3>1
    <3> QED BY <3>1, <3>2, <2>2, FoundNext
  <2> QED BY <2>1, <2>2
<1> QED BY <1>1 DEF LoopOver

LEMMA LoopUnique ==
  ASSUME NEW list, Len(list) \in Nat, NEW f, LoopOver(list, f)
  PROVE  \A i \in 0..Len(list) : f[i] = Found(list, i)
<1> DEFINE T == {i \in 0..Len(list) : f[i] # Found(list, i)}
<1>1. SUFFICES ASSUME T # {} PROVE FALSE
  OBVIOUS
<1>2. PICK x \in T : \A y \in T : x <= y
  <2>1. T \in SUBSET Nat
    OBVIOUS
  <2> QED BY <2>1, <1>1, Least
<1>3. x \in 0..Len(list) /\ f[x] # Found(list, x)
  OBVIOUS
<1>4. f[x] = IF x = 0 THEN [returned |-> FALSE, errs |-> {}]
             ELSE examineStatus(f[x - 1], list, x)
  BY <1>3 DEF LoopOver
<1>5. x # 0
  BY <1>3, <1>4, FoundAtZero
<1>6. x \in Nat \ {0} /\ x - 1 \in 0..Len(list) /\ ~ (x <= x - 1)
  BY <1>3, <1>5
<1>7. f[x - 1] = Found(list, x - 1)
  BY <1>2, <1>6
<1>8. f[x] = Found(list, x)
  BY <1>4, <1>5, <1>6, <1>7, FoundNext
<1> QED BY <1>3, <1>8

(***************************************************************************)
(* checkPodStatus returns the positions of the containers being created,   *)
(* or nothing when any container is in CrashLoopBackOff, before or after   *)
(* them, for a list of any length.                                         *)
(***************************************************************************)
LEMMA LoopExact ==
  ASSUME NEW list, Len(list) \in Nat
  PROVE  checkPodStatus(list) =
           IF CrashedBy(list, Len(list)) THEN {} ELSE CreatingBy(list, Len(list))
<1> DEFINE after == CHOOSE f : LoopOver(list, f)
<1>1. checkPodStatus(list) = after[Len(list)].errs
  BY DEF checkPodStatus, LoopOver
<1>2. LoopOver(list, after)
  BY LoopExists
<1> HIDE DEF after
<1>3. after[Len(list)] = Found(list, Len(list))
  BY <1>2, LoopUnique
<1> QED BY <1>1, <1>3 DEF Found

-------------------------------------------------------------------------------
(***************************************************************************)
(* The statuses of the pod.  It has those of its init containers as soon   *)
(* as it has any.                                                          *)
(***************************************************************************)
PodInv ==
  /\ PodTypeOK
  /\ statuses = <<>> => initStatuses = <<>>
  /\ statuses # <<>> => initStatuses \in [1..InitContainers -> ContainerState]

LEMMA StatusLists ==
  ASSUME PodTypeOK
  PROVE  /\ initStatuses \in Seq(ContainerState) /\ statuses \in Seq(ContainerState)
         /\ DOMAIN initStatuses = 1..Len(initStatuses)
         /\ DOMAIN statuses = 1..Len(statuses)
<1> USE PodAssumption
<1>1. ASSUME NEW n \in Nat, NEW f \in {<<>>} \union [1..n -> ContainerState]
      PROVE  f \in Seq(ContainerState)
  <2>1. CASE f = <<>>
    BY <2>1
  <2>2. CASE f \in [1..n -> ContainerState]
    <3>1. f \in UNION {[1..m -> ContainerState] : m \in Nat}
      BY <2>2, Zenon
    <3> QED BY <3>1, SeqDef, Zenon
  <2> QED BY <2>1, <2>2
<1>2. initStatuses \in Seq(ContainerState) /\ statuses \in Seq(ContainerState)
  BY <1>1 DEF PodTypeOK
<1> QED BY <1>2

LEMMA PodInvInit == Init => PodInv
BY DEF Init, PodInv, PodTypeOK

LEMMA FirstReasonState ==
  /\ FirstReason \in ContainerState /\ FirstReason \in NotStarted
  /\ FirstReason \in {"ContainerCreating", "PodInitializing"}
BY DEF FirstReason, ContainerState, WaitingReason, NotStarted

LEMMA ListOfNone ==
  ASSUME NEW f \in [1..Containers -> ContainerState]
  PROVE  f # <<>> /\ DOMAIN f = 1..Containers /\ 1 \in 1..Containers
BY PodAssumption

(***************************************************************************)
(* Each step of the scheduler or of kubelet keeps the invariant.           *)
(***************************************************************************)
LEMMA PodInvStep ==
  ASSUME PodInv, [Next]_vars
  PROVE  PodInv'
<1> USE PodAssumption
<1>1. CASE UNCHANGED vars
  BY <1>1 DEF PodInv, PodTypeOK, vars
<1>2. CASE Scheduled
  <2>1. /\ initStatuses' \in [1..InitContainers -> ContainerState]
        /\ statuses' \in [1..Containers -> ContainerState]
    BY <1>2, FirstReasonState DEF Scheduled
  <2> QED BY <2>1, ListOfNone DEF PodInv, PodTypeOK
<1>3. CASE SandboxChanges
  <2>1. /\ initStatuses' \in [1..InitContainers -> ContainerState]
        /\ statuses' \in [1..Containers -> ContainerState]
    <3>1. statuses \in [1..Containers -> ContainerState]
      BY <1>3 DEF PodInv, PodTypeOK, SandboxChanges
    <3>2. "Error" \in ContainerState
      BY DEF ContainerState
    <3> QED BY <1>3, <3>1, <3>2, FirstReasonState DEF SandboxChanges
  <2> QED BY <2>1, ListOfNone DEF PodInv, PodTypeOK
<1>4. CASE Replaced
  BY <1>4 DEF Replaced, PodInv, PodTypeOK
<1>5. ASSUME NEW i \in DOMAIN initStatuses, InitContainerChanges(i)
      PROVE  PodInv'
  <2>1. statuses # <<>> /\ initStatuses \in [1..InitContainers -> ContainerState]
    BY <1>5 DEF PodInv
  <2>2. initStatuses' \in [1..InitContainers -> ContainerState] /\ statuses' = statuses
    BY <2>1, <1>5 DEF InitContainerChanges
  <2> QED BY <2>1, <2>2 DEF PodInv, PodTypeOK
<1>6. ASSUME NEW i \in DOMAIN statuses, ContainerChanges(i)
      PROVE  PodInv'
  <2>1. statuses # <<>> /\ statuses \in [1..Containers -> ContainerState]
    BY <1>6 DEF PodInv, PodTypeOK
  <2>2. statuses' \in [1..Containers -> ContainerState] /\ initStatuses' = initStatuses
    BY <2>1, <1>6 DEF ContainerChanges
  <2>3. statuses' # <<>>
    BY <2>2, ListOfNone
  <2> QED BY <2>1, <2>2, <2>3 DEF PodInv, PodTypeOK
<1> QED BY <1>1, <1>2, <1>3, <1>4, <1>5, <1>6 DEF Next

-------------------------------------------------------------------------------
(***************************************************************************)
(* The reconciler's three questions, asked of the two lists one by one.    *)
(***************************************************************************)
Has(v) ==
  \/ \E i \in DOMAIN initStatuses : initStatuses[i] = v
  \/ \E i \in DOMAIN statuses : statuses[i] = v

Waits ==
  \/ statuses = <<>>
  \/ \E i \in DOMAIN initStatuses : initStatuses[i] # "Completed"
  \/ \E i \in DOMAIN statuses : statuses[i] \in NotStarted

LEMMA AllStatuses ==
  ASSUME PodTypeOK
  PROVE  /\ Len(allStatuses) \in Nat
         /\ DOMAIN allStatuses = 1..Len(allStatuses)
         /\ \A v : (\E i \in 1..Len(allStatuses) : allStatuses[i] = v) <=> Has(v)
<1> DEFINE I == initStatuses
           S == statuses
           A == allStatuses
<1>1. /\ I \in Seq(ContainerState) /\ S \in Seq(ContainerState)
      /\ DOMAIN I = 1..Len(I) /\ DOMAIN S = 1..Len(S)
      /\ Len(I) \in Nat /\ Len(S) \in Nat
  BY StatusLists
<1>2. /\ A \in Seq(ContainerState) /\ Len(A) = Len(I) + Len(S)
      /\ \A i \in 1..(Len(I) + Len(S)) : A[i] = IF i <= Len(I) THEN I[i] ELSE S[i - Len(I)]
  BY <1>1 DEF allStatuses
<1>3. ASSUME NEW v, NEW i \in 1..Len(A), A[i] = v
      PROVE  Has(v)
  <2>1. CASE i <= Len(I)
    BY <2>1, <1>1, <1>2, <1>3 DEF Has
  <2>2. CASE ~ (i <= Len(I))
    <3>1. i - Len(I) \in 1..Len(S) /\ S[i - Len(I)] = v
      BY <2>2, <1>1, <1>2, <1>3
    <3> QED BY <3>1, <1>1 DEF Has
  <2> QED BY <2>1, <2>2
<1>4. ASSUME NEW v, NEW i \in DOMAIN I, I[i] = v
      PROVE  \E j \in 1..Len(A) : A[j] = v
  <2>1. i \in 1..Len(A) /\ A[i] = v
    BY <1>1, <1>2, <1>4
  <2> QED BY <2>1
<1>5. ASSUME NEW v, NEW i \in DOMAIN S, S[i] = v
      PROVE  \E j \in 1..Len(A) : A[j] = v
  <2>1. Len(I) + i \in 1..Len(A) /\ A[Len(I) + i] = v
    BY <1>1, <1>2, <1>5
  <2> QED BY <2>1
<1>6. ASSUME NEW v
      PROVE  (\E i \in 1..Len(A) : A[i] = v) <=> Has(v)
  BY <1>3, <1>4, <1>5 DEF Has
<1>7. Len(A) \in Nat /\ DOMAIN A = 1..Len(A)
  BY <1>2
<1> QED BY <1>6, <1>7

(***************************************************************************)
(* What checkPodStatus and isPodInCrashBackLoopOffOrErrorStatus make of    *)
(* the pod, and its phase.                                                 *)
(***************************************************************************)
LEMMA Questions ==
  ASSUME PodTypeOK
  PROVE  /\ Creating <=> /\ ~ Has("CrashLoopBackOff")
                         /\ Has("ContainerCreating") \/ Has("PodInitializing")
         /\ Failing <=> Has("CrashLoopBackOff") \/ Has("Error")
         /\ Phase = "Pending" <=> Waits
<1> DEFINE A == allStatuses
           C == CrashedBy(A, Len(A))
           N == CreatingBy(A, Len(A))
<1>1. /\ Len(A) \in Nat /\ DOMAIN A = 1..Len(A)
      /\ \A v : (\E i \in 1..Len(A) : A[i] = v) <=> Has(v)
  BY AllStatuses
<1>2. checkPodStatus(A) = IF C THEN {} ELSE N
  BY <1>1, LoopExact
<1>3. C <=> Has("CrashLoopBackOff")
  BY <1>1 DEF CrashedBy
<1>4. N # {} <=> Has("ContainerCreating") \/ Has("PodInitializing")
  <2>1. N # {} <=> \E i \in 1..Len(A) : A[i] = "ContainerCreating" \/ A[i] = "PodInitializing"
    BY DEF CreatingBy
  <2> QED BY <2>1, <1>1
<1>5. Creating <=> ~ C /\ N # {}
  <2>1. CASE C
    BY <2>1, <1>2, Zenon DEF Creating
  <2>2. CASE ~ C
    BY <2>2, <1>2, Zenon DEF Creating
  <2> QED BY <2>1, <2>2
<1>6. Failing <=> Has("CrashLoopBackOff") \/ Has("Error")
  <2>1. Failing <=> \E i \in 1..Len(A) : A[i] = "CrashLoopBackOff" \/ A[i] = "Error"
    BY <1>1 DEF Failing, isPodInCrashBackLoopOffOrErrorStatus
  <2> QED BY <2>1, <1>1
<1>7. Phase = "Pending" <=> Waits
  BY DEF Phase, Waits, Initialized
<1> HIDE DEF C, N
<1> QED BY <1>3, <1>4, <1>5, <1>6, <1>7

-------------------------------------------------------------------------------
(***************************************************************************)
(* The pod state the three answers amount to.                              *)
(***************************************************************************)
PodFacts ==
  /\ podState \in PodState \ {"none"}
  /\ podState \in PendingPhase <=> Waits
  /\ podState \in CreatingStates <=> /\ ~ Has("CrashLoopBackOff")
                                     /\ Has("ContainerCreating") \/ Has("PodInitializing")
  /\ podState \in FailingStates <=> Has("CrashLoopBackOff") \/ Has("Error")

LEMMA VerdictHolds == PodInv => StabilizeVerdict
<1> SUFFICES ASSUME PodInv PROVE StabilizeVerdict
  OBVIOUS
<1>1. PodTypeOK
  BY DEF PodInv
<1> DEFINE present == {allStatuses[i] : i \in DOMAIN allStatuses}
<1>2. ASSUME NEW v PROVE v \in present <=> Has(v)
  BY <1>1, AllStatuses
<1>3. present \intersect {"ContainerCreating", "PodInitializing"} # {}
        <=> "ContainerCreating" \in present \/ "PodInitializing" \in present
  OBVIOUS
<1>4. Creating <=> /\ "CrashLoopBackOff" \notin present
                   /\ present \intersect {"ContainerCreating", "PodInitializing"} # {}
  <2> HIDE DEF present
  <2> QED BY <1>1, <1>2, <1>3, Questions
<1> QED BY <1>4 DEF StabilizeVerdict

(***************************************************************************)
(* A container being created keeps the pod in phase Pending.               *)
(***************************************************************************)
LEMMA CreatingWaits ==
  ASSUME PodInv, Creating
  PROVE  Waits
<1>1. PodTypeOK
  BY DEF PodInv
<1>2. Has("ContainerCreating") \/ Has("PodInitializing")
  BY <1>1, Questions
<1> QED BY <1>2 DEF Has, Waits, NotStarted

LEMMA StateExactHolds == PodInv => PodStateExact
<1> SUFFICES ASSUME PodInv PROVE PodStateExact
  OBVIOUS
<1> DEFINE P == Phase = "Pending"
           Is(s) == Observed(s) /\ \A z \in PodState \ {"none"} : Observed(z) => z = s
<1>1. Creating => P
  <2>1. PodTypeOK
    BY DEF PodInv
  <2> QED BY <2>1, CreatingWaits, Questions
<1> USE DEF Observed, PodState, PendingPhase, CreatingStates, FailingStates
<1>2. CASE P /\ ~ Creating /\ ~ Failing
  <2>1. Is("pending")
    BY <1>2
  <2> QED BY <2>1 DEF PodStateExact
<1>3. CASE P /\ Creating /\ ~ Failing
  <2>1. Is("init")
    BY <1>3
  <2> QED BY <2>1 DEF PodStateExact
<1>4. CASE P /\ Creating /\ Failing
  <2>1. Is("initerror")
    BY <1>4
  <2> QED BY <2>1 DEF PodStateExact
<1>5. CASE P /\ ~ Creating /\ Failing
  <2>1. Is("initcrash")
    BY <1>5
  <2> QED BY <2>1 DEF PodStateExact
<1>6. CASE ~ P /\ Failing
  <2>1. Is("crash")
    BY <1>1, <1>6
  <2> QED BY <2>1 DEF PodStateExact
<1>7. CASE ~ P /\ ~ Failing
  <2>1. Is("running")
    BY <1>1, <1>7
  <2> QED BY <2>1 DEF PodStateExact
<1> QED BY <1>2, <1>3, <1>4, <1>5, <1>6, <1>7

LEMMA FactsHold == PodInv => PodFacts
<1> SUFFICES ASSUME PodInv PROVE PodFacts
  OBVIOUS
<1>1. PodTypeOK
  BY DEF PodInv
<1>2. podState \in PodState \ {"none"} /\ Observed(podState)
  BY StateExactHolds DEF PodStateExact, podState
<1> QED BY <1>1, <1>2, Questions DEF PodFacts, Observed

-------------------------------------------------------------------------------
(***************************************************************************)
(* What a step may do to the phase and to the failing containers.          *)
(***************************************************************************)
Fails == Has("CrashLoopBackOff") \/ Has("Error")

\* A pod that leaves phase Pending fails after the step just when it failed
\* before; one that enters it and did not fail has no crashing container, and
\* one that did fail is not merely being created.
OrderlyStep ==
  /\ Waits /\ ~ Waits' => (Fails <=> Fails')
  /\ ~ Waits /\ Waits' /\ ~ Fails =>
       \/ ~ Fails'
       \/ ~ Has("CrashLoopBackOff")' /\ (Has("ContainerCreating")' \/ Has("PodInitializing")')
  /\ ~ Waits /\ Waits' /\ Fails =>
       \/ Fails'
       \/ ~ (Has("ContainerCreating")' \/ Has("PodInitializing")')

LEMMA Orderly ==
  ASSUME PodInv, PodInv', [Next]_vars
  PROVE  OrderlyStep
<1> USE PodAssumption
<1>1. CASE UNCHANGED vars
  BY <1>1 DEF OrderlyStep, vars, Waits, Fails, Has
<1>2. CASE Scheduled
  <2>1. statuses = <<>> /\ Waits
    BY <1>2 DEF Scheduled, Waits
  <2>2. statuses'[1] \in NotStarted /\ 1 \in DOMAIN statuses'
    BY <1>2, FirstReasonState DEF Scheduled
  <2>3. Waits'
    BY <2>2 DEF Waits
  <2> QED BY <2>1, <2>3 DEF OrderlyStep
<1>3. CASE Replaced
  <2>1. statuses' = <<>> /\ initStatuses' = <<>>
    BY <1>3 DEF Replaced
  <2>2. ASSUME NEW v PROVE ~ Has(v)'
    BY <2>1 DEF Has
  <2>3. Waits' /\ ~ Fails'
    BY <2>1, <2>2 DEF Waits, Fails
  <2> QED BY <2>2, <2>3 DEF OrderlyStep
<1>4. ASSUME NEW i \in DOMAIN initStatuses, InitContainerChanges(i)
      PROVE  OrderlyStep
  <2>1. /\ statuses # <<>> /\ initStatuses \in [1..InitContainers -> ContainerState]
        /\ statuses' = statuses /\ i \in 1..InitContainers
        /\ DOMAIN initStatuses = 1..InitContainers
    BY <1>4 DEF PodInv, InitContainerChanges
  <2>2. PICK s \in ContainerState :
          /\ initStatuses[i] # "Completed"
          /\ s = "Completed" => initStatuses[i] = "Running"
          /\ initStatuses' = [initStatuses EXCEPT ![i] = s]
    BY <1>4, FirstReasonState DEF InitContainerChanges, NotStarted
  <2>3. Waits
    BY <2>2 DEF Waits
  <2>4. ASSUME ~ Waits' PROVE Fails <=> Fails'
    <3>1. \A j \in 1..InitContainers : initStatuses'[j] = "Completed"
      BY <2>1, <2>2, <2>4 DEF Waits
    <3>2. s = "Completed" /\ initStatuses[i] = "Running"
      BY <2>1, <2>2, <3>1
    <3>3. \A j \in 1..InitContainers : initStatuses[j] \in {"Completed", "Running"}
      BY <2>1, <2>2, <3>1, <3>2
    <3>4. DOMAIN initStatuses' = 1..InitContainers
      BY <2>1, <2>2
    <3> QED BY <3>1, <3>3, <3>4, <2>1 DEF Fails, Has
  <2> QED BY <2>3, <2>4 DEF OrderlyStep
<1>5. ASSUME NEW i \in DOMAIN statuses, ContainerChanges(i)
      PROVE  OrderlyStep
  <2>1. /\ statuses # <<>> /\ statuses \in [1..Containers -> ContainerState]
        /\ initStatuses' = initStatuses /\ i \in 1..Containers
        /\ DOMAIN statuses = 1..Containers
    BY <1>5 DEF PodInv, PodTypeOK, ContainerChanges
  <2>2. PICK s \in ContainerState :
          /\ s \in NotStarted => statuses[i] \in NotStarted
          /\ statuses[i] \in NotStarted /\ s \notin NotStarted => s = "Running"
          /\ statuses' = [statuses EXCEPT ![i] = s]
    BY <1>5, FirstReasonState DEF ContainerChanges, NotStarted
  <2>3. /\ DOMAIN statuses' = 1..Containers /\ statuses' # <<>>
        /\ statuses'[i] = s /\ \A j \in 1..Containers \ {i} : statuses'[j] = statuses[j]
    BY <2>1, <2>2
  <2>4. ASSUME Waits' PROVE Waits
    BY <2>1, <2>2, <2>3, <2>4 DEF Waits
  <2>5. ASSUME Waits, ~ Waits' PROVE Fails <=> Fails'
    <3>1. statuses[i] \in NotStarted /\ s = "Running"
      BY <2>1, <2>2, <2>3, <2>5 DEF Waits
    <3>2. statuses[i] \notin {"CrashLoopBackOff", "Error"}
      BY <3>1 DEF NotStarted
    <3> QED BY <3>1, <3>2, <2>1, <2>3 DEF Fails, Has
  <2> QED BY <2>4, <2>5 DEF OrderlyStep
<1>6. CASE SandboxChanges
  <2>1. /\ statuses # <<>> /\ statuses \in [1..Containers -> ContainerState]
        /\ initStatuses \in [1..InitContainers -> ContainerState]
        /\ DOMAIN statuses = 1..Containers /\ DOMAIN initStatuses = 1..InitContainers
    BY <1>6 DEF PodInv, PodTypeOK, SandboxChanges
  <2>2. /\ DOMAIN initStatuses' = 1..InitContainers /\ DOMAIN statuses' = 1..Containers
        /\ statuses' # <<>>
        /\ \A j \in 1..InitContainers : initStatuses'[j] = FirstReason
        /\ \A j \in 1..Containers :
             /\ statuses[j] = "Running" => statuses'[j] = "Error"
             /\ statuses[j] # "Running" => statuses'[j] = statuses[j]
    BY <1>6 DEF SandboxChanges
  <2>3. CASE InitContainers = 0
    <3>1. 1..InitContainers = {}
      BY <2>3
    <3>2. Waits <=> Waits'
      BY <2>1, <2>2, <3>1 DEF Waits, NotStarted
    <3> QED BY <3>2 DEF OrderlyStep
  <2>4. CASE InitContainers # 0
    <3>1. /\ 1 \in 1..InitContainers /\ initStatuses'[1] = "PodInitializing"
          /\ FirstReason # "CrashLoopBackOff"
      BY <2>2, <2>4 DEF FirstReason
    <3>2. Waits' /\ Has("PodInitializing")'
      BY <2>2, <3>1 DEF Waits, Has
    <3>3. ASSUME ~ Waits, Fails PROVE Fails'
      BY <3>3, <2>1, <2>2 DEF Waits, Fails, Has
    <3>4. ASSUME ~ Fails PROVE ~ Has("CrashLoopBackOff")'
      BY <3>1, <3>4, <2>1, <2>2 DEF Fails, Has
    <3> QED BY <3>2, <3>3, <3>4 DEF OrderlyStep
  <2> QED BY <2>3, <2>4
<1> QED BY <1>1, <1>2, <1>3, <1>4, <1>5, <1>6 DEF Next

LEMMA MovesHold ==
  ASSUME PodInv, PodInv', PodFacts, PodFacts', [Next]_vars
  PROVE  podState' = podState \/ <<podState, podState'>> \in KubeletMoves
<1> DEFINE p == podState
           q == podState'
<1>1. OrderlyStep
  BY Orderly
<1>2. /\ p \in PodState \ {"none"} /\ q \in PodState \ {"none"}
      /\ p \in PendingPhase /\ q \notin PendingPhase =>
           (p \in FailingStates <=> q \in FailingStates)
      /\ p \notin PendingPhase /\ q \in PendingPhase /\ p \notin FailingStates =>
           q \notin FailingStates \/ q \in CreatingStates
      /\ p \notin PendingPhase /\ q \in PendingPhase /\ p \in FailingStates =>
           q \in FailingStates \/ q \notin CreatingStates
  BY <1>1 DEF PodFacts, OrderlyStep, Fails
<1> HIDE DEF p, q
<1>3. p = q \/ <<p, q>> \in KubeletMoves
  BY <1>2 DEF KubeletMoves, PodState, PendingPhase, CreatingStates, FailingStates
<1> QED BY <1>3 DEF p, q

-------------------------------------------------------------------------------
(***************************************************************************)
(* Whatever the number of containers and the position of the crashing one, *)
(* checkPodStatus holds up WaitForOSDPodsStabilize for exactly the pods    *)
(* with a container being created and none in CrashLoopBackOff.            *)
(***************************************************************************)
THEOREM StabilizeVerdictCorrect == Spec => []StabilizeVerdict
BY PodInvInit, PodInvStep, VerdictHolds, PTL DEF Spec

(***************************************************************************)
(* For any number of containers the reconciler sees every pod in exactly   *)
(* one of the states the rest of the project works with.                   *)
(***************************************************************************)
THEOREM PodStateExactCorrect == Spec => []PodStateExact
BY PodInvInit, PodInvStep, StateExactHolds, PTL DEF Spec

(***************************************************************************)
(* For any number of containers every step of the pod is one that          *)
(* OdfCluster allows its pods.                                             *)
(***************************************************************************)
THEOREM PodMovesCorrect == Spec => PodMovesAllowed
<1>1. PodInv /\ [Next]_vars => PodInv'
  BY PodInvStep
<1>2. PodInv /\ PodInv' /\ PodFacts /\ PodFacts' /\ [Next]_vars
        => [podState' = podState \/ <<podState, podState'>> \in KubeletMoves]_vars
  BY MovesHold
<1> QED BY <1>1, <1>2, PodInvInit, FactsHold, PTL DEF Spec, PodMovesAllowed
===============================================================================
