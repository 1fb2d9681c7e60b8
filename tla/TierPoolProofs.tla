--------------------------- MODULE TierPoolProofs ---------------------------
(***************************************************************************)
(* Proofs about TierPool for any number of scenarios, workers, epochs and  *)
(* processes.                                                              *)
(***************************************************************************)
EXTENDS TierPool, FiniteSetTheorems, WellFoundedInduction, TLAPS

Pool == {"submit", "wait", "replenish"}
Idle == {"down", "refused", "blocked"}

(* Scenarios are taken in order, and the first ones are all submitted.     *)
NextIsFresh ==
    /\ \A i \in Scenario : i >= next => future[i] = "none"
    /\ \A i \in futures : i < next
    /\ pc = "submit" => next <= Workers /\ futures = 1 .. next - 1
    /\ pc \in Idle => next = 1

(* The coordinator holds every future that is not over, and every failed   *)
(* one until it collects it; whatever it no longer holds is in the error.  *)
FailuresHeld ==
    /\ pc \in Pool \cup {"cancel"} => Pending \cup Running \subseteq futures
    /\ pc \in Pool => Failed \subseteq futures
    /\ pc \in Pool \cup Idle \cup {"serial"} => primary = {} /\ notes = {}
    /\ pc \in {"cancel", "raised"} => /\ \E x \in primary : primary = {x}
                                      /\ primary \cap notes = {}
    /\ pc = "cancel" => /\ Failed \subseteq futures \cup primary \cup notes
                        /\ futures \cap (primary \cup notes) = {}
    /\ pc = "raised" => Failed \subseteq primary \cup notes
    /\ pc = "serial" => /\ Pending = {}
                        /\ \A i, j \in Failed \cup Running : i = j
    /\ pc \in Answered \cup {"down"} => Pending \cup Running = {}

(* What the coordinator is about to submit without looking at a failure.   *)
Reserve == IF pc = "replenish" THEN left
           ELSE IF pc = "submit" THEN Workers - next + 1 ELSE 0

(* The starts there have been and can still be since the first failure are *)
(* fewer than the workers.                                                 *)
Slack ==
    /\ pc \in Pool \cup {"cancel"} => Cardinality(futures) + Reserve <= Workers
    /\ Failed = {} => late = 0
    /\ Failed # {} => late + Cardinality(Pending) + Reserve < Workers
    /\ pc \in Idle \cup {"serial"} => late = 0

PoolInv == TypeOK /\ NextIsFresh /\ FailuresHeld /\ Slack
-----------------------------------------------------------------------------
(* Lemmas about sets of scenarios                                          *)

(* The error to raise is one of the errors.                                *)
LEMMA LeastIsMember ==
    ASSUME NEW S, S \subseteq Scenario, S # {}
    PROVE  Least(S) \in S
<1>1. S \subseteq Nat
  BY CountsAssumption DEF Scenario
<1>2. PICK k \in S : \A m \in S : ~ (<<m, k>> \in OpToRel(<, Nat))
  BY <1>1, NatLessThanWellFounded, WFMin
<1>3. \A m \in S : k <= m
  <2> TAKE m \in S
  <2>1. m \in Nat /\ k \in Nat
    BY <1>1, <1>2
  <2>2. ~ (m < k)
    BY <1>2, <2>1 DEF OpToRel
  <2> QED BY <2>1, <2>2
<1> QED BY <1>2, <1>3 DEF Least

LEMMA SetsOfScenarios ==
    ASSUME NEW S, S \subseteq Scenario
    PROVE  IsFiniteSet(S) /\ Cardinality(S) \in 0 .. N
<1>1. N \in Nat /\ N > 0
  BY CountsAssumption
<1>2. IsFiniteSet(Scenario) /\ Cardinality(Scenario) = N
  BY <1>1, FS_Interval DEF Scenario
<1>3. IsFiniteSet(S) /\ Cardinality(S) <= Cardinality(Scenario)
  BY <1>2, FS_Subset
<1> QED BY <1>1, <1>2, <1>3, FS_CardinalityType

LEMMA WorkersCount ==
    ASSUME jobs \in 1 .. MaxWorkers
    PROVE  Workers \in 1 .. N /\ Workers \in Nat /\ N \in Nat
BY CountsAssumption DEF Workers

(* A worker's step concerns one scenario that was submitted: it starts, or *)
(* ends, or works on its evidence.                                         *)
LEMMA WorkerMoves ==
    ASSUME TypeOK, NEW i \in Scenario, Work(i)
    PROVE  /\ UNCHANGED <<coordinator, tiers>>
           /\ \/ UNCHANGED <<future, late>>
              \/ /\ future[i] = "pending"
                 /\ future' = [future EXCEPT ![i] = "running"]
                 /\ late' = IF Failed = {} THEN late ELSE late + 1
              \/ /\ future[i] = "running" /\ UNCHANGED late
                 /\ \E end \in {"ok", "failed"} :
                        future' = [future EXCEPT ![i] = end]
<1>1. CASE WorkerStarts(i)
  BY <1>1 DEF WorkerStarts
<1>2. CASE ScenarioFails(i) \/ ScenarioSucceeds(i) \/ BundleRefused(i)
  BY <1>2 DEF ScenarioFails, ScenarioSucceeds, BundleRefused, RunsEpoch
<1>3. CASE SessionRuns(i) \/ BundleBegins(i) \/ BundleEnds(i)
  BY <1>3 DEF SessionRuns, BundleBegins, BundleEnds
<1>4. CASE \E e \in Epoch : Requalify(i, e) \/ Redigest(i, e)
  BY <1>4 DEF Requalify, Redigest
<1> QED BY <1>1, <1>2, <1>3, <1>4 DEF Work
-----------------------------------------------------------------------------
(* The initial state                                                       *)

LEMMA InitPool == Init => PoolInv
<1> SUFFICES ASSUME Init PROVE PoolInv
  OBVIOUS
<1>1. TypeOK
  BY CountsAssumption, BoundAssumption
     DEF Init, TypeOK, Answered, FutureStates, BundleStates
<1>2. Failed = {} /\ Pending = {} /\ Running = {}
  BY DEF Init, Failed, Pending, Running
<1>3. NextIsFresh
  BY DEF Init, NextIsFresh, Idle
<1>4. FailuresHeld
  BY <1>2 DEF Init, FailuresHeld, Pool, Idle, Answered
<1>5. Slack
  BY <1>2 DEF Init, Slack, Pool, Idle
<1> QED BY <1>1, <1>3, <1>4, <1>5 DEF PoolInv
-----------------------------------------------------------------------------
(* Every step keeps the types                                              *)

LEMMA TypeStep ==
    ASSUME TypeOK, NextIsFresh, Next
    PROVE  TypeOK'
<1>a. /\ N \in Nat /\ N > 0 /\ MaxWorkers \in Nat /\ MaxWorkers > 0
      /\ Epochs \in Nat /\ Epochs > 0 /\ MaxTiers \in Nat
  BY CountsAssumption, BoundAssumption
<1>b. next \in 1 .. N + 1 /\ left \in 0 .. N /\ tiers \in 0 .. MaxTiers
  BY DEF TypeOK
<1>c. (next <= N => next \in Scenario /\ next + 1 \in 1 .. N + 1) /\ 1 \in 1 .. N + 1
  BY <1>a, <1>b DEF Scenario
<1>1. CASE TierStarts
  <2>1. tiers' \in 0 .. MaxTiers
    BY <1>1, <1>a, <1>b DEF TierStarts
  <2>2. pc' \in {"serial", "submit", "refused", "blocked"} /\ jobs' \in 1 .. MaxWorkers
    BY <1>1 DEF TierStarts
  <2> QED BY <1>1, <2>1, <2>2 DEF TypeOK, TierStarts, Answered, FutureStates
<1>2. CASE ProcessEnds
  <2>1. /\ next' \in 1 .. N + 1 /\ left' \in 0 .. N /\ late' \in Nat
        /\ epoch' \in [Scenario -> 0 .. Epochs]
    BY <1>2, <1>a DEF ProcessEnds
  <2> QED BY <1>2, <2>1 DEF TypeOK, ProcessEnds, Answered, FutureStates
<1>3. CASE Interrupted
  BY <1>3 DEF TypeOK, Interrupted, Answered
<1>4. CASE RunNext
  <2>1. next \in Scenario /\ next + 1 \in 1 .. N + 1
    BY <1>4, <1>c DEF RunNext
  <2> QED BY <1>4, <2>1 DEF TypeOK, RunNext, Answered, FutureStates
<1>5. CASE SerialEnds
  <2>1. Failed \subseteq Scenario
    BY DEF Failed
  <2> QED BY <1>5, <2>1 DEF TypeOK, SerialEnds, Answered
<1>6. CASE SubmitFirst
  <2>1. next \in Scenario /\ next + 1 \in 1 .. N + 1
    <3>1. next <= Workers
      BY <1>6 DEF SubmitFirst, NextIsFresh
    <3>2. Workers \in 1 .. N
      BY WorkersCount DEF TypeOK
    <3> QED BY <3>1, <3>2, <1>a, <1>b, <1>c
  <2> QED BY <1>6, <2>1 DEF TypeOK, SubmitFirst, Submit, Answered, FutureStates
<1>7. CASE Collect
  <2>1. Completed \subseteq Scenario /\ Errors \subseteq Completed
    BY DEF TypeOK, Completed, Errors
  <2>2. Cardinality(Completed) \in 0 .. N
    BY <2>1, SetsOfScenarios
  <2>3. Errors # {} => Least(Errors) \in Scenario
    BY <2>1, LeastIsMember
  <2> QED BY <1>7, <2>1, <2>2, <2>3 DEF TypeOK, Collect, Answered
<1>8. CASE Replace
  <2>1. next \in Scenario /\ next + 1 \in 1 .. N + 1
    BY <1>8, <1>c DEF Replace
  <2>2. left - 1 \in 0 .. N
    BY <1>8, <1>a, <1>b DEF Replace
  <2> QED BY <1>8, <2>1, <2>2 DEF TypeOK, Replace, Submit, Answered, FutureStates
<1>9. CASE Replenished
  <2>1. left' \in 0 .. N
    BY <1>9, <1>a DEF Replenished
  <2> QED BY <1>9, <2>1 DEF TypeOK, Replenished, Answered
<1>10. CASE \E i \in Scenario : CancelFuture(i)
  <2>1. PICK i \in Scenario : CancelFuture(i)
    BY <1>10
  <2> QED BY <2>1 DEF TypeOK, CancelFuture, Answered, FutureStates
<1>11. CASE ShutDown
  <2>1. Failed \subseteq Scenario
    BY DEF Failed
  <2> QED BY <1>11, <2>1 DEF TypeOK, ShutDown, Answered
<1>12. CASE \E i \in Scenario : Work(i)
  <2>1. PICK i \in Scenario : Work(i)
    BY <1>12
  <2>2. CASE WorkerStarts(i)
    <3>1. late' \in Nat
      <4>1. late \in Nat
        BY DEF TypeOK
      <4> QED BY <2>2, <4>1 DEF WorkerStarts
    <3> QED BY <2>2, <3>1 DEF TypeOK, WorkerStarts, coordinator, Answered, FutureStates
  <2>3. CASE ScenarioFails(i) \/ BundleRefused(i) \/ ScenarioSucceeds(i)
    BY <2>3 DEF TypeOK, ScenarioFails, BundleRefused, ScenarioSucceeds,
                coordinator, Answered, FutureStates
  <2>4. CASE SessionRuns(i)
    BY <2>4 DEF TypeOK, SessionRuns, coordinator, Answered
  <2>5. CASE BundleBegins(i) \/ BundleEnds(i)
    <3>1. epoch[i] \in 0 .. Epochs /\ epoch[i] < Epochs
      BY <2>5 DEF TypeOK, BundleBegins, BundleEnds, RunsEpoch
    <3>2. ThisEpoch(i) \in Epoch /\ epoch[i] + 1 \in 0 .. Epochs
      BY <3>1, <1>a DEF ThisEpoch, Epoch
    <3>3. bundle' \in [Scenario -> [Epoch -> BundleStates]]
      <4>1. CASE BundleBegins(i)
        BY <4>1 DEF TypeOK, BundleBegins, BundleStates
      <4>2. CASE BundleEnds(i)
        BY <4>2 DEF TypeOK, BundleEnds, BundleStates
      <4> QED BY <2>5, <4>1, <4>2
    <3>4. epoch' \in [Scenario -> 0 .. Epochs] /\ session' \in [Scenario -> BOOLEAN]
      BY <2>5, <3>2 DEF TypeOK, BundleBegins, BundleEnds
    <3> QED BY <2>5, <3>3, <3>4 DEF TypeOK, BundleBegins, BundleEnds, coordinator, Answered
  <2>6. CASE \E e \in Epoch : Requalify(i, e) \/ Redigest(i, e)
    <3>1. PICK e \in Epoch : Requalify(i, e) \/ Redigest(i, e)
      BY <2>6
    <3>2. bundle' \in [Scenario -> [Epoch -> BundleStates]]
      <4>1. CASE Requalify(i, e)
        BY <4>1 DEF TypeOK, Requalify, BundleStates
      <4>2. CASE Redigest(i, e)
        BY <4>2 DEF TypeOK, Redigest, BundleStates
      <4> QED BY <3>1, <4>1, <4>2
    <3> QED BY <3>1, <3>2 DEF TypeOK, Requalify, Redigest, coordinator, Answered
  <2> QED BY <2>1, <2>2, <2>3, <2>4, <2>5, <2>6 DEF Work
<1>13. CASE \E i \in Scenario, e \in Epoch : AnotherRetains(i, e)
  <2>1. PICK i \in Scenario, e \in Epoch : AnotherRetains(i, e)
    BY <1>13
  <2> QED BY <2>1 DEF TypeOK, AnotherRetains, coordinator, Answered, BundleStates
<1> QED BY <1>1, <1>2, <1>3, <1>4, <1>5, <1>6, <1>7, <1>8, <1>9, <1>10,
           <1>11, <1>12, <1>13 DEF Next, Coordinate
-----------------------------------------------------------------------------
(* What the steps do to the sets of futures                                *)

LEMMA IdleHasNone ==
    ASSUME TypeOK, NextIsFresh, pc \in Idle
    PROVE  Failed = {} /\ Pending = {} /\ Running = {} /\ futures = {}
<1>1. next = 1 /\ \A i \in Scenario : i >= 1
  BY CountsAssumption DEF NextIsFresh, Scenario
<1>2. \A i \in Scenario : future[i] = "none"
  BY <1>1 DEF NextIsFresh
<1>3. futures = {}
  <2> SUFFICES ASSUME NEW i \in futures PROVE FALSE
    OBVIOUS
  <2>1. i \in Scenario /\ i < 1
    BY <1>1 DEF TypeOK, NextIsFresh
  <2>2. i \in Nat /\ i >= 1
    BY <2>1, CountsAssumption DEF Scenario
  <2> QED BY <2>1, <2>2
<1> QED BY <1>2, <1>3 DEF Failed, Pending, Running

LEMMA Submitted ==
    ASSUME TypeOK, NextIsFresh, next <= N, Submit
    PROVE  /\ next \in Scenario /\ next \notin futures
           /\ next' = next + 1 /\ futures' = futures \cup {next}
           /\ \A i \in Scenario : i >= next' => future'[i] = "none"
           /\ \A i \in futures' : i < next'
           /\ next \notin Pending /\ Pending' = Pending \cup {next}
           /\ Failed' = Failed /\ Running' = Running
<1>1. /\ N \in Nat /\ next \in 1 .. N + 1 /\ Scenario = 1 .. N
      /\ futures \subseteq Scenario /\ future \in [Scenario -> FutureStates]
  BY CountsAssumption DEF TypeOK, Scenario
<1>2. next \in Scenario /\ future[next] = "none"
  BY <1>1 DEF NextIsFresh
<1>3. /\ next' = next + 1 /\ futures' = futures \cup {next}
      /\ \A i \in Scenario : future'[i] = IF i = next THEN "pending" ELSE future[i]
  BY <1>1, <1>2 DEF Submit
<1>4. next \notin futures
  BY <1>1 DEF NextIsFresh
<1>5. \A i \in Scenario : i >= next' => future'[i] = "none"
  BY <1>1, <1>3 DEF NextIsFresh
<1>6. \A i \in futures' : i < next'
  <2> SUFFICES ASSUME NEW i \in futures' PROVE i < next'
    OBVIOUS
  <2>1. CASE i = next
    BY <2>1, <1>1, <1>3
  <2>2. CASE i \in futures
    BY <2>2, <1>1, <1>3 DEF NextIsFresh
  <2> QED BY <2>1, <2>2, <1>3
<1>7. next \notin Pending /\ Pending' = Pending \cup {next}
  BY <1>2, <1>3 DEF Pending
<1>8. Failed' = Failed /\ Running' = Running
  BY <1>2, <1>3 DEF Failed, Running
<1> QED BY <1>2, <1>3, <1>4, <1>5, <1>6, <1>7, <1>8

LEMMA WorkerSets ==
    ASSUME TypeOK, NEW i \in Scenario, Work(i)
    PROVE  /\ UNCHANGED <<coordinator, tiers>>
           /\ \A j \in Scenario : future[j] = "none" => future'[j] = "none"
           /\ \/ /\ UNCHANGED late
                 /\ Pending' = Pending /\ Running' = Running /\ Failed' = Failed
              \/ /\ i \in Pending /\ late' = IF Failed = {} THEN late ELSE late + 1
                 /\ Pending' = Pending \ {i} /\ Running' = Running \cup {i}
                 /\ Failed' = Failed
              \/ /\ i \in Running /\ UNCHANGED late
                 /\ Pending' = Pending /\ Running' = Running \ {i}
                 /\ Failed' \in {Failed, Failed \cup {i}}
<1>1. /\ future \in [Scenario -> FutureStates]
      /\ UNCHANGED <<coordinator, tiers>>
  BY WorkerMoves DEF TypeOK
<1>2. CASE UNCHANGED <<future, late>>
  BY <1>1, <1>2 DEF Pending, Running, Failed
<1>3. CASE /\ future[i] = "pending"
           /\ future' = [future EXCEPT ![i] = "running"]
           /\ late' = IF Failed = {} THEN late ELSE late + 1
  <2>1. \A j \in Scenario : future'[j] = IF j = i THEN "running" ELSE future[j]
    BY <1>1, <1>3
  <2>2. i \in Pending /\ Pending' = Pending \ {i}
    BY <1>3, <2>1 DEF Pending
  <2>3. Running' = Running \cup {i} /\ Failed' = Failed
    BY <1>3, <2>1 DEF Running, Failed
  <2>4. \A j \in Scenario : future[j] = "none" => future'[j] = "none"
    BY <1>3, <2>1
  <2> QED BY <1>1, <1>3, <2>2, <2>3, <2>4
<1>4. ASSUME future[i] = "running", UNCHANGED late, NEW end \in {"ok", "failed"},
             future' = [future EXCEPT ![i] = end]
      PROVE  /\ \A j \in Scenario : future[j] = "none" => future'[j] = "none"
             /\ i \in Running /\ Pending' = Pending /\ Running' = Running \ {i}
             /\ Failed' \in {Failed, Failed \cup {i}}
  <2>1. \A j \in Scenario : future'[j] = IF j = i THEN end ELSE future[j]
    BY <1>1, <1>4
  <2>2. i \in Running /\ Pending' = Pending /\ Running' = Running \ {i}
    BY <1>4, <2>1 DEF Pending, Running
  <2>3. CASE end = "ok"
    BY <1>4, <2>1, <2>2, <2>3 DEF Failed
  <2>4. CASE end = "failed"
    BY <1>4, <2>1, <2>2, <2>4 DEF Failed
  <2> QED BY <2>3, <2>4
<1> QED BY <1>1, <1>2, <1>3, <1>4, WorkerMoves
-----------------------------------------------------------------------------
(* Every step keeps the order of submission                                *)

LEMMA FreshStep ==
    ASSUME TypeOK, NextIsFresh, Next
    PROVE  NextIsFresh'
<1>a. N \in Nat /\ next \in 1 .. N + 1 /\ Workers \in 1 .. N
  BY CountsAssumption, WorkersCount DEF TypeOK
(* A step that submits nothing and does not go back to the beginning.      *)
<1>b. ASSUME next' = next, futures' \subseteq futures,
             \A i \in Scenario : future[i] = "none" => future'[i] = "none",
             \/ UNCHANGED <<pc, jobs, futures>>
             \/ pc' \notin Idle \cup {"submit"}
      PROVE  NextIsFresh'
  BY <1>b DEF NextIsFresh, Workers
<1>1. CASE TierStarts
  <2>1. pc = "down" /\ next' = next /\ futures' = futures /\ future' = future
    BY <1>1 DEF TierStarts
  <2>2. next = 1 /\ futures = {}
    BY <2>1, IdleHasNone DEF NextIsFresh, Idle
  <2>3. jobs' \in 1 .. MaxWorkers
    BY <1>1 DEF TierStarts
  <2>4. 1 <= Workers'
    BY <2>3, CountsAssumption DEF Workers
  <2>5. 1 .. next' - 1 = {}
    BY <2>1, <2>2
  <2> QED BY <2>1, <2>2, <2>4, <2>5 DEF NextIsFresh
<1>2. CASE ProcessEnds
  BY <1>2 DEF ProcessEnds, NextIsFresh
<1>3. CASE Interrupted
  BY <1>3, <1>b DEF Interrupted, Idle
<1>4. CASE RunNext
  <2>1. /\ next' = next + 1 /\ futures' = futures /\ pc' = "serial"
        /\ \A i \in Scenario : i # next => future'[i] = future[i]
    BY <1>4 DEF RunNext, TypeOK
  <2>2. \A i \in Scenario : i \in Nat
    BY CountsAssumption DEF Scenario
  <2>3. \A i \in Scenario : i >= next' => future'[i] = "none"
    BY <1>a, <2>1, <2>2 DEF NextIsFresh
  <2>4. \A i \in futures' : i < next'
    <3> SUFFICES ASSUME NEW i \in futures' PROVE i < next'
      OBVIOUS
    <3>1. i \in Scenario /\ i < next
      BY <2>1 DEF NextIsFresh, TypeOK
    <3> QED BY <1>a, <2>1, <2>2, <3>1
  <2> QED BY <2>1, <2>3, <2>4 DEF NextIsFresh, Idle
<1>5. CASE SerialEnds
  BY <1>5, <1>b DEF SerialEnds, Idle
<1>6. CASE SubmitFirst
  <2>1. next <= Workers /\ futures = 1 .. next - 1 /\ jobs' = jobs
    BY <1>6 DEF SubmitFirst, NextIsFresh
  <2>2. next <= N /\ Submit
    BY <1>6, <1>a, <2>1 DEF SubmitFirst
  <2>3. futures' = 1 .. next' - 1
    <3>1. next' = next + 1 /\ futures' = (1 .. next - 1) \cup {next}
      BY <2>1, <2>2, Submitted
    <3>2. next' - 1 = next
      BY <1>a, <3>1
    <3>3. (1 .. next - 1) \cup {next} = 1 .. next
      BY <1>a
    <3> QED BY <3>1, <3>2, <3>3
  <2>4. pc' = "submit" => next' <= Workers'
    BY <1>6, <1>a, <2>1, <2>2, Submitted DEF SubmitFirst, Workers
  <2>5. pc' \notin Idle
    BY <1>6 DEF SubmitFirst, Idle
  <2> QED BY <2>2, <2>3, <2>4, <2>5, Submitted DEF NextIsFresh
<1>7. CASE Collect
  BY <1>7, <1>b DEF Collect, Idle
<1>8. CASE Replace
  <2>1. pc' = "replenish" /\ next <= N /\ Submit
    BY <1>8 DEF Replace
  <2> QED BY <2>1, Submitted DEF NextIsFresh, Idle
<1>9. CASE Replenished
  BY <1>9, <1>b DEF Replenished, Idle
<1>10. CASE \E i \in Scenario : CancelFuture(i)
  <2>1. PICK i \in Scenario : CancelFuture(i)
    BY <1>10
  <2>2. \A j \in Scenario : future[j] = "none" => future'[j] = "none"
    BY <2>1 DEF CancelFuture, TypeOK
  <2> QED BY <1>b, <2>1, <2>2 DEF CancelFuture
<1>11. CASE ShutDown
  BY <1>11, <1>b DEF ShutDown, Idle
<1>12. CASE \E i \in Scenario : Work(i)
  <2>1. PICK i \in Scenario : Work(i)
    BY <1>12
  <2> QED BY <1>b, <2>1, WorkerSets DEF coordinator
<1>13. CASE \E i \in Scenario, e \in Epoch : AnotherRetains(i, e)
  BY <1>13, <1>b DEF AnotherRetains, coordinator
<1> QED BY <1>1, <1>2, <1>3, <1>4, <1>5, <1>6, <1>7, <1>8, <1>9, <1>10,
           <1>11, <1>12, <1>13 DEF Next, Coordinate
-----------------------------------------------------------------------------
(* Every step keeps hold of the failures                                   *)

LEMMA FailuresStep ==
    ASSUME TypeOK, NextIsFresh, FailuresHeld, Next
    PROVE  FailuresHeld'
<1> USE DEF Pool, Idle, Answered
<1>a. futures \subseteq Scenario /\ Interrupt \notin Scenario
  BY CountsAssumption DEF TypeOK, Scenario, Interrupt
<1>b. Pending \cap Running = {} /\ Pending \cap Failed = {} /\ Running \cap Failed = {}
  BY DEF Pending, Running, Failed
<1>1. CASE TierStarts
  <2>1. /\ pc = "down" /\ UNCHANGED <<future, futures, primary, notes>>
        /\ pc' \in {"blocked", "refused", "serial", "submit"}
    BY <1>1 DEF TierStarts
  <2>2. Failed' = {} /\ Pending' = {} /\ Running' = {}
    BY <2>1, IdleHasNone DEF Failed, Pending, Running
  <2> QED BY <2>1, <2>2 DEF FailuresHeld
<1>2. CASE ProcessEnds
  <2>1. Failed' = {} /\ Pending' = {} /\ Running' = {}
    BY <1>2 DEF ProcessEnds, Failed, Pending, Running
  <2> QED BY <1>2, <2>1 DEF ProcessEnds, FailuresHeld
<1>3. CASE Interrupted
  <2>1. Failed' = Failed /\ Pending' = Pending /\ Running' = Running
    BY <1>3 DEF Interrupted, Failed, Pending, Running
  <2> QED BY <1>3, <1>a, <2>1 DEF Interrupted, FailuresHeld
<1>4. CASE RunNext
  <2>1. Running = {} /\ Failed = {} /\ Pending = {}
    BY <1>4 DEF RunNext, FailuresHeld
  <2>2. \A i \in Scenario : i # next => future'[i] = future[i]
    BY <1>4 DEF RunNext, TypeOK
  <2>3. next \in Scenario => future'[next] = "running"
    BY <1>4 DEF RunNext, TypeOK
  <2>4. Failed' = {} /\ Pending' = {} /\ Running' \subseteq {next}
    BY <2>1, <2>2, <2>3 DEF Failed, Pending, Running
  <2> QED BY <1>4, <2>4 DEF RunNext, FailuresHeld
<1>5. CASE SerialEnds
  <2>1. Failed' = Failed /\ Pending' = Pending /\ Running' = Running
    BY <1>5 DEF SerialEnds, Failed, Pending, Running
  <2>2. Running = {} /\ Pending = {} /\ notes = {}
    BY <1>5 DEF SerialEnds, FailuresHeld
  <2>3. CASE pc' = "returned"
    BY <2>1, <2>2, <2>3 DEF FailuresHeld
  <2>4. CASE pc' = "raised"
    <3>1. Failed # {} /\ primary' = Failed /\ notes' = notes
      BY <1>5, <2>4 DEF SerialEnds
    <3>2. \A i, j \in Failed : i = j
      BY <1>5 DEF SerialEnds, FailuresHeld
    <3>3. \E x \in primary' : primary' = {x}
      BY <3>1, <3>2
    <3> QED BY <2>1, <2>2, <2>4, <3>1, <3>3 DEF FailuresHeld
  <2> QED BY <1>5, <2>3, <2>4 DEF SerialEnds
<1>6. CASE SubmitFirst \/ Replace
  <2>1. /\ next <= N /\ Submit /\ pc \in Pool /\ pc' \in Pool
        /\ UNCHANGED <<primary, notes>>
    <3>1. CASE SubmitFirst
      <4>1. Workers \in 1 .. N /\ N \in Nat /\ next \in 1 .. N + 1
        BY CountsAssumption, WorkersCount DEF TypeOK
      <4>2. next <= Workers
        BY <3>1 DEF SubmitFirst, NextIsFresh
      <4>3. next <= N
        BY <4>1, <4>2
      <4> QED BY <3>1, <4>3 DEF SubmitFirst
    <3>2. CASE Replace
      BY <3>2 DEF Replace
    <3> QED BY <1>6, <3>1, <3>2
  <2>2. /\ Failed' = Failed /\ Running' = Running
        /\ Pending' = Pending \cup {next} /\ futures' = futures \cup {next}
    BY <2>1, Submitted
  <2> QED BY <2>1, <2>2 DEF FailuresHeld
<1>7. CASE Collect
  <2>1. /\ Failed' = Failed /\ Pending' = Pending /\ Running' = Running
        /\ pc = "wait" /\ futures' = futures \ Completed
    BY <1>7 DEF Collect, Failed, Pending, Running
  <2>2. Errors = Failed /\ Failed \subseteq Completed
    BY <2>1 DEF FailuresHeld, Errors, Completed, Failed
  <2>3. Pending' \cup Running' \subseteq futures'
    BY <2>1 DEF FailuresHeld, Completed, Pending, Running
  <2>4. CASE Errors = {}
    <3>1. pc' = "replenish" /\ UNCHANGED <<primary, notes>>
      BY <1>7, <2>4 DEF Collect
    <3> QED BY <2>1, <2>2, <2>3, <2>4, <3>1 DEF FailuresHeld
  <2>5. CASE Errors # {}
    <3>1. pc' = "cancel" /\ primary' = {Least(Errors)} /\ notes' = Errors \ primary'
      BY <1>7, <2>5 DEF Collect
    <3>2. Least(Errors) \in Errors
      BY <2>5, LeastIsMember DEF Errors, Failed
    <3>3. primary' \cup notes' = Errors /\ primary' \cap notes' = {}
      BY <3>1, <3>2
    <3>4. \E x \in primary' : primary' = {x}
      BY <3>1
    <3>5. futures' \cap Errors = {}
      BY <2>1, <2>2
    <3> QED BY <2>1, <2>2, <2>3, <3>1, <3>3, <3>4, <3>5 DEF FailuresHeld
  <2> QED BY <2>4, <2>5
<1>8. CASE Replenished
  <2>1. Failed' = Failed /\ Pending' = Pending /\ Running' = Running
    BY <1>8 DEF Replenished, Failed, Pending, Running
  <2> QED BY <1>8, <2>1 DEF Replenished, FailuresHeld
<1>9. CASE \E i \in Scenario : CancelFuture(i)
  <2>1. PICK i \in Scenario : CancelFuture(i)
    BY <1>9
  <2>2. \A j \in Scenario : \/ future'[j] = future[j]
                            \/ future[j] = "pending" /\ future'[j] = "cancelled"
    BY <2>1 DEF CancelFuture, TypeOK
  <2>3. Failed' = Failed /\ Pending' \subseteq Pending /\ Running' = Running
    BY <2>2 DEF Failed, Pending, Running
  <2> QED BY <2>1, <2>3 DEF CancelFuture, FailuresHeld
<1>10. CASE ShutDown
  <2>1. Failed' = Failed /\ Pending' = Pending /\ Running' = Running
    BY <1>10 DEF ShutDown, Failed, Pending, Running
  <2>2. /\ pc = "cancel" /\ pc' = "raised" /\ Pending \cup Running = {}
        /\ primary' = primary /\ notes' = notes \cup (futures \cap Failed)
    BY <1>10 DEF ShutDown
  <2> QED BY <2>1, <2>2 DEF FailuresHeld
<1>11. CASE \E i \in Scenario : Work(i)
  <2>1. PICK i \in Scenario : Work(i)
    BY <1>11
  <2>2. UNCHANGED <<pc, futures, primary, notes>>
    BY <2>1, WorkerSets DEF coordinator
  <2>3. CASE Pending' = Pending /\ Running' = Running /\ Failed' = Failed
    BY <2>2, <2>3 DEF FailuresHeld
  <2>4. CASE /\ i \in Pending
             /\ Pending' = Pending \ {i} /\ Running' = Running \cup {i}
             /\ Failed' = Failed
    BY <2>2, <2>4 DEF FailuresHeld
  <2>5. CASE /\ i \in Running
             /\ Pending' = Pending /\ Running' = Running \ {i}
             /\ Failed' \in {Failed, Failed \cup {i}}
    <3>1. pc \notin Answered \cup {"down"}
      BY <2>5 DEF FailuresHeld
    <3>2. pc \in Pool \cup {"cancel", "serial"}
      BY <3>1 DEF TypeOK
    <3> QED BY <2>2, <2>5, <3>1, <3>2 DEF FailuresHeld
  <2> QED BY <2>1, <2>3, <2>4, <2>5, WorkerSets
<1>12. CASE \E i \in Scenario, e \in Epoch : AnotherRetains(i, e)
  <2>1. UNCHANGED <<pc, future, futures, primary, notes>>
    BY <1>12 DEF AnotherRetains, coordinator
  <2>2. Failed' = Failed /\ Pending' = Pending /\ Running' = Running
    BY <2>1 DEF Failed, Pending, Running
  <2> QED BY <2>1, <2>2 DEF FailuresHeld
<1> QED BY <1>1, <1>2, <1>3, <1>4, <1>5, <1>6, <1>7, <1>8, <1>9, <1>10,
           <1>11, <1>12 DEF Next, Coordinate
-----------------------------------------------------------------------------
(* Every step keeps the slack                                              *)

LEMMA SlackStep ==
    ASSUME TypeOK, NextIsFresh, FailuresHeld, Slack, Next
    PROVE  Slack'
<1> USE DEF Pool, Idle
<1>a. /\ Workers \in Nat /\ Workers >= 1 /\ late \in Nat /\ left \in Nat /\ next \in Nat
      /\ IsFiniteSet(futures) /\ Cardinality(futures) \in Nat
      /\ IsFiniteSet(Pending) /\ Cardinality(Pending) \in Nat
  <2>1. futures \subseteq Scenario /\ Pending \subseteq Scenario
    BY DEF TypeOK, Pending
  <2>2. Workers \in 1 .. N /\ N \in Nat
    BY WorkersCount DEF TypeOK
  <2>3. late \in Nat /\ left \in 0 .. N /\ next \in 1 .. N + 1
    BY DEF TypeOK
  <2>4. Workers \in Nat /\ Workers >= 1 /\ left \in Nat /\ next \in Nat
    BY <2>2, <2>3
  <2>5. \A n \in 0 .. N : n \in Nat
    BY <2>2
  <2> QED BY <2>1, <2>3, <2>4, <2>5, SetsOfScenarios
<1>1. CASE TierStarts
  <2>1. /\ pc = "down" /\ UNCHANGED <<future, futures, next, late>>
        /\ pc' \in {"blocked", "refused", "serial", "submit"}
        /\ jobs' \in 1 .. MaxWorkers
    BY <1>1 DEF TierStarts
  <2>2. Failed' = {} /\ futures' = {} /\ late' = 0 /\ next' = 1
    BY <2>1, IdleHasNone DEF Failed, Slack, NextIsFresh
  <2>3. Workers' \in Nat
    BY <2>1, CountsAssumption DEF Workers
  <2>4. pc' = "submit" => Reserve' = Workers'
    <3>1. pc' = "submit" => Reserve' = Workers' - next' + 1
      BY DEF Reserve
    <3>2. \A w \in Nat : w - 1 + 1 = w
      OBVIOUS
    <3>3. Workers' - next' + 1 = Workers'
      BY <2>2, <2>3, <3>2
    <3> QED BY <3>1, <3>3
  <2> QED BY <2>1, <2>2, <2>3, <2>4, FS_EmptySet DEF Slack
<1>2. CASE ProcessEnds
  BY <1>2 DEF ProcessEnds, Slack, Failed
<1>3. CASE Interrupted \/ ShutDown \/ SerialEnds
  <2>1. /\ UNCHANGED <<future, futures, late, jobs>> /\ pc' \notin Pool \cup Idle \cup {"serial"}
        /\ pc \in {"wait", "cancel", "serial"}
        /\ pc' = "cancel" => pc = "wait"
    BY <1>3 DEF Interrupted, ShutDown, SerialEnds
  <2>2. Failed' = Failed /\ Pending' = Pending /\ Workers' = Workers
    BY <2>1 DEF Failed, Pending, Workers
  <2>3. Reserve = 0 /\ Reserve' = 0
    BY <2>1 DEF Reserve
  <2> QED BY <2>1, <2>2, <2>3 DEF Slack
<1>4. CASE RunNext
  <2>1. Failed' = {}
    BY <1>4 DEF RunNext, TypeOK, Failed
  <2> QED BY <1>4, <2>1 DEF RunNext, Slack
<1>5. CASE SubmitFirst \/ Replace
  <2>1. /\ Submit /\ UNCHANGED <<late, jobs>> /\ pc \in Pool /\ pc' \in Pool
        /\ next <= N /\ Reserve' = Reserve - 1
    <3>1. CASE SubmitFirst
      <4>1. next <= Workers /\ Workers \in 1 .. N /\ N \in Nat
        BY <3>1, WorkersCount DEF SubmitFirst, NextIsFresh, TypeOK
      <4>2. next' = next + 1 /\ Workers' = Workers /\ Reserve = Workers - next + 1
        BY <3>1 DEF SubmitFirst, Submit, Workers, Reserve
      <4>3. CASE next = Workers
        <5>1. pc' = "wait" /\ Reserve' = 0
          BY <3>1, <4>3 DEF SubmitFirst, Reserve
        <5> QED BY <3>1, <4>1, <4>2, <4>3, <5>1, <1>a DEF SubmitFirst
      <4>4. CASE next # Workers
        <5>1. pc' = "submit" /\ Reserve' = Workers' - next' + 1
          BY <3>1, <4>4 DEF SubmitFirst, Reserve
        <5> QED BY <3>1, <4>1, <4>2, <5>1, <1>a DEF SubmitFirst
      <4> QED BY <4>3, <4>4
    <3>2. CASE Replace
      BY <3>2 DEF Replace, Reserve
    <3> QED BY <1>5, <3>1, <3>2
  <2>2. /\ next \notin futures /\ futures' = futures \cup {next}
        /\ next \notin Pending /\ Pending' = Pending \cup {next}
        /\ Failed' = Failed
    BY <2>1, Submitted
  <2>3. /\ Cardinality(futures') = Cardinality(futures) + 1
        /\ Cardinality(Pending') = Cardinality(Pending) + 1
    BY <2>2, <1>a, FS_AddElement
  <2>4. Reserve \in Int /\ Workers' = Workers
    BY <2>1, <1>a DEF Reserve, Workers
  <2> QED BY <1>a, <2>1, <2>2, <2>3, <2>4 DEF Slack
<1>6. CASE Collect
  <2>1. /\ Failed' = Failed /\ Pending' = Pending /\ Workers' = Workers
        /\ pc = "wait" /\ futures' = futures \ Completed /\ late' = late
    BY <1>6 DEF Collect, Failed, Pending, Workers
  <2>2. Errors = Failed
    BY <2>1 DEF FailuresHeld, Errors, Completed, Failed
  <2>3. Reserve = 0 /\ Cardinality(futures) <= Workers
    BY <2>1, <1>a DEF Reserve, Slack
  <2>4. Completed \subseteq futures
    BY DEF Completed
  <2>5. /\ IsFiniteSet(Completed) /\ Cardinality(Completed) \in Nat
        /\ IsFiniteSet(futures') /\ Cardinality(futures') \in Nat
        /\ Cardinality(futures') = Cardinality(futures) - Cardinality(Completed)
    <3>1. futures \cap Completed = Completed
      BY <2>4
    <3>2. IsFiniteSet(Completed) /\ Cardinality(Completed) \in Nat
      BY <1>a, <2>4, FS_Subset, FS_CardinalityType
    <3>3. /\ IsFiniteSet(futures \ Completed)
          /\ Cardinality(futures \ Completed)
             = Cardinality(futures) - Cardinality(futures \cap Completed)
      BY <1>a, FS_Difference
    <3>4. Cardinality(futures \ Completed) \in Nat
      BY <3>3, FS_CardinalityType
    <3> QED BY <2>1, <3>1, <3>2, <3>3, <3>4
  <2>6. CASE Errors = {}
    <3>1. pc' = "replenish" /\ left' = Cardinality(Completed)
      BY <1>6, <2>6 DEF Collect
    <3>2. Reserve' = Cardinality(Completed)
      BY <3>1 DEF Reserve
    <3> QED BY <1>a, <2>1, <2>2, <2>3, <2>5, <2>6, <3>1, <3>2 DEF Slack
  <2>7. CASE Errors # {}
    <3>1. pc' = "cancel"
      BY <1>6, <2>7 DEF Collect
    <3>2. Reserve' = 0
      BY <3>1 DEF Reserve
    <3> QED BY <1>a, <2>1, <2>2, <2>3, <2>5, <2>7, <3>1, <3>2 DEF Slack
  <2> QED BY <2>6, <2>7
<1>7. CASE Replenished
  <2>1. /\ Failed' = Failed /\ Pending' = Pending /\ Workers' = Workers
        /\ pc = "replenish" /\ pc' \in {"returned", "wait"}
        /\ UNCHANGED <<futures, late>>
    BY <1>7 DEF Replenished, Failed, Pending, Workers
  <2>2. Reserve = left /\ Reserve' = 0
    BY <2>1 DEF Reserve
  <2> QED BY <1>a, <2>1, <2>2 DEF Slack
<1>8. CASE \E i \in Scenario : CancelFuture(i)
  <2>1. PICK i \in Scenario : CancelFuture(i)
    BY <1>8
  <2>2. /\ pc = "cancel" /\ pc' = "cancel" /\ UNCHANGED <<futures, late>>
        /\ Workers' = Workers /\ Reserve = 0 /\ Reserve' = 0
    BY <2>1 DEF CancelFuture, Workers, Reserve
  <2>3. \A j \in Scenario : \/ future'[j] = future[j]
                            \/ future[j] = "pending" /\ future'[j] = "cancelled"
    BY <2>1 DEF CancelFuture, TypeOK
  <2>4. Failed' = Failed /\ Pending' \subseteq Pending
    BY <2>3 DEF Failed, Pending
  <2>5. Cardinality(Pending') \in Nat /\ Cardinality(Pending') <= Cardinality(Pending)
    BY <1>a, <2>4, FS_Subset, FS_CardinalityType
  <2> QED BY <1>a, <2>2, <2>4, <2>5 DEF Slack
<1>9. CASE \E i \in Scenario : Work(i)
  <2>1. PICK i \in Scenario : Work(i)
    BY <1>9
  <2>2. UNCHANGED <<pc, futures>> /\ Workers' = Workers /\ Reserve' = Reserve
    BY <2>1, WorkerSets DEF coordinator, Workers, Reserve
  <2>3. CASE UNCHANGED late /\ Pending' = Pending /\ Failed' = Failed
    BY <2>2, <2>3 DEF Slack
  <2>4. CASE /\ i \in Pending /\ late' = IF Failed = {} THEN late ELSE late + 1
             /\ Pending' = Pending \ {i} /\ Failed' = Failed
    <3>1. Cardinality(Pending') = Cardinality(Pending) - 1
      BY <1>a, <2>4, FS_RemoveElement
    <3>2. pc \notin Idle \cup {"serial"}
      BY <2>4 DEF FailuresHeld, Answered
    <3>3. Reserve \in Int
      BY <1>a DEF Reserve
    <3> QED BY <1>a, <2>2, <2>4, <3>1, <3>2, <3>3 DEF Slack
  <2>5. CASE /\ i \in Running /\ UNCHANGED late /\ Pending' = Pending
             /\ Failed' \in {Failed, Failed \cup {i}}
    <3>1. CASE Failed # {}
      BY <2>2, <2>5, <3>1 DEF Slack
    <3>2. CASE Failed = {}
      <4>1. late = 0 /\ late' = 0
        BY <2>5, <3>2 DEF Slack
      <4>2. pc \in Pool \cup {"cancel", "serial"}
        BY <2>5 DEF TypeOK, FailuresHeld, Answered
      <4>3. Cardinality(Pending) + Reserve < Workers
        <5>1. CASE pc = "serial"
          <6>1. Cardinality(Pending) = 0 /\ Reserve = 0
            BY <5>1, FS_EmptySet DEF FailuresHeld, Reserve
          <6> QED BY <1>a, <6>1
        <5>2. CASE pc \in Pool \cup {"cancel"}
          <6>1. Pending \cup {i} \subseteq futures /\ i \notin Pending
            BY <2>5, <5>2 DEF FailuresHeld, Pending, Running
          <6>2. Cardinality(Pending \cup {i}) = Cardinality(Pending) + 1
            BY <1>a, <6>1, FS_AddElement
          <6>3. Cardinality(Pending \cup {i}) <= Cardinality(futures)
            BY <1>a, <6>1, FS_Subset
          <6>4. Cardinality(futures) + Reserve <= Workers /\ Reserve \in Int
            BY <1>a, <5>2 DEF Slack, Reserve
          <6> QED BY <1>a, <6>2, <6>3, <6>4
        <5> QED BY <4>2, <5>1, <5>2
      <4>4. Failed' # {} => late' + Cardinality(Pending') + Reserve' < Workers'
        <5>1. Reserve \in Int
          BY <1>a DEF Reserve
        <5> QED BY <1>a, <2>2, <2>5, <4>1, <4>3, <5>1
      <4> QED BY <2>2, <4>1, <4>4 DEF Slack
    <3> QED BY <3>1, <3>2
  <2> QED BY <2>1, <2>3, <2>4, <2>5, WorkerSets
<1>10. CASE \E i \in Scenario, e \in Epoch : AnotherRetains(i, e)
  <2>1. UNCHANGED <<pc, jobs, future, futures, next, left, late>>
    BY <1>10 DEF AnotherRetains, coordinator
  <2>2. Failed' = Failed /\ Pending' = Pending /\ Workers' = Workers /\ Reserve' = Reserve
    BY <2>1 DEF Failed, Pending, Workers, Reserve
  <2> QED BY <2>1, <2>2 DEF Slack
<1> QED BY <1>1, <1>2, <1>3, <1>4, <1>5, <1>6, <1>7, <1>8, <1>9, <1>10
        DEF Next, Coordinate
-----------------------------------------------------------------------------
(* The invariant, and what follows from it                                 *)

LEMMA StutterPool ==
    ASSUME PoolInv, UNCHANGED vars
    PROVE  PoolInv'
<1> USE DEF vars, PoolInv
<1>1. /\ Failed' = Failed /\ Pending' = Pending /\ Running' = Running
      /\ Workers' = Workers /\ Reserve' = Reserve
  BY DEF Failed, Pending, Running, Workers, Reserve
<1>2. TypeOK'
  BY DEF TypeOK
<1>3. NextIsFresh'
  BY <1>1 DEF NextIsFresh
<1>4. FailuresHeld'
  BY <1>1 DEF FailuresHeld
<1>5. Slack'
  BY <1>1 DEF Slack
<1> QED BY <1>2, <1>3, <1>4, <1>5

LEMMA PoolStep == PoolInv /\ [Next]_vars => PoolInv'
<1>1. ASSUME PoolInv, Next PROVE PoolInv'
  BY <1>1, TypeStep, FreshStep, FailuresStep, SlackStep DEF PoolInv
<1> QED BY <1>1, StutterPool

LEMMA PoolInvariant == Spec => []PoolInv
BY InitPool, PoolStep, PTL DEF Spec

(* Every reachable state of the tier runner is well typed.                 *)
THEOREM TypeCorrect == Spec => []TypeOK
<1>1. PoolInv => TypeOK
  BY DEF PoolInv
<1> QED BY <1>1, PoolInvariant, PTL

(* However the workers' failures race with the collection, the replacement *)
(* and the shutdown of the pool, the error that leaves run() names them    *)
(* all (tier.py 2597-2648).                                                *)
THEOREM FailuresAreNotLost == Spec => []NoFailureLost
<1>1. PoolInv => NoFailureLost
  <2> SUFFICES ASSUME PoolInv, pc = "raised"
               PROVE  /\ Cardinality(primary) = 1
                      /\ Failed \subseteq primary \cup notes
                      /\ primary \cap notes = {}
    BY DEF NoFailureLost
  <2>1. PICK x \in primary : primary = {x}
    BY DEF PoolInv, FailuresHeld
  <2>2. Cardinality(primary) = 1
    BY <2>1, FS_Singleton
  <2> QED BY <2>2 DEF PoolInv, FailuresHeld
<1> QED BY <1>1, PoolInvariant, PTL

(* After the first failure fewer scenarios start than the pool has         *)
(* workers, for every number of scenarios and workers (tier.py 2596-2636). *)
THEOREM FewStartsAfterAFailure == Spec => []FewLateStarts
<1>1. PoolInv => FewLateStarts
  <2> SUFFICES ASSUME PoolInv PROVE late < Workers
    BY DEF FewLateStarts
  <2>1. Workers \in 1 .. N /\ N \in Nat /\ late \in Nat /\ left \in Nat
    BY WorkersCount, CountsAssumption DEF PoolInv, TypeOK
  <2>2. CASE Failed = {}
    BY <2>1, <2>2 DEF PoolInv, Slack
  <2>3. CASE Failed # {}
    <3>1. Cardinality(Pending) \in Nat
      <4>1. Pending \subseteq Scenario
        BY DEF Pending
      <4>2. Cardinality(Pending) \in 0 .. N
        BY <4>1, SetsOfScenarios
      <4> QED BY <2>1, <4>2
    <3>2. Reserve \in Nat
      <4>1. pc = "submit" => next <= Workers /\ next \in 1 .. N + 1
        BY DEF PoolInv, NextIsFresh, TypeOK
      <4> QED BY <2>1, <4>1 DEF Reserve
    <3> QED BY <2>1, <2>3, <3>1, <3>2 DEF PoolInv, Slack
  <2> QED BY <2>2, <2>3
<1> QED BY <1>1, PoolInvariant, PTL

(* Together: a failure stops the tier, and every failure is in its error.  *)
THEOREM FailuresAreHandled == Spec => []FailureIsHandled
<1>1. NoFailureLost /\ FewLateStarts => FailureIsHandled
  BY DEF FailureIsHandled
<1> QED BY <1>1, FailuresAreNotLost, FewStartsAfterAFailure, PTL
-----------------------------------------------------------------------------
(* The evidence bundles, and the promise of a tier *)


Busy == Pool \cup {"cancel", "serial"}
Own == {"whole", "stale digest", "certified"}

(* A scenario that may still run has an evidence bundle of every epoch     *)
(* behind it, and of the next one at most a beginning, after its session.  *)
InOrder(i, e) ==
    /\ e <= epoch[i] => bundle[i][e] \in Own
    /\ e > epoch[i] =>
           \/ bundle[i][e] \in {"none", "another's"}
           \/ bundle[i][e] = "partial" /\ session[i] /\ e = epoch[i] + 1

MayRun(i) == future[i] \in {"none", "pending", "running"}

EvidenceInOrder ==
    /\ pc \in Busy => \A i \in Scenario, e \in Epoch : MayRun(i) => InOrder(i, e)
    /\ pc \in Idle => \A i \in Scenario : epoch[i] = 0

SuccessHasEvidence ==
    \A i \in Scenario, e \in Epoch :
        future[i] = "ok" => bundle[i][e] \in {"whole", "certified"}

(* No scenario is left out: each is over, or in hand, or not taken yet.    *)
NoneLeftOut ==
    /\ pc \in Pool => \A i \in Scenario : i < next => i \in futures \/ future[i] = "ok"
    /\ pc = "replenish" => left > 0 \/ futures # {}
    /\ pc = "serial" => \A i \in Scenario :
                            i < next => future[i] \in {"running", "ok", "failed"}
    /\ pc = "returned" => \A i \in Scenario : future[i] = "ok"

TierInv == PoolInv /\ EvidenceInOrder /\ SuccessHasEvidence /\ NoneLeftOut
-----------------------------------------------------------------------------
(* The initial state                                                       *)

LEMMA InitTier == Init => TierInv
<1> SUFFICES ASSUME Init PROVE TierInv
  OBVIOUS
<1>1. PoolInv
  BY InitPool
<1>2. EvidenceInOrder
  BY DEF Init, EvidenceInOrder, Busy, Pool
<1>3. SuccessHasEvidence
  BY DEF Init, SuccessHasEvidence
<1>4. NoneLeftOut
  BY DEF Init, NoneLeftOut, Pool
<1> QED BY <1>1, <1>2, <1>3, <1>4 DEF TierInv
-----------------------------------------------------------------------------
(* What the coordinator does, and what a worker does, to the futures       *)

Coordination ==
    \/ Interrupted \/ Coordinate

LEMMA CoordinatorMoves ==
    ASSUME PoolInv, Coordination
    PROVE  /\ UNCHANGED <<epoch, session, bundle>>
           /\ pc \in Busy /\ pc' \in Busy \cup {"returned", "raised"}
           /\ \A i \in Scenario :
                 \/ future'[i] = future[i]
                 \/ future[i] = "none" /\ future'[i] \in {"pending", "running"}
                 \/ future[i] = "pending" /\ future'[i] = "cancelled"
<1> USE DEF Busy, Pool, PoolInv
<1>a. future \in [Scenario -> FutureStates] /\ \A i \in Scenario : i >= next => future[i] = "none"
  BY DEF TypeOK, NextIsFresh
<1>b. next \in Nat
  BY CountsAssumption DEF TypeOK
<1>1. CASE Interrupted \/ SerialEnds \/ Collect \/ Replenished \/ ShutDown
  BY <1>1 DEF Interrupted, SerialEnds, Collect, Replenished, ShutDown
<1>2. CASE RunNext
  <2>1. future' = [future EXCEPT ![next] = "running"]
    BY <1>2 DEF RunNext
  <2> QED BY <1>2, <1>a, <1>b, <2>1 DEF RunNext
<1>3. CASE SubmitFirst \/ Replace
  <2>1. future' = [future EXCEPT ![next] = "pending"]
    BY <1>3 DEF SubmitFirst, Replace, Submit
  <2> QED BY <1>3, <1>a, <1>b, <2>1 DEF SubmitFirst, Replace
<1>4. CASE \E i \in Scenario : CancelFuture(i)
  BY <1>4, <1>a DEF CancelFuture
<1> QED BY <1>1, <1>2, <1>3, <1>4 DEF Coordination, Coordinate

LEMMA RunningIsBusy ==
    ASSUME PoolInv, NEW i \in Scenario, future[i] \in {"pending", "running"}
    PROVE  pc \in Busy
<1>1. i \in Pending \cup Running
  BY DEF Pending, Running
<1> QED BY <1>1 DEF PoolInv, FailuresHeld, TypeOK, Answered, Busy, Pool

LEMMA WorkerIsBusy ==
    ASSUME PoolInv, NEW i \in Scenario, Work(i)
    PROVE  /\ pc \in Busy /\ UNCHANGED coordinator
           /\ \A j \in Scenario : j # i => /\ future'[j] = future[j]
                                           /\ epoch'[j] = epoch[j]
                                           /\ session'[j] = session[j]
                                           /\ bundle'[j] = bundle[j]
           /\ MayRun(i)
<1> USE DEF PoolInv, TypeOK
<1>1. CASE WorkerStarts(i) \/ ScenarioFails(i) \/ BundleRefused(i) \/ ScenarioSucceeds(i)
  BY <1>1, RunningIsBusy
     DEF WorkerStarts, ScenarioFails, BundleRefused, RunsEpoch, ScenarioSucceeds, MayRun
<1>2. CASE SessionRuns(i)
  BY <1>2, RunningIsBusy DEF SessionRuns, RunsEpoch, MayRun
<1>3. CASE BundleBegins(i)
  BY <1>3, RunningIsBusy DEF BundleBegins, RunsEpoch, MayRun
<1>4. CASE BundleEnds(i)
  BY <1>4, RunningIsBusy DEF BundleEnds, RunsEpoch, MayRun
<1>5. CASE \E e \in Epoch : Requalify(i, e)
  BY <1>5, RunningIsBusy DEF Requalify, MayRun
<1>6. CASE \E e \in Epoch : Redigest(i, e)
  BY <1>6, RunningIsBusy DEF Redigest, MayRun
<1> QED BY <1>1, <1>2, <1>3, <1>4, <1>5, <1>6 DEF Work
-----------------------------------------------------------------------------
(* Every step keeps the bundles in order                                   *)

LEMMA EvidenceStep ==
    ASSUME TierInv, Next
    PROVE  EvidenceInOrder'
<1> USE DEF TierInv, PoolInv
<1>a. /\ Epochs \in Nat /\ Epoch = 1 .. Epochs
      /\ \A i \in Scenario : epoch[i] \in 0 .. Epochs
  BY CountsAssumption DEF Epoch, TypeOK
<1>1. CASE TierStarts
  <2>1. /\ pc = "down" /\ UNCHANGED <<epoch, session, bundle>>
        /\ pc' \in Busy => ~Collision
    BY <1>1 DEF TierStarts, Busy, Pool
  <2>2. \A i \in Scenario : epoch[i] = 0
    BY <2>1 DEF EvidenceInOrder, Idle
  <2>3. ASSUME pc' \in Busy, NEW i \in Scenario, NEW e \in Epoch PROVE InOrder(i, e)'
    BY <1>a, <2>1, <2>2, <2>3 DEF Collision, InOrder
  <2> QED BY <2>1, <2>2, <2>3 DEF EvidenceInOrder
<1>2. CASE ProcessEnds
  BY <1>2 DEF ProcessEnds, EvidenceInOrder, Busy, Pool
<1>3. CASE Coordination
  <2>1. \A i \in Scenario : MayRun(i)' => MayRun(i)
    BY <1>3, CoordinatorMoves DEF MayRun
  <2>2. \A i \in Scenario, e \in Epoch : InOrder(i, e) => InOrder(i, e)'
    BY <1>3, CoordinatorMoves DEF InOrder
  <2>3. pc \in Busy /\ pc' \notin Idle
    BY <1>3, CoordinatorMoves DEF Busy, Pool, Idle
  <2> QED BY <2>1, <2>2, <2>3 DEF EvidenceInOrder
<1>4. CASE \E i \in Scenario : Work(i)
  <2>1. PICK i \in Scenario : Work(i)
    BY <1>4
  <2>2. pc \in Busy /\ pc' = pc /\ MayRun(i)
    BY <2>1, WorkerIsBusy DEF coordinator
  <2>3. ASSUME NEW j \in Scenario, j # i, NEW e \in Epoch, MayRun(j)'
        PROVE  InOrder(j, e)'
    BY <2>1, <2>2, <2>3, WorkerIsBusy DEF EvidenceInOrder, MayRun, InOrder
  <2>4. \A e \in Epoch : InOrder(i, e)
    BY <2>2 DEF EvidenceInOrder
  <2>5. ASSUME NEW e \in Epoch, MayRun(i)' PROVE InOrder(i, e)'
    <3>1. CASE WorkerStarts(i)
      BY <2>4, <3>1 DEF WorkerStarts, InOrder
    <3>2. CASE ScenarioFails(i) \/ BundleRefused(i) \/ ScenarioSucceeds(i)
      BY <2>5, <3>2 DEF ScenarioFails, BundleRefused, ScenarioSucceeds, MayRun, TypeOK
    <3>3. CASE SessionRuns(i)
      BY <2>4, <3>3 DEF SessionRuns, InOrder, TypeOK
    <3>4. CASE BundleBegins(i)
      <4>1. /\ bundle'[i] = [bundle[i] EXCEPT ![ThisEpoch(i)] = "partial"]
            /\ bundle[i] \in [Epoch -> BundleStates]
            /\ epoch' = epoch /\ session' = session /\ session[i]
        BY <3>4 DEF BundleBegins, TypeOK
      <4>2. CASE e = epoch[i] + 1
        <5>1. bundle'[i][e] = "partial" /\ session'[i] /\ epoch'[i] = epoch[i]
          BY <4>1, <4>2 DEF ThisEpoch
        <5>2. ~ (e <= epoch'[i])
          BY <1>a, <4>2, <5>1
        <5> QED BY <4>2, <5>1, <5>2 DEF InOrder
      <4>3. CASE e # epoch[i] + 1
        BY <2>4, <4>1, <4>3 DEF InOrder, ThisEpoch
      <4> QED BY <4>2, <4>3
    <3>5. CASE BundleEnds(i)
      <4>1. /\ bundle'[i] = [bundle[i] EXCEPT ![ThisEpoch(i)] = "whole"]
            /\ bundle[i] \in [Epoch -> BundleStates]
            /\ epoch'[i] = epoch[i] + 1
        BY <3>5 DEF BundleEnds, TypeOK
      <4>2. epoch[i] \in Nat /\ e \in Nat
        BY <1>a
      <4>3. CASE e = epoch[i] + 1
        <5>1. bundle'[i][e] = "whole" /\ ~ (e > epoch'[i])
          BY <4>1, <4>2, <4>3 DEF ThisEpoch
        <5> QED BY <5>1 DEF InOrder, Own
      <4>4. CASE e < epoch[i] + 1
        <5>1. e <= epoch[i] /\ bundle'[i][e] = bundle[i][e]
          BY <4>1, <4>2, <4>4 DEF ThisEpoch
        <5>2. bundle[i][e] \in Own /\ ~ (e > epoch'[i])
          BY <2>4, <4>1, <4>2, <4>4, <5>1 DEF InOrder
        <5> QED BY <5>1, <5>2 DEF InOrder
      <4>5. CASE e > epoch[i] + 1
        <5>1. e > epoch[i] /\ e # epoch[i] + 1 /\ bundle'[i][e] = bundle[i][e]
          BY <4>1, <4>2, <4>5 DEF ThisEpoch
        <5>2. bundle[i][e] \in {"none", "another's"} /\ ~ (e <= epoch'[i])
          BY <2>4, <4>1, <4>2, <4>5, <5>1 DEF InOrder
        <5> QED BY <5>1, <5>2 DEF InOrder
      <4> QED BY <4>2, <4>3, <4>4, <4>5
    <3>6. CASE \E d \in Epoch : Requalify(i, d) \/ Redigest(i, d)
      <4>1. PICK d \in Epoch : Requalify(i, d) \/ Redigest(i, d)
        BY <3>6
      <4>2. /\ bundle[i] \in [Epoch -> BundleStates] /\ epoch' = epoch /\ session' = session
            /\ bundle[i][d] \in Own
            /\ \A f \in Epoch : f # d => bundle'[i][f] = bundle[i][f]
            /\ bundle'[i][d] \in Own
        <5>1. CASE Requalify(i, d)
          <6>1. d \in d .. Epochs
            BY <1>a
          <6>2. bundle[i][d] = "whole"
            BY <5>1, <6>1 DEF Requalify
          <6> QED BY <5>1, <6>2 DEF Requalify, TypeOK, Own
        <5>2. CASE Redigest(i, d)
          BY <5>2 DEF Redigest, TypeOK, Own
        <5> QED BY <4>1, <5>1, <5>2
      <4>3. CASE e = d
        <5>1. InOrder(i, e) /\ bundle[i][e] \in Own /\ bundle'[i][e] \in Own
          BY <2>4, <4>2, <4>3
        <5>2. ~ (e > epoch'[i])
          BY <4>2, <5>1 DEF InOrder, Own
        <5> QED BY <5>1, <5>2 DEF InOrder
      <4>4. CASE e # d
        BY <2>4, <4>2, <4>4 DEF InOrder
      <4> QED BY <4>3, <4>4
    <3> QED BY <2>1, <3>1, <3>2, <3>3, <3>4, <3>5, <3>6 DEF Work
  <2>6. pc' \notin Idle
    BY <2>2 DEF Busy, Pool, Idle
  <2> QED BY <2>2, <2>3, <2>5, <2>6 DEF EvidenceInOrder
<1>5. CASE \E i \in Scenario, d \in Epoch : AnotherRetains(i, d)
  <2>1. PICK i \in Scenario, d \in Epoch : AnotherRetains(i, d)
    BY <1>5
  <2>2. /\ UNCHANGED <<pc, future, epoch, session>> /\ bundle[i][d] = "none"
        /\ bundle' = [bundle EXCEPT ![i][d] = "another's"]
        /\ bundle \in [Scenario -> [Epoch -> BundleStates]]
    BY <2>1 DEF AnotherRetains, coordinator, TypeOK
  <2>3. ASSUME NEW j \in Scenario, NEW e \in Epoch, InOrder(j, e)
        PROVE  InOrder(j, e)'
    <3>1. CASE j = i /\ e = d
      BY <2>2, <2>3, <3>1 DEF InOrder, Own
    <3>2. CASE ~ (j = i /\ e = d)
      BY <2>2, <2>3, <3>2 DEF InOrder
    <3> QED BY <3>1, <3>2
  <2> QED BY <2>2, <2>3 DEF EvidenceInOrder, MayRun
<1> QED BY <1>1, <1>2, <1>3, <1>4, <1>5 DEF Next, Coordination
-----------------------------------------------------------------------------
(* Every step keeps what the report will say of the evidence               *)

LEMMA SuccessStep ==
    ASSUME TierInv, Next
    PROVE  SuccessHasEvidence'
<1> USE DEF TierInv, PoolInv
<1>1. CASE TierStarts
  BY <1>1 DEF TierStarts, SuccessHasEvidence
<1>2. CASE ProcessEnds
  BY <1>2 DEF ProcessEnds, SuccessHasEvidence
<1>3. CASE Coordination
  <2>1. \A i \in Scenario : future'[i] = "ok" => future[i] = "ok"
    BY <1>3, CoordinatorMoves
  <2> QED BY <1>3, <2>1, CoordinatorMoves DEF SuccessHasEvidence
<1>4. CASE \E i \in Scenario : Work(i)
  <2>1. PICK i \in Scenario : Work(i)
    BY <1>4
  <2>2. pc \in Busy /\ MayRun(i) /\ \A e \in Epoch : InOrder(i, e)
    BY <2>1, WorkerIsBusy DEF EvidenceInOrder
  <2>3. ASSUME NEW j \in Scenario, j # i, future'[j] = "ok", NEW e \in Epoch
        PROVE  bundle'[j][e] \in {"whole", "certified"}
    BY <2>1, <2>3, WorkerIsBusy DEF SuccessHasEvidence
  <2>4. ASSUME future'[i] = "ok", NEW e \in Epoch
        PROVE  bundle'[i][e] \in {"whole", "certified"}
    <3>1. ScenarioSucceeds(i)
      BY <2>1, <2>2, <2>4
         DEF Work, MayRun, TypeOK, WorkerStarts, ScenarioFails, SessionRuns, RunsEpoch,
             BundleBegins, BundleRefused, BundleEnds, Requalify, Redigest
    <3>2. epoch[i] = Epochs /\ ~Stale(i) /\ bundle' = bundle
      BY <3>1 DEF ScenarioSucceeds
    <3>3. e <= epoch[i]
      BY <3>2, CountsAssumption DEF Epoch
    <3>4. bundle[i][e] \in Own /\ bundle[i][e] # "stale digest"
      BY <2>2, <3>2, <3>3 DEF InOrder, Stale
    <3> QED BY <3>2, <3>4 DEF Own
  <2> QED BY <2>3, <2>4 DEF SuccessHasEvidence
<1>5. CASE \E i \in Scenario, e \in Epoch : AnotherRetains(i, e)
  <2>1. PICK i \in Scenario, d \in Epoch : AnotherRetains(i, d)
    BY <1>5
  <2>2. /\ future' = future /\ bundle[i][d] = "none"
        /\ bundle' = [bundle EXCEPT ![i][d] = "another's"]
        /\ bundle \in [Scenario -> [Epoch -> BundleStates]]
    BY <2>1 DEF AnotherRetains, TypeOK
  <2> QED BY <2>2 DEF SuccessHasEvidence
<1> QED BY <1>1, <1>2, <1>3, <1>4, <1>5 DEF Next, Coordination
-----------------------------------------------------------------------------
(* Every step leaves no scenario out                                       *)

LEMMA SomeAreCounted ==
    ASSUME NEW S, S \subseteq Scenario, S # {}
    PROVE  Cardinality(S) > 0
<1>1. IsFiniteSet(S) /\ Cardinality(S) \in 0 .. N /\ N \in Nat
  BY SetsOfScenarios, CountsAssumption
<1>2. Cardinality(S) # 0
  BY <1>1, FS_EmptySet
<1> QED BY <1>1, <1>2

LEMMA LeftOutStep ==
    ASSUME TierInv, Next
    PROVE  NoneLeftOut'
<1> USE DEF TierInv, PoolInv, Pool
<1>a. /\ N \in Nat /\ Scenario = 1 .. N /\ next \in Nat /\ left \in Nat
      /\ future \in [Scenario -> FutureStates] /\ futures \subseteq Scenario
  BY CountsAssumption DEF Scenario, TypeOK
<1>1. CASE TierStarts
  <2>1. next' = 1 /\ pc' \notin {"replenish", "returned"}
    BY <1>1 DEF TierStarts, NextIsFresh, Idle
  <2>2. \A i \in Scenario : ~ (i < next')
    BY <1>a, <2>1
  <2> QED BY <2>1, <2>2 DEF NoneLeftOut
<1>2. CASE ProcessEnds
  BY <1>2 DEF ProcessEnds, NoneLeftOut
<1>3. CASE Interrupted \/ (\E i \in Scenario : CancelFuture(i)) \/ ShutDown
  BY <1>3 DEF Interrupted, CancelFuture, ShutDown, NoneLeftOut
<1>4. CASE RunNext
  <2>1. pc = "serial" /\ pc' = "serial" /\ next' = next + 1 /\ next \in Scenario
        /\ future' = [future EXCEPT ![next] = "running"]
    BY <1>4, <1>a DEF RunNext, TypeOK
  <2>2. ASSUME NEW i \in Scenario, i < next'
        PROVE  future'[i] \in {"running", "ok", "failed"}
    <3>1. CASE i = next
      BY <1>a, <2>1, <3>1
    <3>2. CASE i < next
      BY <1>a, <2>1, <3>2 DEF NoneLeftOut
    <3> QED BY <1>a, <2>1, <2>2, <3>1, <3>2
  <2> QED BY <2>1, <2>2 DEF NoneLeftOut
<1>5. CASE SerialEnds
  <2>1. CASE pc' = "raised"
    BY <2>1 DEF NoneLeftOut
  <2>2. CASE pc' # "raised"
    <3>1. /\ pc = "serial" /\ pc' = "returned" /\ future' = future
          /\ Running = {} /\ Failed = {} /\ next > N
      BY <1>5, <2>2 DEF SerialEnds
    <3>2. \A i \in Scenario : i < next
      BY <1>a, <3>1
    <3>3. \A i \in Scenario : future[i] = "ok"
      BY <3>1, <3>2 DEF NoneLeftOut, Running, Failed
    <3> QED BY <3>1, <3>3 DEF NoneLeftOut
  <2> QED BY <2>1, <2>2
<1>6. CASE SubmitFirst \/ Replace
  <2>1. /\ pc \in Pool /\ pc' \in Pool /\ next' = next + 1
        /\ futures' = futures \cup {next}
        /\ future' = [future EXCEPT ![next] = "pending"]
    BY <1>6 DEF SubmitFirst, Replace, Submit
  <2>2. ASSUME NEW i \in Scenario, i < next'
        PROVE  i \in futures' \/ future'[i] = "ok"
    <3>1. CASE i = next
      BY <2>1, <3>1
    <3>2. CASE i < next
      BY <1>a, <2>1, <3>2 DEF NoneLeftOut
    <3> QED BY <1>a, <2>1, <2>2, <3>1, <3>2
  <2> QED BY <2>1, <2>2 DEF NoneLeftOut
<1>7. CASE Collect
  <2>1. CASE pc' = "cancel"
    BY <2>1 DEF NoneLeftOut
  <2>2. CASE pc' # "cancel"
    <3>1. /\ pc = "wait" /\ pc' = "replenish" /\ Completed # {} /\ Errors = {}
          /\ futures' = futures \ Completed /\ left' = Cardinality(Completed)
          /\ UNCHANGED <<future, next>>
      BY <1>7, <2>2 DEF Collect
    <3>2. Completed \subseteq Scenario
      BY <1>a DEF Completed
    <3>3. left' > 0
      BY <3>1, <3>2, SomeAreCounted
    <3>4. \A i \in Completed : future[i] = "ok"
      BY <1>a, <3>1 DEF Completed, Errors, Failed
    <3> QED BY <3>1, <3>3, <3>4 DEF NoneLeftOut
  <2> QED BY <2>1, <2>2
<1>8. CASE Replenished
  <2>1. /\ pc = "replenish" /\ UNCHANGED <<future, futures, next>>
        /\ left = 0 \/ next > N
        /\ pc' = IF futures = {} THEN "returned" ELSE "wait"
    BY <1>8 DEF Replenished
  <2>2. CASE futures = {}
    <3>1. next > N
      BY <1>a, <2>1, <2>2 DEF NoneLeftOut
    <3>2. \A i \in Scenario : i < next
      BY <1>a, <3>1
    <3> QED BY <2>1, <2>2, <3>2 DEF NoneLeftOut
  <2>3. CASE futures # {}
    BY <2>1, <2>3 DEF NoneLeftOut
  <2> QED BY <2>2, <2>3
<1>9. CASE \E i \in Scenario : Work(i)
  <2>1. PICK i \in Scenario : Work(i)
    BY <1>9
  <2>2. /\ pc \in Busy /\ pc' = pc /\ next' = next /\ futures' = futures /\ left' = left
        /\ MayRun(i) /\ \A j \in Scenario : j # i => future'[j] = future[j]
    BY <2>1, WorkerIsBusy DEF coordinator
  <2>3. future[i] = "running" => future'[i] \in {"running", "ok", "failed"}
    BY <1>a, <2>1
       DEF Work, WorkerStarts, ScenarioFails, SessionRuns, RunsEpoch, BundleBegins,
           BundleRefused, BundleEnds, Requalify, Redigest, ScenarioSucceeds
  <2>4. pc = "serial" => \A j \in Scenario :
                            j < next => future'[j] \in {"running", "ok", "failed"}
    BY <2>2, <2>3 DEF NoneLeftOut, MayRun
  <2>5. pc \in Pool => \A j \in Scenario :
                            j < next => j \in futures \/ future'[j] = "ok"
    BY <2>2 DEF NoneLeftOut, MayRun
  <2> QED BY <2>2, <2>4, <2>5 DEF NoneLeftOut, Busy
<1>10. CASE \E i \in Scenario, e \in Epoch : AnotherRetains(i, e)
  BY <1>10 DEF AnotherRetains, coordinator, NoneLeftOut
<1> QED BY <1>1, <1>2, <1>3, <1>4, <1>5, <1>6, <1>7, <1>8, <1>9, <1>10
        DEF Next, Coordinate

LEMMA StutterTier == TierInv /\ UNCHANGED vars => TierInv'
<1> SUFFICES ASSUME TierInv, UNCHANGED vars PROVE TierInv'
  OBVIOUS
<1>1. PoolInv'
  BY StutterPool DEF TierInv
<1>2. EvidenceInOrder'
  BY DEF TierInv, vars, EvidenceInOrder, InOrder, MayRun
<1>3. SuccessHasEvidence'
  BY DEF TierInv, vars, SuccessHasEvidence
<1>4. NoneLeftOut'
  BY DEF TierInv, vars, NoneLeftOut
<1> QED BY <1>1, <1>2, <1>3, <1>4 DEF TierInv

LEMMA TierStep == TierInv /\ [Next]_vars => TierInv'
<1>1. ASSUME TierInv, Next PROVE TierInv'
  BY <1>1, PoolStep, EvidenceStep, SuccessStep, LeftOutStep DEF TierInv
<1> QED BY <1>1, StutterTier

LEMMA TierInvariant == Spec => []TierInv
BY InitTier, TierStep, PTL DEF Spec
-----------------------------------------------------------------------------
(* A report is returned only over complete bundles, one of every epoch of  *)
(* every scenario, however the workers interleave and whatever the runs    *)
(* before this one left (tier.py 2599-2612 and 2651).                      *)
THEOREM ReturnedEvidence == Spec => []ReturnedEvidenceIsWhole
<1>1. TierInv => ReturnedEvidenceIsWhole
  BY DEF TierInv, SuccessHasEvidence, NoneLeftOut, ReturnedEvidenceIsWhole
<1> QED BY <1>1, TierInvariant, PTL

(* No epoch is run of which this runner has begun to retain evidence, by a *)
(* tier that is started after others were killed included (tier.py         *)
(* 1148-1210).                                                             *)
THEOREM EvidencedEpochs == Spec => EvidencedEpochIsNotRerun
<1>1. ASSUME TierInv, Next, NEW i \in Scenario, session'[i], ~session[i]
      PROVE  bundle[i][ThisEpoch(i)] \in {"none", "another's"}
  <2> USE <1>1 DEF TierInv, PoolInv
  <2>1. SessionRuns(i)
    <3>1. CASE \E j \in Scenario : Work(j)
      <4>1. PICK j \in Scenario : Work(j)
        BY <3>1
      <4>2. j = i
        BY <1>1, <4>1, WorkerIsBusy
      <4> QED BY <1>1, <4>1, <4>2
              DEF Work, WorkerStarts, ScenarioFails, BundleBegins, BundleRefused,
                  BundleEnds, Requalify, Redigest, ScenarioSucceeds, TypeOK
    <3>2. CASE Coordination
      BY <1>1, <3>2, CoordinatorMoves
    <3>3. CASE TierStarts \/ ProcessEnds
      BY <1>1, <3>3 DEF TierStarts, ProcessEnds
    <3>4. CASE \E j \in Scenario, e \in Epoch : AnotherRetains(j, e)
      BY <1>1, <3>4 DEF AnotherRetains
    <3> QED BY <1>1, <3>1, <3>2, <3>3, <3>4 DEF Next, Coordination
  <2>2. epoch[i] < Epochs /\ epoch[i] \in Nat /\ Epochs \in Nat /\ pc \in Busy /\ MayRun(i)
    <3>1. Work(i)
      BY <2>1 DEF Work
    <3>2. pc \in Busy /\ MayRun(i)
      BY <1>1, <3>1, WorkerIsBusy
    <3>3. epoch[i] < Epochs /\ epoch[i] \in Nat /\ Epochs \in Nat
      BY <1>1, <2>1, CountsAssumption DEF SessionRuns, RunsEpoch, TypeOK
    <3> QED BY <3>2, <3>3
  <2>3. ThisEpoch(i) \in Epoch /\ ThisEpoch(i) > epoch[i]
    BY <2>2 DEF ThisEpoch, Epoch
  <2>4. InOrder(i, ThisEpoch(i))
    BY <1>1, <2>2, <2>3 DEF EvidenceInOrder
  <2> QED BY <1>1, <2>3, <2>4 DEF InOrder
<1>2. TierInv /\ [Next]_vars =>
        [\A i \in Scenario :
            session'[i] /\ ~session[i] =>
                bundle[i][ThisEpoch(i)] \in {"none", "another's"}]_vars
  BY <1>1
<1> QED BY <1>2, TierInvariant, PTL DEF Spec, EvidencedEpochIsNotRerun

(* Whatever this runner does, the bundles of another tier stay as they are *)
(* (tier.py 1174-1183).                                                    *)
THEOREM OthersAreKept == Spec => OthersBundleKept
<1>1. ASSUME TypeOK, Next, NEW i \in Scenario, NEW e \in Epoch, bundle[i][e] = "another's"
      PROVE  bundle'[i][e] = "another's"
  <2> USE DEF TypeOK
  <2>1. CASE \E j \in Scenario : BundleBegins(j) \/ BundleEnds(j)
    BY <1>1, <2>1 DEF BundleBegins, BundleEnds
  <2>2. CASE \E j \in Scenario, d \in Epoch : Redigest(j, d)
    <3>1. PICK j \in Scenario, d \in Epoch : Redigest(j, d)
      BY <2>2
    <3>2. /\ bundle[j][d] = "stale digest"
          /\ bundle' = [bundle EXCEPT ![j][d] = "certified"]
      BY <3>1 DEF Redigest
    <3>3. bundle \in [Scenario -> [Epoch -> BundleStates]]
      BY <1>1
    <3> QED BY <1>1, <3>2, <3>3
  <2>3. CASE \E j \in Scenario, d \in Epoch : Requalify(j, d)
    <3>1. PICK j \in Scenario, d \in Epoch : Requalify(j, d)
      BY <2>3
    <3>2. bundle[j][d] = "whole"
      <4>1. d \in d .. Epochs
        BY CountsAssumption DEF Epoch
      <4> QED BY <3>1, <4>1 DEF Requalify
    <3> QED BY <1>1, <3>1, <3>2 DEF Requalify
  <2>4. CASE \E j \in Scenario, d \in Epoch : AnotherRetains(j, d)
    BY <1>1, <2>4 DEF AnotherRetains
  <2>5. CASE UNCHANGED bundle
    BY <1>1, <2>5
  <2> QED BY <1>1, <2>1, <2>2, <2>3, <2>4, <2>5
          DEF Next, TierStarts, ProcessEnds, Interrupted, Coordinate, RunNext, SerialEnds,
              SubmitFirst, Collect, Replace, Replenished, CancelFuture, ShutDown, Work,
              WorkerStarts, ScenarioFails, SessionRuns, BundleRefused, ScenarioSucceeds
<1>2. TypeOK /\ [Next]_vars =>
        [\A i \in Scenario, e \in Epoch :
            bundle[i][e] = "another's" => bundle'[i][e] = "another's"]_vars
  BY <1>1
<1> QED BY <1>2, TypeCorrect, PTL DEF Spec, OthersBundleKept

(* Together: the evidence a tier retains is whole when it is returned, is  *)
(* not run again and is not written over.                                  *)
THEOREM EvidenceStays == Spec => EvidenceIsKept
BY ReturnedEvidence, EvidencedEpochs, OthersAreKept DEF EvidenceIsKept
-----------------------------------------------------------------------------
(* The pool and the serial branch implement the promise of a tier          *)

Ran == [i \in Scenario |->
           IF future[i] \in {"running", "ok", "failed"} THEN future[i]
           ELSE "not started"]
Answer == CASE pc = "returned" -> "report"
            [] pc = "blocked" -> "blocked"
            [] pc \in {"raised", "refused"} -> "error"
            [] OTHER -> "none"

Begun(i) == Answer = "none" /\ Ran[i] = "not started"
            /\ Ran' = [Ran EXCEPT ![i] = "running"] /\ Answer' = Answer
Ended(i) == Ran[i] = "running" /\ Answer' = Answer
            /\ \E end \in {"ok", "failed"} : Ran' = [Ran EXCEPT ![i] = end]
Reported == Answer = "none" /\ (\A i \in Scenario : Ran[i] = "ok")
            /\ Answer' = "report" /\ Ran' = Ran
Blocked == Answer = "none" /\ (\A i \in Scenario : Ran[i] = "not started")
           /\ Answer' = "blocked" /\ Ran' = Ran
Raised == Answer = "none" /\ (\A i \in Scenario : Ran[i] # "running")
          /\ Answer' = "error" /\ Ran' = Ran
Renewed == Ran' = [i \in Scenario |-> "not started"] /\ Answer' = "none"
Same == Ran' = Ran /\ Answer' = Answer

Promised ==
    \/ (\E i \in Scenario : Begun(i) \/ Ended(i))
    \/ Reported \/ Blocked \/ Raised \/ Renewed \/ Same

LEMMA PromisedIsPromise == Promised => [Promise!Next]_(Promise!vars)
BY DEF Promised, Begun, Ended, Reported, Blocked, Raised, Renewed, Same, Ran, Answer,
       Promise!Next, Promise!vars, Promise!Begin, Promise!End, Promise!Report,
       Promise!Block, Promise!Raise, Promise!Again

LEMMA PromisedStep ==
    ASSUME TierInv, TierInv', Next
    PROVE  Promised
<1> USE DEF TierInv, PoolInv
<1>a. /\ N \in Nat /\ Scenario = 1 .. N /\ next \in Nat
      /\ future \in [Scenario -> FutureStates]
  BY CountsAssumption DEF Scenario, TypeOK
<1>1. CASE TierStarts
  <2>1. /\ pc = "down" /\ Ran' = Ran
        /\ pc' \in {"blocked", "refused", "serial", "submit"}
    BY <1>1 DEF TierStarts, Ran
  <2>2. \A i \in Scenario : Ran[i] = "not started"
    <3>1. next = 1
      BY <2>1 DEF NextIsFresh, Idle
    <3>2. \A i \in Scenario : i >= next
      BY <1>a, <3>1
    <3> QED BY <3>2 DEF NextIsFresh, Ran
  <2> QED BY <2>1, <2>2 DEF Promised, Answer, Blocked, Raised, Same
<1>2. CASE ProcessEnds
  BY <1>2 DEF ProcessEnds, Promised, Renewed, Ran, Answer
<1>3. CASE Interrupted \/ Collect
  BY <1>3 DEF Interrupted, Collect, Promised, Same, Ran, Answer
<1>4. CASE RunNext
  <2>1. /\ pc = "serial" /\ pc' = pc /\ next \in Scenario
        /\ future' = [future EXCEPT ![next] = "running"]
    BY <1>4, <1>a DEF RunNext, TypeOK
  <2>2. future[next] = "none"
    BY <1>a, <2>1 DEF NextIsFresh
  <2>3. Begun(next)
    BY <1>a, <2>1, <2>2 DEF Begun, Ran, Answer
  <2> QED BY <2>1, <2>3 DEF Promised
<1>5. CASE SubmitFirst \/ Replace
  <2>1. /\ pc \in {"submit", "replenish"} /\ pc' \in {"submit", "wait", "replenish"}
        /\ future' = [future EXCEPT ![next] = "pending"]
    BY <1>5 DEF SubmitFirst, Replace, Submit
  <2>2. next \in Scenario => future[next] = "none"
    BY <1>a DEF NextIsFresh
  <2>3. Ran' = Ran
    BY <1>a, <2>1, <2>2 DEF Ran
  <2> QED BY <2>1, <2>3 DEF Promised, Same, Answer
<1>6. CASE \E i \in Scenario : CancelFuture(i)
  <2>1. PICK i \in Scenario : CancelFuture(i)
    BY <1>6
  <2>2. /\ pc' = pc
        /\ future' = [future EXCEPT ![i] = IF @ = "pending" THEN "cancelled" ELSE @]
    BY <2>1 DEF CancelFuture
  <2>3. Ran' = Ran
    BY <1>a, <2>2 DEF Ran
  <2> QED BY <2>2, <2>3 DEF Promised, Same, Answer
<1>7. CASE SerialEnds \/ Replenished \/ ShutDown
  <2>1. /\ Ran' = Ran /\ pc \notin Answered
        /\ pc' \in {"wait", "raised", "returned"}
    BY <1>7 DEF SerialEnds, Replenished, ShutDown, Ran, Answered
  <2>2. CASE pc' = "wait"
    BY <2>1, <2>2 DEF Promised, Same, Answer, Answered
  <2>3. CASE pc' = "raised"
    <3>1. Running = {}
      BY <1>7, <2>3 DEF SerialEnds, Replenished, ShutDown
    <3>2. \A i \in Scenario : Ran[i] # "running"
      BY <3>1 DEF Running, Ran
    <3> QED BY <2>1, <2>3, <3>2 DEF Promised, Raised, Answer, Answered
  <2>4. CASE pc' = "returned"
    <3>1. \A i \in Scenario : Ran'[i] = "ok"
      BY <2>4 DEF NoneLeftOut, Ran
    <3> QED BY <2>1, <2>4, <3>1 DEF Promised, Reported, Answer, Answered
  <2> QED BY <2>1, <2>2, <2>3, <2>4
<1>8. CASE \E i \in Scenario : Work(i)
  <2>1. PICK i \in Scenario : Work(i)
    BY <1>8
  <2>2. Answer = "none" /\ Answer' = "none"
    BY <2>1, WorkerIsBusy DEF coordinator, Answer, Busy, Pool
  <2>3. CASE WorkerStarts(i)
    <3>1. Begun(i)
      BY <1>a, <2>2, <2>3 DEF WorkerStarts, Begun, Ran
    <3> QED BY <3>1 DEF Promised
  <2>4. CASE ScenarioFails(i) \/ BundleRefused(i)
    <3>1. future[i] = "running" /\ future' = [future EXCEPT ![i] = "failed"]
      BY <2>4 DEF ScenarioFails, BundleRefused, RunsEpoch
    <3>2. Ran[i] = "running" /\ Ran' = [Ran EXCEPT ![i] = "failed"]
      BY <1>a, <3>1 DEF Ran
    <3> QED BY <2>2, <3>2 DEF Promised, Ended
  <2>5. CASE ScenarioSucceeds(i)
    <3>1. future[i] = "running" /\ future' = [future EXCEPT ![i] = "ok"]
      BY <2>5 DEF ScenarioSucceeds
    <3>2. Ran[i] = "running" /\ Ran' = [Ran EXCEPT ![i] = "ok"]
      BY <1>a, <3>1 DEF Ran
    <3> QED BY <2>2, <3>2 DEF Promised, Ended
  <2>6. CASE future' = future
    BY <2>2, <2>6 DEF Promised, Same, Ran
  <2> QED BY <2>1, <2>3, <2>4, <2>5, <2>6
          DEF Work, SessionRuns, BundleBegins, BundleEnds, Requalify, Redigest
<1>9. CASE \E i \in Scenario, e \in Epoch : AnotherRetains(i, e)
  BY <1>9 DEF AnotherRetains, coordinator, Promised, Same, Ran, Answer
<1> QED BY <1>1, <1>2, <1>3, <1>4, <1>5, <1>6, <1>7, <1>8, <1>9 DEF Next, Coordinate

(* The pool, and the serial branch, keep the promise of a tier: a scenario *)
(* runs at most once, and nothing runs once the report or the error is out *)
(* (tier.py 2533-2655).                                                    *)
THEOREM PoolKeepsPromise == Spec => KeepsPromise
<1>1. Init => Promise!Init
  BY DEF Init, Promise!Init
<1>2. TierInv /\ TierInv' /\ [Next]_vars => [Promise!Next]_(Promise!vars)
  <2>1. ASSUME TierInv, TierInv', Next PROVE [Promise!Next]_(Promise!vars)
    BY <2>1, PromisedStep, PromisedIsPromise
  <2>2. ASSUME UNCHANGED vars PROVE [Promise!Next]_(Promise!vars)
    BY <2>2 DEF vars, Promise!vars
  <2> QED BY <2>1, <2>2
<1> QED BY <1>1, <1>2, TierInvariant, PTL DEF Spec, KeepsPromise, Promise!Spec
=============================================================================
