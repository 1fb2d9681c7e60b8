------------------------------ MODULE TierPool ------------------------------
(***************************************************************************)
(* The tier runner over its scenarios (runner/tier.py, TierRunner.run): a  *)
(* coordinator that keeps up to jobs scenarios in a thread pool, replaces  *)
(* the ones that complete, and on the first failure it sees cancels what   *)
(* has not started and waits for what has.  Each scenario runs its epochs  *)
(* in order and retains an evidence bundle of each; the bundles outlive    *)
(* the process, which may be killed at any step, and another tier may use  *)
(* the same evidence root.                                                 *)
(*                                                                         *)
(* Scenarios are numbered in the order of their declaration.               *)
(***************************************************************************)
EXTENDS Naturals, FiniteSets

CONSTANTS
    N,            \* scenarios of the tier
    MaxWorkers,   \* the largest --jobs
    Epochs,       \* epochs of every scenario
    MaxTiers,     \* bound: processes that run the tier
    MaxForeign    \* bound: bundles that another tier retains

ASSUME CountsAssumption ==
    N \in Nat \ {0} /\ MaxWorkers \in Nat \ {0} /\ Epochs \in Nat \ {0}
ASSUME BoundAssumption == MaxTiers \in Nat /\ MaxForeign \in Nat

Scenario == 1 .. N
Epoch == 1 .. Epochs
Interrupt == 0     \* the error that is not a scenario's

VARIABLES
    pc,          \* what the coordinator does
    jobs,        \* max_workers of this tier
    future,      \* the future of each scenario
    futures,     \* those the coordinator holds
    next,        \* next_index
    left,        \* replacements still to submit
    canceling,   \* futures still to cancel
    primary,     \* the error to raise; {} while there is none
    notes,       \* errors noted on it
    epoch,       \* epochs each scenario has behind it
    session,     \* whether the session of its next epoch has run
    bundle,      \* the evidence root: the bundle of every epoch
    tiers,       \* processes so far
    late         \* history: scenarios that started after one had failed

coordinator == <<pc, jobs, futures, next, left, canceling, primary, notes>>
vars == <<pc, jobs, future, futures, next, left, canceling, primary, notes,
          epoch, session, bundle, tiers, late>>

\* effective_max_workers
Workers == IF jobs < N THEN jobs ELSE N

Failed == {i \in Scenario : future[i] = "failed"}
Running == {i \in Scenario : future[i] = "running"}
Pending == {i \in Scenario : future[i] = "pending"}
Least(S) == CHOOSE i \in S : \A j \in S : i <= j

Init ==
    /\ pc = "down" /\ jobs = 1
    /\ future = [i \in Scenario |-> "none"] /\ futures = {}
    /\ epoch = [i \in Scenario |-> 0] /\ session = [i \in Scenario |-> FALSE]
    /\ next = 1 /\ left = 0 /\ canceling = {} /\ primary = {} /\ notes = {}
    /\ late = 0
    /\ bundle = [i \in Scenario |-> [e \in Epoch |-> "none"]]
    /\ tiers = 0
-----------------------------------------------------------------------------
(* The tier process *)

\* Mutant: an incomplete bundle does not count.
Collision_WholeOnly ==
    \E i \in Scenario, e \in Epoch : bundle[i][e] \notin {"none", "partial"}

\* _validate_evidence_destinations
Collision == \E i \in Scenario, e \in Epoch : bundle[i][e] # "none"

\* One worker or one scenario: the coordinator runs them itself.
Serial == jobs' = 1 \/ N <= 1

TierStarts ==
    /\ pc = "down" /\ tiers < MaxTiers
    /\ tiers' = tiers + 1
    /\ jobs' \in 1 .. MaxWorkers
    /\ \/ pc' = "blocked"        \* by the canary
       \/ Collision /\ pc' = "refused"
       \/ ~Collision /\ pc' = IF Serial THEN "serial" ELSE "submit"
    /\ UNCHANGED <<future, futures, next, left, canceling, primary, notes,
                   epoch, session, bundle, late>>

\* The report or the error is out and the process ends, or it is killed with
\* every session it runs.
ProcessEnds ==
    /\ pc # "down" /\ pc' = "down"
    /\ future' = [i \in Scenario |-> "none"] /\ futures' = {}
    /\ epoch' = [i \in Scenario |-> 0] /\ session' = [i \in Scenario |-> FALSE]
    /\ next' = 1 /\ left' = 0 /\ canceling' = {} /\ primary' = {} /\ notes' = {}
    /\ late' = 0
    /\ UNCHANGED <<jobs, bundle, tiers>>

\* Another tier, started over the same evidence root, retains a bundle.
Foreign == {p \in Scenario \X Epoch : bundle[p[1]][p[2]] = "another's"}
AnotherRetains(i, e) ==
    /\ bundle[i][e] = "none" /\ Cardinality(Foreign) < MaxForeign
    /\ bundle' = [bundle EXCEPT ![i][e] = "another's"]
    /\ UNCHANGED <<coordinator, future, epoch, session, tiers, late>>

\* The serial branch: an exception of a scenario leaves run().
RunNext ==
    /\ pc = "serial" /\ next <= N /\ Running \cup Failed = {}
    /\ future' = [future EXCEPT ![next] = "running"]
    /\ next' = next + 1
    /\ UNCHANGED <<pc, jobs, futures, left, canceling, primary, notes, epoch,
                   session, bundle, tiers, late>>
SerialEnds ==
    /\ pc = "serial" /\ Running = {}
    /\ \/ Failed # {} /\ pc' = "raised" /\ primary' = Failed
       \/ Failed = {} /\ next > N /\ pc' = "returned" /\ UNCHANGED primary
    /\ UNCHANGED <<jobs, future, futures, next, left, canceling, notes, epoch,
                   session, bundle, tiers, late>>
-----------------------------------------------------------------------------
(* The coordinator of the pool *)

Submit ==
    /\ future' = [future EXCEPT ![next] = "pending"]
    /\ futures' = futures \cup {next}
    /\ next' = next + 1

\* The first scenarios, as many as there are workers.
SubmitFirst ==
    /\ pc = "submit"
    /\ Submit
    /\ pc' = IF next = Workers THEN "wait" ELSE "submit"
    /\ UNCHANGED <<jobs, left, canceling, primary, notes, epoch, session,
                   bundle, tiers, late>>

Completed == {i \in futures : future[i] \in {"ok", "failed"}}
Errors == Completed \cap Failed

\* Mutant: the group of a failure is replaced before the failure is raised.
Collect_ReplacesFirst ==
    /\ pc = "wait" /\ Completed # {} /\ futures' = futures \ Completed
    /\ pc' = "replenish" /\ left' = Cardinality(Completed)
    /\ UNCHANGED <<jobs, future, next, canceling, primary, notes, epoch,
                   session, bundle, tiers, late>>

\* Mutant: only the first error of a group is kept.
Collect_FirstErrorOnly ==
    /\ pc = "wait" /\ Completed # {} /\ futures' = futures \ Completed
    /\ \/ /\ Errors = {} /\ pc' = "replenish" /\ left' = Cardinality(Completed)
          /\ UNCHANGED <<canceling, primary, notes>>
       \/ /\ Errors # {} /\ pc' = "cancel" /\ canceling' = futures'
          /\ primary' = {Least(Errors)} /\ UNCHANGED <<left, notes>>
    /\ UNCHANGED <<jobs, future, next, epoch, session, bundle, tiers, late>>

\* Mutant: a completed future stays among those waited for.
Collect_KeepsFuture ==
    /\ pc = "wait" /\ Completed # {} /\ futures' = futures
    /\ \/ /\ Errors = {} /\ pc' = "replenish" /\ left' = Cardinality(Completed)
          /\ UNCHANGED <<canceling, primary, notes>>
       \/ /\ Errors # {} /\ pc' = "cancel" /\ canceling' = futures'
          /\ primary' = {Least(Errors)} /\ notes' = Errors \ primary'
          /\ UNCHANGED left
    /\ UNCHANGED <<jobs, future, next, epoch, session, bundle, tiers, late>>

\* wait(FIRST_COMPLETED) and the results of every completion there is.  The
\* error of the scenario declared first is raised, the others are noted.
Collect ==
    /\ pc = "wait" /\ Completed # {} /\ futures' = futures \ Completed
    /\ \/ /\ Errors = {} /\ pc' = "replenish" /\ left' = Cardinality(Completed)
          /\ UNCHANGED <<canceling, primary, notes>>
       \/ /\ Errors # {} /\ pc' = "cancel" /\ canceling' = futures'
          /\ primary' = {Least(Errors)} /\ notes' = Errors \ primary'
          /\ UNCHANGED left
    /\ UNCHANGED <<jobs, future, next, epoch, session, bundle, tiers, late>>

\* Mutant: a replacement for each completion, scenarios left or not.
Replace_NoneLeft ==
    /\ pc = "replenish" /\ left > 0
    /\ Submit
    /\ left' = left - 1
    /\ UNCHANGED <<pc, jobs, canceling, primary, notes, epoch, session, bundle,
                   tiers, late>>

\* One replacement for each completion, while there are scenarios left.
Replace ==
    /\ pc = "replenish" /\ left > 0 /\ next <= N
    /\ Submit
    /\ left' = left - 1
    /\ UNCHANGED <<pc, jobs, canceling, primary, notes, epoch, session, bundle,
                   tiers, late>>
Replenished ==
    /\ pc = "replenish" /\ (left = 0 \/ next > N)
    /\ left' = 0
    /\ pc' = IF futures = {} THEN "returned" ELSE "wait"
    /\ UNCHANGED <<jobs, future, futures, next, canceling, primary, notes,
                   epoch, session, bundle, tiers, late>>

\* The user interrupts the coordinator, which waits.
Interrupted ==
    /\ pc = "wait"
    /\ primary' = {Interrupt}
    /\ pc' = "cancel" /\ canceling' = futures
    /\ UNCHANGED <<jobs, future, futures, next, left, notes, epoch, session,
                   bundle, tiers, late>>

\* future.cancel(): a scenario that runs or has ended cannot be cancelled.
CancelFuture(i) ==
    /\ pc = "cancel" /\ i \in canceling
    /\ future' = [future EXCEPT ![i] = IF @ = "pending" THEN "cancelled" ELSE @]
    /\ canceling' = canceling \ {i}
    /\ UNCHANGED <<pc, jobs, futures, next, left, primary, notes, epoch,
                   session, bundle, tiers, late>>

\* Mutant: the pool is shut down without waiting for its workers.
ShutDown_NoWait ==
    /\ pc = "cancel" /\ canceling = {}
    /\ notes' = notes \cup (futures \cap Failed)
    /\ pc' = "raised"
    /\ UNCHANGED <<jobs, future, futures, next, left, canceling, primary, epoch,
                   session, bundle, tiers, late>>

\* shutdown(wait=True): the active workers end; their errors are noted too.
ShutDown ==
    /\ pc = "cancel" /\ canceling = {} /\ Running \cup Pending = {}
    /\ notes' = notes \cup (futures \cap Failed)
    /\ pc' = "raised"
    /\ UNCHANGED <<jobs, future, futures, next, left, canceling, primary, epoch,
                   session, bundle, tiers, late>>
-----------------------------------------------------------------------------
(* The workers: ThreadPoolExecutor, and _run_scenario_summary *)

WorkerStarts(i) ==
    /\ future[i] = "pending" /\ Cardinality(Running) < Workers
    /\ future' = [future EXCEPT ![i] = "running"]
    /\ late' = IF Failed = {} THEN late ELSE late + 1
    /\ UNCHANGED <<coordinator, epoch, session, bundle, tiers>>

ThisEpoch(i) == epoch[i] + 1
RunsEpoch(i) == future[i] = "running" /\ epoch[i] < Epochs

\* A scenario raises, in its environment, its session, its grading, or
\* anywhere in the retention of a bundle.
ScenarioFails(i) ==
    /\ future[i] = "running"
    /\ future' = [future EXCEPT ![i] = "failed"]
    /\ UNCHANGED <<coordinator, epoch, session, bundle, tiers, late>>

\* The session of the epoch, paid for, and its grading.
SessionRuns(i) ==
    /\ RunsEpoch(i) /\ ~session[i]
    /\ session' = [session EXCEPT ![i] = TRUE]
    /\ UNCHANGED <<coordinator, future, epoch, bundle, tiers, late>>

\* Mutant: a bundle is written over the one there is.
BundleBegins_Over(i) ==
    /\ RunsEpoch(i) /\ session[i] /\ bundle[i][ThisEpoch(i)] # "partial"
    /\ bundle' = [bundle EXCEPT ![i][ThisEpoch(i)] = "partial"]
    /\ UNCHANGED <<coordinator, future, epoch, session, tiers, late>>

\* _retain_evidence_bundle: a directory of its own ...
BundleBegins(i) ==
    /\ RunsEpoch(i) /\ session[i] /\ bundle[i][ThisEpoch(i)] = "none"
    /\ bundle' = [bundle EXCEPT ![i][ThisEpoch(i)] = "partial"]
    /\ UNCHANGED <<coordinator, future, epoch, session, tiers, late>>
BundleRefused(i) ==
    /\ RunsEpoch(i) /\ session[i] /\ bundle[i][ThisEpoch(i)] = "another's"
    /\ future' = [future EXCEPT ![i] = "failed"]
    /\ UNCHANGED <<coordinator, epoch, session, bundle, tiers, late>>
\* ... which its digest completes.
BundleEnds(i) ==
    /\ RunsEpoch(i) /\ session[i] /\ bundle[i][ThisEpoch(i)] = "partial"
    /\ bundle' = [bundle EXCEPT ![i][ThisEpoch(i)] = "whole"]
    /\ epoch' = [epoch EXCEPT ![i] = @ + 1]
    /\ session' = [session EXCEPT ![i] = FALSE]
    /\ UNCHANGED <<coordinator, future, tiers, late>>

\* _promote_certified_run, of the epochs that qualify and in their order: the
\* qualification is written again, and then the digest.
Stale(i) == \E e \in Epoch : bundle[i][e] = "stale digest"
Requalify(i, e) ==
    /\ future[i] = "running" /\ epoch[i] = Epochs /\ ~Stale(i)
    /\ \A d \in e .. Epochs : bundle[i][d] = "whole"
    /\ bundle' = [bundle EXCEPT ![i][e] = "stale digest"]
    /\ UNCHANGED <<coordinator, future, epoch, session, tiers, late>>
Redigest(i, e) ==
    /\ future[i] = "running" /\ bundle[i][e] = "stale digest"
    /\ bundle' = [bundle EXCEPT ![i][e] = "certified"]
    /\ UNCHANGED <<coordinator, future, epoch, session, tiers, late>>

\* Mutant: the digest of a promoted run is not written again.
ScenarioSucceeds_StaleDigest(i) ==
    /\ future[i] = "running" /\ epoch[i] = Epochs
    /\ future' = [future EXCEPT ![i] = "ok"]
    /\ UNCHANGED <<coordinator, epoch, session, bundle, tiers, late>>

ScenarioSucceeds(i) ==
    /\ future[i] = "running" /\ epoch[i] = Epochs /\ ~Stale(i)
    /\ future' = [future EXCEPT ![i] = "ok"]
    /\ UNCHANGED <<coordinator, epoch, session, bundle, tiers, late>>
-----------------------------------------------------------------------------
Coordinate ==
    \/ RunNext \/ SerialEnds
    \/ SubmitFirst \/ Collect \/ Replace \/ Replenished
    \/ (\E i \in Scenario : CancelFuture(i)) \/ ShutDown

Work(i) ==
    \/ WorkerStarts(i) \/ ScenarioFails(i)
    \/ SessionRuns(i) \/ BundleBegins(i) \/ BundleRefused(i) \/ BundleEnds(i)
    \/ (\E e \in Epoch : Requalify(i, e) \/ Redigest(i, e))
    \/ ScenarioSucceeds(i)

Next ==
    \/ TierStarts \/ ProcessEnds \/ Interrupted
    \/ Coordinate
    \/ \E i \in Scenario : Work(i)
    \/ \E i \in Scenario, e \in Epoch : AnotherRetains(i, e)

\* The coordinator and every worker are threads that the system schedules; a
\* session ends, because its turns are counted and each has a deadline.  A
\* tier need not be started, interrupted or killed.
Spec ==
    /\ Init /\ [][Next]_vars
    /\ WF_vars(Coordinate)
    /\ \A i \in Scenario : WF_vars(Work(i))
-----------------------------------------------------------------------------
(* Properties *)

Answered == {"returned", "raised", "refused", "blocked"}

FutureStates == {"none", "pending", "running", "ok", "failed", "cancelled"}
BundleStates == {"none", "partial", "whole", "stale digest", "certified",
                 "another's"}

\* Every variable has its type, in coordinator, workers and evidence root.
TypeOK ==
    /\ pc \in {"down", "serial", "submit", "wait", "replenish", "cancel"}
              \cup Answered
    /\ jobs \in 1 .. MaxWorkers
    /\ future \in [Scenario -> FutureStates]
    /\ futures \subseteq Scenario /\ canceling \subseteq Scenario
    /\ next \in 1 .. N + 1 /\ left \in 0 .. N
    /\ primary \subseteq Scenario \cup {Interrupt} /\ notes \subseteq Scenario
    /\ epoch \in [Scenario -> 0 .. Epochs]
    /\ session \in [Scenario -> BOOLEAN]
    /\ bundle \in [Scenario -> [Epoch -> BundleStates]]
    /\ tiers \in 0 .. MaxTiers /\ late \in Nat

\* The error that leaves run() is the failure of a scenario, or the interrupt,
\* with the failure of every other scenario noted on it: no worker fails
\* unseen, whatever it races with (tier.py 2597-2644).
NoFailureLost ==
    pc = "raised" => /\ Cardinality(primary) = 1
                     /\ Failed \subseteq primary \cup notes
                     /\ primary \cap notes = {}

\* Once a scenario has failed, fewer scenarios start than there are workers:
\* those already handed to the pool, and the replacements of a group that
\* completed before the failure.
FewLateStarts == late < Workers

\* A failure stops the tier and none of them is lost, however the workers race
\* with the coordinator.
FailureIsHandled == NoFailureLost /\ FewLateStarts

\* A tier returns its report only when every scenario has left a complete
\* bundle, whose digest is that of its contents, of every epoch.
ReturnedEvidenceIsWhole ==
    pc = "returned" =>
        \A i \in Scenario, e \in Epoch : bundle[i][e] \in {"whole", "certified"}

\* No session is paid for an epoch of which this runner began to retain
\* evidence, in this process or in one that was killed.
EvidencedEpochIsNotRerun ==
    [][\A i \in Scenario :
          session'[i] /\ ~session[i] =>
              bundle[i][ThisEpoch(i)] \in {"none", "another's"}]_vars

\* A bundle that another tier retained, after this one had found the
\* destination free, is not written over.
OthersBundleKept ==
    [][\A i \in Scenario, e \in Epoch :
          bundle[i][e] = "another's" => bundle'[i][e] = "another's"]_vars

\* Evidence that was paid for is whole when it is reported, is not paid for
\* again, and is nobody's to overwrite.
EvidenceIsKept ==
    []ReturnedEvidenceIsWhole /\ EvidencedEpochIsNotRerun /\ OthersBundleKept

\* The pool and the serial branch are a tier: see TierPromise.
Promise == INSTANCE TierPromise WITH
    ran <- [i \in Scenario |->
               IF future[i] \in {"running", "ok", "failed"} THEN future[i]
               ELSE "not started"],
    answer <- CASE pc = "returned" -> "report"
                [] pc = "blocked" -> "blocked"
                [] pc \in {"raised", "refused"} -> "error"
                [] OTHER -> "none"
KeepsPromise == Promise!Spec

\* Every tier that starts gives its report or its error, or is killed: the
\* coordinator and its workers do not wait for one another for ever.
TierAnswers == pc \notin Answered \cup {"down"} ~> pc \in Answered \cup {"down"}
=============================================================================
