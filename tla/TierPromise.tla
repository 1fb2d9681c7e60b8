---------------------------- MODULE TierPromise ----------------------------
(***************************************************************************)
(* What one run of a tier promises its caller (runner/tier.py, TierRunner. *)
(* run), whatever number of workers it uses: a scenario runs at most once, *)
(* the report is returned only when all of them have succeeded, and        *)
(* nothing runs any more once the report or the error is out.              *)
(***************************************************************************)
CONSTANTS Scenario

VARIABLES ran, answer

vars == <<ran, answer>>

Init == ran = [i \in Scenario |-> "not started"] /\ answer = "none"

Begin(i) ==
    /\ answer = "none" /\ ran[i] = "not started"
    /\ ran' = [ran EXCEPT ![i] = "running"]
    /\ UNCHANGED answer

End(i) ==
    /\ ran[i] = "running"
    /\ \E end \in {"ok", "failed"} : ran' = [ran EXCEPT ![i] = end]
    /\ UNCHANGED answer

Report ==
    /\ answer = "none" /\ \A i \in Scenario : ran[i] = "ok"
    /\ answer' = "report" /\ UNCHANGED ran

\* The canary blocks the tier before any scenario.
Block ==
    /\ answer = "none" /\ \A i \in Scenario : ran[i] = "not started"
    /\ answer' = "blocked" /\ UNCHANGED ran

Raise ==
    /\ answer = "none" /\ \A i \in Scenario : ran[i] # "running"
    /\ answer' = "error" /\ UNCHANGED ran

\* The process ends, or is killed; another may run the tier.
Again ==
    /\ ran' = [i \in Scenario |-> "not started"]
    /\ answer' = "none"

Next == (\E i \in Scenario : Begin(i) \/ End(i)) \/ Report \/ Block \/ Raise \/ Again

Spec == Init /\ [][Next]_vars
=============================================================================
