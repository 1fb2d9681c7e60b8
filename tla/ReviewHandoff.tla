---------------------------- MODULE ReviewHandoff ----------------------------
(***************************************************************************)
(* The review hand-off of one live conversation: the hook processes of     *)
(* runner/review_guard.py and the reviewer deadline of                     *)
(* runner/claude_adapter.py.  The owner asks for tool calls, several in    *)
(* one message, and sees their results when the whole message is answered. *)
(* Around each call two hook processes run, each with the state file       *)
(* locked; between them the call is answered by the supervisor or by the   *)
(* reviewer.  A hook may raise an exception, and the host kills one after  *)
(* five seconds.  The adapter polls the file without the lock.             *)
(*                                                                         *)
(* The supervisor numbers its captures and answers a call that names       *)
(* another revision with an error; it, the host that runs the hooks and    *)
(* the provider's tool loop are modelled from how the guard uses them.     *)
(* File access, the prompt's text, the reviewer's own calls and the length *)
(* of the deadline are left out.                                           *)
(***************************************************************************)
EXTENDS Naturals, FiniteSets

CONSTANTS
    Calls,           \* tool calls of the conversation
    MaxParallel,     \* bound: calls of one message
    MaxCaptures,     \* bound: captures the supervisor accepts
    MaxFaults,       \* bound: hook processes that fail or are killed
    HooksAreKilled,  \* whether the host kills a hook that takes too long
    None

ASSUME BoundAssumption ==
    MaxParallel \in Nat /\ MaxCaptures \in Nat /\ MaxFaults \in Nat
ASSUME KillAssumption == HooksAreKilled \in BOOLEAN
ASSUME NoneAssumption == None \notin Calls

Gen == 0 .. MaxCaptures    \* 0: no capture
Kinds == {"capture", "agent", "report"}
Answers == {"error", "plain", "review", "unusable", "empty", "claims", "accepted"}

VARIABLES
    guard,        \* the state file: state, generation, reviewer, report,
                  \*   review_input_error, completed dispatcher
    torn,         \* the state file was cut short by a kill
    call,         \* the tool calls
    supervisor,   \* its capture and what it waits for
    deadline,     \* _review_deadline_id while the clock is armed, or None
    faults,
    claims,       \* history: captures whose reviewer returned claims
    let,          \* history: captures reported, or left at a stop, without claims
    released,     \* history: captures the guard has let go of
    unguarded     \* history: captures over which a hook failed or was killed

excused == <<released, unguarded>>
vars == <<guard, torn, call, supervisor, deadline, faults, claims, let, excused>>

Unused == [kind |-> "none", at |-> "unused", for |-> 0, answer |-> "error"]
Normal == [state |-> "normal", gen |-> 0, reviewer |-> None, report |-> None,
           error |-> FALSE, completed |-> None]

Init ==
    /\ guard = Normal /\ torn = FALSE
    /\ call = [c \in Calls |-> Unused]
    /\ supervisor = [gen |-> 0, waits |-> FALSE]
    /\ deadline = None /\ faults = 0
    /\ claims = {} /\ let = {} /\ released = {} /\ unguarded = {}

Outstanding == {c \in Calls : call[c].at \notin {"unused", "done"}}
At(c, place, kind) == call[c].at = place /\ call[c].kind = kind
Moves(c, place) == call' = [call EXCEPT ![c].at = place]
Writes(g) == ~torn /\ guard' = g
-----------------------------------------------------------------------------
(* The conversation *)

\* A message is complete before its first call runs, so its calls can only
\* name captures of earlier messages.
Ask(c, kind, g) ==
    /\ call[c].at = "unused"
    /\ \A d \in Outstanding : call[d].at = "asked"
    /\ Cardinality(Outstanding) < MaxParallel
    /\ g \in Gen /\ g <= supervisor.gen /\ (kind = "capture" => g = supervisor.gen)
    /\ call' = [call EXCEPT ![c] = [kind |-> kind, at |-> "asked", for |-> g,
                                    answer |-> "error"]]
    /\ UNCHANGED <<guard, torn, supervisor, deadline, faults, claims, let, excused>>

Unreviewed == IF supervisor.waits THEN {supervisor.gen} \ claims ELSE {}

\* The Stop hook lets a turn end without a pending hand-off, or with one
\* whose retained inputs the supervisor did not provide.
Stop ==
    /\ Outstanding = {} /\ ~torn
    /\ guard.state = "normal" \/ (guard.state = "review_dispatch_pending" /\ guard.error)
    /\ let' = let \cup Unreviewed
    /\ UNCHANGED <<guard, torn, call, supervisor, deadline, faults, claims, excused>>
-----------------------------------------------------------------------------
(* PreToolUse: _owner_pre *)

others == <<torn, supervisor, deadline, faults, claims, let>>

Unconstrained(c) ==
    /\ call[c].at = "asked" /\ ~torn /\ guard.state = "normal"
    /\ Moves(c, "running") /\ UNCHANGED <<guard, others, excused>>

\* Mutant: the claim of an earlier dispatch is not looked at.
Unclaimed_Any(c) ==
    /\ At(c, "asked", "agent") /\ guard.state = "review_dispatch_pending"
    /\ ~guard.error

Unclaimed(c) ==
    /\ At(c, "asked", "agent") /\ guard.state = "review_dispatch_pending"
    /\ guard.reviewer = None /\ ~guard.error

Dispatches(c) == Unclaimed(c) /\ call[c].for = guard.gen

Dispatch(c) ==
    /\ Dispatches(c) /\ Writes([guard EXCEPT !.reviewer = c])
    /\ Moves(c, "reviewing") /\ UNCHANGED <<others, excused>>

\* The retained inputs are looked at again, and are gone.
InputsGone(c) ==
    /\ Unclaimed(c)
    /\ Writes([guard EXCEPT !.error = TRUE])
    /\ released' = released \cup {guard.gen}
    /\ Moves(c, "done") /\ UNCHANGED <<others, unguarded>>

\* Mutant: a report is also let through while the reviewer is at work.
Relays_Early(c) ==
    /\ At(c, "asked", "report") /\ call[c].for = guard.gen
    /\ guard.state \in {"review_dispatch_pending", "relay_pending"}

Relays(c) ==
    /\ At(c, "asked", "report") /\ guard.state = "relay_pending"
    /\ call[c].for = guard.gen

Relay(c) ==
    /\ Relays(c)
    /\ Writes([guard EXCEPT !.state = "report_in_flight", !.report = c])
    /\ Moves(c, "running") /\ UNCHANGED <<others, excused>>

\* Every other call is denied.
Deny(c) ==
    /\ call[c].at = "asked"
    /\ ~torn /\ guard.state # "normal" /\ ~Relays(c)
    /\ Moves(c, "done") /\ UNCHANGED <<guard, others, excused>>
-----------------------------------------------------------------------------
(* The calls are answered: the supervisor and the reviewer (external) *)

Answered(c, answer) == call' = [call EXCEPT ![c].at = "answered", ![c].answer = answer]
guarded == <<guard, torn, deadline, faults, let, excused>>

\* A capture asks for a review with usable inputs, for one without, or for
\* none.
Capture(c, answer) ==
    /\ At(c, "running", "capture") /\ Answered(c, answer)
    /\ call[c].for = supervisor.gen /\ supervisor.gen < MaxCaptures
    /\ supervisor' = [gen |-> supervisor.gen + 1, waits |-> answer # "plain"]
    /\ UNCHANGED <<guarded, claims>>

\* Claims, nothing usable, or a failure of the Agent call.
Reviewed(c, answer) ==
    /\ call[c].kind = "agent" /\ call[c].at \in {"running", "reviewing"}
    /\ Answered(c, answer)
    /\ claims' = IF answer = "claims" /\ call[c].at = "reviewing"
                 THEN claims \cup {call[c].for} ELSE claims
    /\ UNCHANGED <<guarded, supervisor>>

AcceptReport(c) ==
    /\ At(c, "running", "report") /\ Answered(c, "accepted")
    /\ call[c].for = supervisor.gen /\ supervisor.waits
    /\ supervisor' = [supervisor EXCEPT !.waits = FALSE]
    /\ let' = let \cup Unreviewed
    /\ UNCHANGED <<guard, torn, deadline, faults, claims, excused>>

Refused(c) ==
    /\ call[c].at = "running" /\ call[c].kind # "agent" /\ Answered(c, "error")
    /\ UNCHANGED <<guarded, supervisor, claims>>
-----------------------------------------------------------------------------
(* PostToolUse and PostToolUseFailure: _handle *)

Answer(c, kind) == At(c, "answered", kind)

\* Every capture supersedes the one before it, whatever it returned.
AfterCapture(c) ==
    /\ Answer(c, "capture") /\ Moves(c, "done")
    /\ LET answer == call[c].answer
           pending == [Normal EXCEPT !.state = "review_dispatch_pending",
                                     !.gen = call[c].for + 1,
                                     !.error = (answer = "unusable")]
       IN  /\ Writes(IF answer \in {"review", "unusable"} THEN pending
                     ELSE [Normal EXCEPT !.completed = guard.completed])
           /\ released' = CASE answer = "error" -> released \cup {guard.gen}
                            [] answer = "unusable" -> released \cup {pending.gen}
                            [] OTHER -> released
    /\ UNCHANGED <<others, unguarded>>

IsReviewer(c) == guard.state = "review_dispatch_pending" /\ guard.reviewer = c

\* Mutant: any answer that is not an error counts as claims.
HasClaims_Any(c) == call[c].answer # "error"

HasClaims(c) == call[c].answer = "claims"

AfterReview(c) ==
    /\ Answer(c, "agent") /\ Moves(c, "done")
    /\ Writes(IF ~IsReviewer(c) THEN guard ELSE
              CASE call[c].answer = "error" -> [guard EXCEPT !.reviewer = None]
                [] HasClaims(c)             -> [guard EXCEPT !.state = "relay_pending"]
                [] OTHER                    -> guard)
    /\ UNCHANGED <<others, excused>>

AfterReport(c) ==
    /\ Answer(c, "report") /\ Moves(c, "done")
    /\ Writes(IF guard.state # "report_in_flight" \/ guard.report # c THEN guard
              ELSE IF call[c].answer = "accepted"
                   THEN [Normal EXCEPT !.completed = guard.reviewer]
                   ELSE [guard EXCEPT !.state = "relay_pending"])
    /\ UNCHANGED <<others, excused>>

-----------------------------------------------------------------------------
(* Hook processes that fail, and the host's kill after five seconds *)

\* A capture's answer that no hook looks at.
Unseen(c) == IF call[c].answer \in {"review", "unusable"} THEN {call[c].for + 1} ELSE {}

Fault == faults < MaxFaults /\ faults' = faults + 1
Kill == HooksAreKilled /\ Fault

\* An exception: the hook denies the call, or leaves its answer unseen.
HookFails(c) ==
    /\ call[c].at \in {"asked", "answered"} /\ Moves(c, "done")
    /\ IF torn THEN UNCHANGED faults ELSE Fault
    /\ unguarded' = unguarded \cup Unseen(c)
    /\ UNCHANGED <<guard, torn, supervisor, deadline, claims, let, released>>

\* A kill: no decision is printed, so the host runs the call or drops it as it
\* pleases (external), and the file is as it was or cut short.  It hits a hook
\* of this call, or one around a call the reviewer makes.
HookKilled(c) ==
    /\ Kill /\ torn' \in {torn, TRUE}
    /\ \/ /\ call[c].at = "asked" /\ Moves(c, "running")
          /\ unguarded' = IF call[c].kind = "report" THEN unguarded \cup {call[c].for}
                          ELSE unguarded
       \/ /\ call[c].at \in {"asked", "answered"} /\ Moves(c, "done")
          /\ unguarded' = unguarded \cup Unseen(c)
       \/ call[c].at = "reviewing" /\ UNCHANGED <<call, unguarded>>
    /\ UNCHANGED <<guard, supervisor, deadline, claims, let, released>>

\* A kill behind the whole write: when the host drops the call all the same,
\* the file still names it.  (When it runs the call, that is Dispatch or Relay.)
HookKilledLate(c) ==
    /\ Kill /\ Moves(c, "done")
    /\ \/ Dispatches(c) /\ Writes([guard EXCEPT !.reviewer = c])
       \/ Relays(c) /\ Writes([guard EXCEPT !.state = "report_in_flight", !.report = c])
    /\ UNCHANGED <<torn, supervisor, deadline, claims, let, excused>>

\* A killed Stop hook does not hold the turn.
StopKilled ==
    /\ Outstanding = {} /\ Kill /\ torn' \in {torn, TRUE}
    /\ let' = let \cup Unreviewed /\ unguarded' = unguarded \cup Unreviewed
    /\ UNCHANGED <<guard, call, supervisor, deadline, claims, released>>
-----------------------------------------------------------------------------
(* The adapter: _refresh_review_deadline *)

Observed ==
    IF guard.state = "normal" /\ guard.reviewer = None THEN guard.completed
    ELSE guard.reviewer

\* Mutant: a file that cannot be read counts as one without a reviewer.
Disarms_Blank ==
    torn \/ Observed = IF guard.state = "review_dispatch_pending" THEN None ELSE deadline

Disarms ==
    ~torn /\ Observed = IF guard.state = "review_dispatch_pending" THEN None ELSE deadline

Arms ==
    ~torn /\ guard.state = "review_dispatch_pending" /\ deadline = None

Poll ==
    /\ deadline' = IF Disarms THEN None ELSE IF Arms THEN Observed ELSE deadline
    /\ UNCHANGED <<guard, torn, call, supervisor, faults, claims, let, excused>>
-----------------------------------------------------------------------------
Next ==
    \/ Stop \/ StopKilled \/ Poll
    \/ \E c \in Calls :
         \/ \E kind \in Kinds, g \in Gen : Ask(c, kind, g)
         \/ Unconstrained(c) \/ Dispatch(c) \/ InputsGone(c) \/ Relay(c) \/ Deny(c)
         \/ \E answer \in {"review", "unusable", "plain"} : Capture(c, answer)
         \/ \E answer \in {"claims", "empty", "error"} : Reviewed(c, answer)
         \/ AcceptReport(c) \/ Refused(c)
         \/ AfterCapture(c) \/ AfterReview(c) \/ AfterReport(c)
         \/ HookFails(c) \/ HookKilled(c) \/ HookKilledLate(c)

Spec == Init /\ [][Next]_vars
-----------------------------------------------------------------------------
(* Properties *)

\* The state file, the calls and the deadline have their types, and a relay is
\* pending only over the claims of a reviewer (the RELAY_PENDING state).
TypeOK ==
    /\ guard.state \in {"normal", "review_dispatch_pending", "relay_pending",
                        "report_in_flight"}
    /\ guard.gen \in Gen /\ guard.error \in BOOLEAN
    /\ {guard.reviewer, guard.report, guard.completed, deadline} \subseteq Calls \cup {None}
    /\ \A c \in Calls :
         call[c].kind \in Kinds \cup {"none"} /\ call[c].for \in Gen
                                              /\ call[c].answer \in Answers
    /\ guard.state \in {"relay_pending", "report_in_flight"} =>
         guard.reviewer # None /\ call[guard.reviewer].answer = "claims"

\* The supervisor accepts a review report, and the conversation stops, only
\* when the reviewer accepted for that very capture has returned claims, in
\* whatever order the hooks of one message run.  Excused are the captures the
\* guard let go, and those over which a hook failed or was killed: the one that
\* would have told the guard of the capture, looked at the report, or held the
\* turn.  A hook that fails over any other call excuses nothing.
HandoffHappened == let \subseteq released \cup unguarded

\* Of the reviewers the guard accepted, one is at work at a time, and none on
\* a capture whose claims have been returned.
OneReviewer ==
    \A c, d \in Calls :
        (call[c].at = "reviewing" /\ call[d].at = "reviewing") =>
            c = d /\ call[c].for \notin claims

\* A report stands for one review that took place.
ReviewTookPlace == HandoffHappened /\ OneReviewer

\* The adapter never disarms the clock of a reviewer that is at work on the
\* latest capture, whatever the hooks write between two polls, whichever of them
\* are killed and however the file was cut.
ClockHeld ==
    [][deadline # None /\ deadline' = None /\ call[deadline].at = "reviewing"
         => call[deadline].for < supervisor.gen]_vars

\* What main says of a hook that fails (review_guard.py:1341): it "must never
\* silently permit a pending relay".  Only a capture the guard let go is
\* reported, or left at a stop, without claims.
\* The code breaks it: a capture whose PostToolUse hook raises leaves the file
\* normal.
FailuresPermitNothing == let \subseteq released
=============================================================================
