------------------------- MODULE ReviewHandoffProofs -------------------------
(***************************************************************************)
(* Proofs about ReviewHandoff, for every set of calls and every bound: the *)
(* type invariant, that a report stands for a review that took place, and  *)
(* that the adapter never disarms the clock of a reviewer at work.         *)
(***************************************************************************)
EXTENDS ReviewHandoff, TLAPS

States == {"normal", "review_dispatch_pending", "relay_pending", "report_in_flight"}
Places == {"unused", "asked", "running", "reviewing", "answered", "done"}
MaybeCalls == Calls \cup {None}
ToolCall == [kind : Kinds \cup {"none"}, at : Places, for : Gen, answer : Answers]
GuardFile == [state : States, gen : Gen, reviewer : MaybeCalls, report : MaybeCalls,
              error : BOOLEAN, completed : MaybeCalls]

Typed ==
    /\ guard \in GuardFile
    /\ call \in [Calls -> ToolCall]
    /\ supervisor \in [gen : Gen, waits : BOOLEAN]
    /\ deadline \in MaybeCalls
    /\ claims \subseteq Gen

Pending == guard.state = "review_dispatch_pending"
Open(c) == call[c].at \notin {"unused", "done"}

(* A capture that succeeded and that the guard has not heard of.           *)
Announced(c) ==
    call[c].at = "answered" /\ call[c].answer \in {"review", "unusable", "plain"}

(* Calls and claims are of captures that exist; a call that is not yet     *)
(* answered has the answer a failure would leave.                          *)
CallsAreOrderly ==
    /\ guard.gen <= supervisor.gen
    /\ \A g \in claims : g <= supervisor.gen
    /\ \A c \in Calls :
        /\ call[c].for <= supervisor.gen
        /\ call[c].at \in {"asked", "running", "reviewing"} => call[c].answer = "error"
        /\ call[c].kind = "capture" =>
             call[c].answer \in {"error", "plain", "review", "unusable"}

(* The calls of the message in which a capture succeeds were asked for     *)
(* before it: they name earlier captures, and no second one succeeds.      *)
MessageIsComplete ==
    \A d \in Calls : Announced(d) =>
        /\ call[d].kind = "capture" /\ call[d].for + 1 = supervisor.gen
        /\ supervisor.waits => call[d].answer # "plain"
        /\ supervisor.gen \notin claims
        /\ \A c \in Calls : Open(c) => call[c].for <= call[d].for

(* A reviewer that the guard accepted works alone, before its claims are   *)
(* on record.  It is the one in the file, unless a capture that a killed   *)
(* hook let run has moved the file on: then no call of the message is of   *)
(* the capture in the file, and none can be dispatched for it.             *)
ReviewerAtWork ==
    \A c \in Calls : call[c].at = "reviewing" =>
        /\ call[c].for \notin claims
        /\ \A d \in Calls : call[d].at = "reviewing" => d = c
        /\ \/ guard.state = "normal"
           \/ Pending /\ guard.reviewer = c
           \/ Pending /\ guard.reviewer = None /\ \A d \in Calls : Open(d) => call[d].for < guard.gen

(* The reviewer of a review that is over has been answered.                *)
CompletedIsOver ==
    guard.completed # None => call[guard.completed].at \in {"answered", "done"}

(* The reviewer in the file was dispatched for the capture in the file,    *)
(* and has returned claims just when they are on record.                   *)
ReviewerOnFile ==
    /\ guard.state = "normal" => guard.reviewer = None
    /\ guard.state # "normal" /\ guard.reviewer # None =>
         /\ call[guard.reviewer].kind = "agent"
         /\ call[guard.reviewer].at \in {"reviewing", "answered", "done"}
         /\ call[guard.reviewer].for = guard.gen
         /\ call[guard.reviewer].answer = "claims" <=> guard.gen \in claims
    /\ Pending /\ guard.reviewer = None => guard.gen \notin claims
    /\ guard.state \in {"relay_pending", "report_in_flight"} =>
         guard.reviewer # None /\ call[guard.reviewer].answer = "claims"

(* No report on the capture of the file is at the supervisor while the     *)
(* guard waits for its reviewer, but one that a killed hook let run.       *)
ReportsWait ==
    Pending => \A c \in Calls :
        At(c, "running", "report") => call[c].for # guard.gen \/ guard.gen \in unguarded

(* Of the capture the supervisor waits for, the guard has claims, or has   *)
(* let it go, or will be told of it, or holds it.                          *)
GuardKnows ==
    supervisor.waits =>
        \/ supervisor.gen \in claims \cup released \cup unguarded
        \/ \E d \in Calls : Announced(d)
        \/ Pending /\ guard.gen = supervisor.gen /\ ~guard.error

HandoffInv ==
    /\ Typed /\ CallsAreOrderly /\ MessageIsComplete /\ ReviewerAtWork
    /\ CompletedIsOver /\ ReviewerOnFile /\ ReportsWait /\ GuardKnows
    /\ HandoffHappened
-----------------------------------------------------------------------------
(* What a step does to the calls and to the file *)

LEMMA MovedCall ==
    ASSUME Typed, NEW c \in Calls, NEW place \in Places, Moves(c, place)
    PROVE  /\ call' \in [Calls -> ToolCall]
           /\ \A d \in Calls :
                /\ call'[d].kind = call[d].kind /\ call'[d].for = call[d].for
                /\ call'[d].answer = call[d].answer
                /\ call'[d].at = IF d = c THEN place ELSE call[d].at
BY DEF Typed, Moves, ToolCall

LEMMA AnsweredCall ==
    ASSUME Typed, NEW c \in Calls, NEW answer \in Answers, Answered(c, answer)
    PROVE  /\ call' \in [Calls -> ToolCall]
           /\ \A d \in Calls :
                /\ call'[d].kind = call[d].kind /\ call'[d].for = call[d].for
                /\ call'[d].answer = IF d = c THEN answer ELSE call[d].answer
                /\ call'[d].at = IF d = c THEN "answered" ELSE call[d].at
BY DEF Typed, Answered, ToolCall, Places

LEMMA NormalFile ==
    ASSUME NEW r \in MaybeCalls
    PROVE  LET f == [Normal EXCEPT !.completed = r]
           IN  f \in GuardFile /\ f.state = "normal" /\ f.reviewer = None
<1>1. Normal \in GuardFile /\ Normal.state = "normal" /\ Normal.reviewer = None
  BY BoundAssumption DEF Normal, Gen, GuardFile, States, MaybeCalls
<1>2. \A f \in GuardFile :
        LET g == [f EXCEPT !.completed = r]
        IN  g \in GuardFile /\ g.state = f.state /\ g.reviewer = f.reviewer
  BY DEF GuardFile
<1> QED BY <1>1, <1>2

(* A call of an orderly conversation: the fields the invariant speaks of.  *)
LEMMA CallFields ==
    ASSUME Typed
    PROVE  /\ \A c \in Calls : call[c] \in ToolCall /\ call[c].for \in Gen
                               /\ call[c].at \in Places /\ call[c].kind \in Kinds \cup {"none"}
                               /\ call[c].answer \in Answers
           /\ supervisor.gen \in Gen /\ supervisor.waits \in BOOLEAN /\ guard.gen \in Gen
           /\ Gen \subseteq Nat
BY BoundAssumption DEF Typed, ToolCall, GuardFile, Gen
-----------------------------------------------------------------------------
(* A call ends without a change of the file: it is denied, its hook fails  *)
(* or is killed, or the guard lets it pass.                                *)

Ending ==
    /\ UNCHANGED <<guard, supervisor, claims, let, deadline, released>>
    /\ unguarded \subseteq unguarded'

LEMMA EndingStep ==
    ASSUME HandoffInv, Ending, NEW c \in Calls, call[c].at \in {"asked", "answered"},
           Moves(c, "done"),
           call[c].answer \in {"review", "unusable"} /\ call[c].at = "answered" =>
               call[c].for + 1 \in unguarded'
    PROVE  HandoffInv'
<1> USE DEF HandoffInv, Ending
<1>0. /\ call' \in [Calls -> ToolCall]
      /\ \A d \in Calls :
           /\ call'[d].kind = call[d].kind /\ call'[d].for = call[d].for
           /\ call'[d].answer = call[d].answer
           /\ call'[d].at = IF d = c THEN "done" ELSE call[d].at
  BY MovedCall DEF Places
<1>1. Typed'
  BY <1>0 DEF Typed
<1>2. CallsAreOrderly'
  BY <1>0 DEF CallsAreOrderly
<1>3. MessageIsComplete'
  BY <1>0 DEF MessageIsComplete, Announced, Open
<1>4. CompletedIsOver'
  BY <1>0 DEF CompletedIsOver, Typed, GuardFile, MaybeCalls
<1>5. ReviewerAtWork'
  BY <1>0 DEF ReviewerAtWork, Open, Pending
<1>6. ReviewerOnFile'
  BY <1>0, NoneAssumption DEF ReviewerOnFile, Pending, Typed, GuardFile, MaybeCalls
<1>7. ReportsWait'
  BY <1>0 DEF ReportsWait, Pending, At
<1>8. GuardKnows'
  BY <1>0 DEF GuardKnows, Pending, Announced, MessageIsComplete
<1>9. HandoffHappened'
  BY DEF HandoffHappened
<1> QED BY <1>1, <1>2, <1>3, <1>4, <1>5, <1>6, <1>7, <1>8, <1>9
(* A call runs: the guard waits for nothing, or its hook was killed.       *)
LEMMA RunningStep ==
    ASSUME HandoffInv, Ending, NEW c \in Calls, call[c].at = "asked",
           Moves(c, "running"),
           call[c].kind = "report" => guard.state = "normal" \/ call[c].for \in unguarded'
    PROVE  HandoffInv'
<1> USE DEF HandoffInv, Ending
<1>0. /\ call' \in [Calls -> ToolCall]
      /\ \A d \in Calls :
           /\ call'[d].kind = call[d].kind /\ call'[d].for = call[d].for
           /\ call'[d].answer = call[d].answer
           /\ call'[d].at = IF d = c THEN "running" ELSE call[d].at
  BY MovedCall DEF Places
<1>1. Typed'
  BY <1>0 DEF Typed
<1>2. CallsAreOrderly'
  BY <1>0 DEF CallsAreOrderly
<1>3. MessageIsComplete'
  BY <1>0 DEF MessageIsComplete, Announced, Open
<1>4. CompletedIsOver'
  BY <1>0 DEF CompletedIsOver, Typed, GuardFile, MaybeCalls
<1>5. ReviewerAtWork'
  BY <1>0 DEF ReviewerAtWork, Open, Pending
<1>6. ReviewerOnFile'
  BY <1>0, NoneAssumption DEF ReviewerOnFile, Pending, Typed, GuardFile, MaybeCalls
<1>7. ReportsWait'
  BY <1>0 DEF ReportsWait, Pending, At
<1>8. GuardKnows'
  BY <1>0 DEF GuardKnows, Pending, Announced, MessageIsComplete
<1>9. HandoffHappened'
  BY <1>0 DEF HandoffHappened
<1> QED BY <1>1, <1>2, <1>3, <1>4, <1>5, <1>6, <1>7, <1>8, <1>9

-----------------------------------------------------------------------------
(* The hooks before a call *)

LEMMA UnconstrainedStep ==
    ASSUME HandoffInv, NEW c \in Calls, Unconstrained(c)
    PROVE  HandoffInv'
<1>1. /\ call[c].at = "asked" /\ guard.state = "normal" /\ Moves(c, "running")
      /\ UNCHANGED <<guard, others, excused>>
  BY DEF Unconstrained
<1> QED BY <1>1, RunningStep DEF Ending, others, excused

LEMMA DispatchStep ==
    ASSUME HandoffInv, NEW c \in Calls, Dispatch(c)
    PROVE  HandoffInv'
<1> USE DEF HandoffInv
<1>0. /\ call' \in [Calls -> ToolCall]
      /\ \A d \in Calls :
           /\ call'[d].kind = call[d].kind /\ call'[d].for = call[d].for
           /\ call'[d].answer = call[d].answer
           /\ call'[d].at = IF d = c THEN "reviewing" ELSE call[d].at
  BY MovedCall DEF Places, Dispatch
<1>a. /\ guard' \in GuardFile /\ guard'.state = guard.state /\ guard'.gen = guard.gen
      /\ guard'.reviewer = c /\ guard'.error = guard.error /\ guard'.completed = guard.completed
  BY DEF Typed, GuardFile, MaybeCalls, Dispatch, Writes
<1>b. /\ Pending /\ guard.reviewer = None /\ call[c].at = "asked" /\ call[c].kind = "agent"
      /\ call[c].for = guard.gen /\ UNCHANGED <<others, excused>>
  BY DEF Dispatch, Dispatches, Unclaimed, At, Pending
<1>1. Typed'
  BY <1>0, <1>a, <1>b, CallFields DEF Typed, others, excused
<1>2. CallsAreOrderly'
  BY <1>0, <1>a, <1>b, CallFields DEF CallsAreOrderly, others, excused
<1>3. MessageIsComplete'
  BY <1>0, <1>a, <1>b, CallFields DEF MessageIsComplete, Announced, Open, others, excused
<1>4. CompletedIsOver'
  BY <1>0, <1>a, <1>b, CallFields DEF CompletedIsOver, Typed, GuardFile, MaybeCalls, others, excused
<1>5. ReviewerAtWork'
  <2>1. call[c].for \notin claims
    BY <1>b DEF ReviewerOnFile, Pending
  <2>2. \A d \in Calls : call[d].at # "reviewing"
    BY <1>b, CallFields, NoneAssumption DEF ReviewerAtWork, Open, Pending
  <2> QED BY <2>1, <2>2, <1>0, <1>a, <1>b DEF ReviewerAtWork, Pending, others
<1>6. ReviewerOnFile'
  BY <1>0, <1>a, <1>b, CallFields, NoneAssumption DEF ReviewerOnFile, Pending, Typed, GuardFile, MaybeCalls, CallsAreOrderly, others, excused
<1>7. ReportsWait'
  BY <1>0, <1>a, <1>b, CallFields DEF ReportsWait, Pending, At, others, excused
<1>8. GuardKnows'
  BY <1>0, <1>a, <1>b, CallFields DEF GuardKnows, Pending, Announced, MessageIsComplete, others, excused
<1>9. HandoffHappened'
  BY <1>0, <1>a, <1>b, CallFields DEF HandoffHappened, others, excused
<1> QED BY <1>1, <1>2, <1>3, <1>4, <1>5, <1>6, <1>7, <1>8, <1>9

LEMMA RelayStep ==
    ASSUME HandoffInv, NEW c \in Calls, Relay(c)
    PROVE  HandoffInv'
<1> USE DEF HandoffInv
<1>0. /\ call' \in [Calls -> ToolCall]
      /\ \A d \in Calls :
           /\ call'[d].kind = call[d].kind /\ call'[d].for = call[d].for
           /\ call'[d].answer = call[d].answer
           /\ call'[d].at = IF d = c THEN "running" ELSE call[d].at
  BY MovedCall DEF Places, Relay
<1>a. /\ guard' \in GuardFile /\ guard'.state = "report_in_flight" /\ guard'.gen = guard.gen
      /\ guard'.reviewer = guard.reviewer /\ guard'.error = guard.error
      /\ guard'.completed = guard.completed
  BY DEF Typed, GuardFile, MaybeCalls, States, Relay, Writes
<1>b. /\ guard.state = "relay_pending" /\ call[c].at = "asked" /\ call[c].kind = "report"
      /\ call[c].for = guard.gen /\ UNCHANGED <<others, excused>>
  BY DEF Relay, Relays, At
<1>1. Typed'
  BY <1>0, <1>a, <1>b, CallFields DEF Typed, others, excused
<1>2. CallsAreOrderly'
  BY <1>0, <1>a, <1>b, CallFields DEF CallsAreOrderly, others, excused
<1>3. MessageIsComplete'
  BY <1>0, <1>a, <1>b, CallFields DEF MessageIsComplete, Announced, Open, others, excused
<1>4. CompletedIsOver'
  BY <1>0, <1>a, <1>b, CallFields DEF CompletedIsOver, Typed, GuardFile, MaybeCalls, others, excused
<1>5. ReviewerAtWork'
  BY <1>0, <1>a, <1>b, CallFields DEF ReviewerAtWork, Open, Pending, others, excused
<1>6. ReviewerOnFile'
  BY <1>0, <1>a, <1>b, CallFields, NoneAssumption DEF ReviewerOnFile, Pending, Typed, GuardFile, MaybeCalls, others, excused
<1>7. ReportsWait'
  BY <1>0, <1>a, <1>b, CallFields DEF ReportsWait, Pending, At, others, excused
<1>8. GuardKnows'
  BY <1>0, <1>a, <1>b, CallFields DEF GuardKnows, Pending, Announced, MessageIsComplete, others, excused
<1>9. HandoffHappened'
  BY <1>0, <1>a, <1>b, CallFields DEF HandoffHappened, others, excused
<1> QED BY <1>1, <1>2, <1>3, <1>4, <1>5, <1>6, <1>7, <1>8, <1>9

LEMMA InputsGoneStep ==
    ASSUME HandoffInv, NEW c \in Calls, InputsGone(c)
    PROVE  HandoffInv'
<1> USE DEF HandoffInv
<1>0. /\ call' \in [Calls -> ToolCall]
      /\ \A d \in Calls :
           /\ call'[d].kind = call[d].kind /\ call'[d].for = call[d].for
           /\ call'[d].answer = call[d].answer
           /\ call'[d].at = IF d = c THEN "done" ELSE call[d].at
  BY MovedCall DEF Places, InputsGone
<1>a. /\ guard' \in GuardFile /\ guard'.state = guard.state /\ guard'.gen = guard.gen
      /\ guard'.reviewer = guard.reviewer /\ guard'.error /\ guard'.completed = guard.completed
  BY DEF Typed, GuardFile, InputsGone, Writes
<1>b. /\ Pending /\ guard.reviewer = None /\ call[c].at = "asked" /\ UNCHANGED <<others, unguarded>>
      /\ released' = released \cup {guard.gen}
  BY DEF InputsGone, Unclaimed, At, Pending
<1>1. Typed'
  BY <1>0, <1>a, <1>b, CallFields DEF Typed, others, excused
<1>2. CallsAreOrderly'
  BY <1>0, <1>a, <1>b, CallFields DEF CallsAreOrderly, others, excused
<1>3. MessageIsComplete'
  BY <1>0, <1>a, <1>b, CallFields DEF MessageIsComplete, Announced, Open, others, excused
<1>4. CompletedIsOver'
  BY <1>0, <1>a, <1>b, CallFields DEF CompletedIsOver, Typed, GuardFile, MaybeCalls, others, excused
<1>5. ReviewerAtWork'
  BY <1>0, <1>a, <1>b, CallFields DEF ReviewerAtWork, Open, Pending, others, excused
<1>6. ReviewerOnFile'
  BY <1>0, <1>a, <1>b, CallFields, NoneAssumption DEF ReviewerOnFile, Pending, Typed, GuardFile, MaybeCalls, others, excused
<1>7. ReportsWait'
  BY <1>0, <1>a, <1>b, CallFields DEF ReportsWait, Pending, At, others, excused
<1>8. GuardKnows'
  BY <1>0, <1>a, <1>b, CallFields DEF GuardKnows, Pending, Announced, MessageIsComplete, others, excused
<1>9. HandoffHappened'
  BY <1>0, <1>a, <1>b, CallFields DEF HandoffHappened, others, excused
<1> QED BY <1>1, <1>2, <1>3, <1>4, <1>5, <1>6, <1>7, <1>8, <1>9

(* A hook is killed behind its write of the file, and its call is dropped. *)
LEMMA KilledLateStep ==
    ASSUME HandoffInv, NEW c \in Calls, HookKilledLate(c)
    PROVE  HandoffInv'
<1> USE DEF HandoffInv
<1>0. /\ call' \in [Calls -> ToolCall]
      /\ \A d \in Calls :
           /\ call'[d].kind = call[d].kind /\ call'[d].for = call[d].for
           /\ call'[d].answer = call[d].answer
           /\ call'[d].at = IF d = c THEN "done" ELSE call[d].at
  BY MovedCall DEF Places, HookKilledLate
<1>a. /\ call[c].at = "asked" /\ UNCHANGED <<supervisor, deadline, claims, let, released, unguarded>>
      /\ \/ /\ Pending /\ guard.reviewer = None /\ call[c].kind = "agent"
            /\ call[c].for = guard.gen /\ guard' = [guard EXCEPT !.reviewer = c]
         \/ /\ guard.state = "relay_pending"
            /\ guard' = [guard EXCEPT !.state = "report_in_flight", !.report = c]
  BY DEF HookKilledLate, Dispatches, Unclaimed, Relays, At, Pending, Writes, excused
<1>b. /\ guard' \in GuardFile /\ guard'.gen = guard.gen /\ guard'.error = guard.error
      /\ guard'.completed = guard.completed
      /\ \/ /\ Pending /\ Pending' /\ guard.reviewer = None /\ guard'.reviewer = c
            /\ call[c].kind = "agent" /\ call[c].for = guard.gen
         \/ /\ guard.state = "relay_pending" /\ guard'.state = "report_in_flight"
            /\ guard'.reviewer = guard.reviewer
  BY <1>a DEF Typed, GuardFile, MaybeCalls, States, Pending
<1>c. \A d \in Calls : call[d].at # "reviewing"
  BY <1>a, <1>b, CallFields, NoneAssumption DEF ReviewerAtWork, Open, Pending
<1>1. Typed'
  BY <1>0, <1>a, <1>b DEF Typed
<1>2. CallsAreOrderly'
  BY <1>0, <1>a, <1>b DEF CallsAreOrderly
<1>3. MessageIsComplete'
  BY <1>0, <1>a DEF MessageIsComplete, Announced, Open
<1>4. CompletedIsOver'
  BY <1>0, <1>b DEF CompletedIsOver, Typed, GuardFile, MaybeCalls
<1>5. ReviewerAtWork'
  BY <1>0, <1>c DEF ReviewerAtWork
<1>6. ReviewerOnFile'
  BY <1>0, <1>a, <1>b, CallFields, NoneAssumption
  DEF ReviewerOnFile, Pending, Typed, GuardFile, MaybeCalls, CallsAreOrderly
<1>7. ReportsWait'
  BY <1>0, <1>a, <1>b, CallFields DEF ReportsWait, Pending, At
<1>8. GuardKnows' /\ HandoffHappened'
  BY <1>0, <1>a, <1>b, CallFields DEF GuardKnows, Pending, Announced, HandoffHappened
<1> QED BY <1>1, <1>2, <1>3, <1>4, <1>5, <1>6, <1>7, <1>8

-----------------------------------------------------------------------------
(* The supervisor and the reviewer *)

LEMMA CaptureStep ==
    ASSUME HandoffInv, NEW c \in Calls, NEW answer \in {"review", "unusable", "plain"}, Capture(c, answer)
    PROVE  HandoffInv'
<1> USE DEF HandoffInv
<1>0. /\ call' \in [Calls -> ToolCall]
      /\ \A d \in Calls :
           /\ call'[d].kind = call[d].kind /\ call'[d].for = call[d].for
           /\ call'[d].answer = IF d = c THEN answer ELSE call[d].answer
           /\ call'[d].at = IF d = c THEN "answered" ELSE call[d].at
  BY AnsweredCall DEF Answers, Capture
<1>a. /\ call[c].at = "running" /\ call[c].kind = "capture" /\ call[c].for = supervisor.gen
      /\ supervisor'.gen = supervisor.gen + 1 /\ supervisor'.gen \in Gen
      /\ supervisor'.waits = (answer # "plain")
      /\ UNCHANGED <<guarded, claims>>
  BY BoundAssumption, CallFields DEF Capture, At, Gen
<1>b. supervisor' \in [gen : Gen, waits : BOOLEAN]
  BY <1>a DEF Capture
<1>c. \A d \in Calls : ~Announced(d)
  BY <1>a, CallFields DEF MessageIsComplete, Open
<1>d. supervisor'.gen \notin claims'
  BY <1>a, CallFields DEF CallsAreOrderly
<1>1. Typed'
  BY <1>0, <1>a, <1>b, <1>c, <1>d, CallFields DEF Typed, guarded, excused
<1>2. CallsAreOrderly'
  <2>1. \A g \in claims' : g <= supervisor'.gen
    BY <1>a, CallFields DEF CallsAreOrderly, Typed
  <2>2. \A d \in Calls : call'[d].for <= supervisor'.gen
    BY <1>0, <1>a, CallFields DEF CallsAreOrderly
  <2>3. guard'.gen <= supervisor'.gen
    BY <1>a, CallFields DEF CallsAreOrderly, guarded
  <2> QED BY <1>0, <2>1, <2>2, <2>3 DEF CallsAreOrderly
<1>3. MessageIsComplete'
  <2>1. \A d \in Calls : Announced(d)' => d = c
    BY <1>0, <1>c DEF Announced
  <2>2. \A d \in Calls : call'[d].for <= call'[c].for
    BY <1>0, <1>a, CallFields DEF CallsAreOrderly
  <2>3. call'[c].kind = "capture" /\ call'[c].for + 1 = supervisor'.gen /\ call'[c].answer = answer
    BY <1>0, <1>a
  <2> QED BY <2>1, <2>2, <2>3, <1>a, <1>d DEF MessageIsComplete
<1>4. CompletedIsOver'
  BY <1>0, <1>a, <1>b, <1>c, <1>d, CallFields DEF CompletedIsOver, Typed, GuardFile, MaybeCalls, guarded, excused
<1>5. ReviewerAtWork'
  BY <1>0, <1>a, <1>b, <1>c, <1>d, CallFields DEF ReviewerAtWork, Open, Pending, guarded, excused
<1>6. ReviewerOnFile'
  BY <1>0, <1>a, <1>b, <1>c, <1>d, CallFields, NoneAssumption DEF ReviewerOnFile, Pending, Typed, GuardFile, MaybeCalls, guarded, excused
<1>7. ReportsWait'
  BY <1>0, <1>a, <1>b, <1>c, <1>d, CallFields DEF ReportsWait, Pending, At, guarded, excused
<1>8. GuardKnows'
  BY <1>0, <1>a, <1>b, <1>c, <1>d, CallFields DEF GuardKnows, Pending, Announced, MessageIsComplete, guarded, excused
<1>9. HandoffHappened'
  BY <1>0, <1>a, <1>b, <1>c, <1>d, CallFields DEF HandoffHappened, guarded, excused
<1> QED BY <1>1, <1>2, <1>3, <1>4, <1>5, <1>6, <1>7, <1>8, <1>9

LEMMA ReviewedStep ==
    ASSUME HandoffInv, NEW c \in Calls, NEW answer \in {"claims", "empty", "error"}, Reviewed(c, answer)
    PROVE  HandoffInv'
<1> USE DEF HandoffInv
<1>0. /\ call' \in [Calls -> ToolCall]
      /\ \A d \in Calls :
           /\ call'[d].kind = call[d].kind /\ call'[d].for = call[d].for
           /\ call'[d].answer = IF d = c THEN answer ELSE call[d].answer
           /\ call'[d].at = IF d = c THEN "answered" ELSE call[d].at
  BY AnsweredCall DEF Answers, Reviewed
<1>a. /\ call[c].at \in {"running", "reviewing"} /\ call[c].kind = "agent"
      /\ claims' = (IF answer = "claims" /\ call[c].at = "reviewing"
                   THEN claims \cup {call[c].for} ELSE claims)
      /\ UNCHANGED <<guarded, supervisor>>
  BY DEF Reviewed
<1>1. Typed'
  BY <1>0, <1>a, CallFields DEF Typed, guarded, excused
<1>2. CallsAreOrderly'
  BY <1>0, <1>a, CallFields DEF CallsAreOrderly, guarded, excused
<1>3. MessageIsComplete'
  BY <1>0, <1>a, CallFields DEF MessageIsComplete, Announced, Open, guarded, excused
<1>4. CompletedIsOver'
  BY <1>0, <1>a, CallFields DEF CompletedIsOver, Typed, GuardFile, MaybeCalls, guarded, excused
<1>5. ReviewerAtWork'
  BY <1>0, <1>a, CallFields DEF ReviewerAtWork, Open, Pending, guarded, excused
<1>6. ReviewerOnFile'
  <2>1. CASE call[c].at = "reviewing" /\ Pending /\ guard.reviewer = c
    <3>1. guard.gen \notin claims /\ call[c].for = guard.gen
      BY <2>1, NoneAssumption DEF ReviewerAtWork, ReviewerOnFile, Pending
    <3>2. answer = "claims" <=> guard.gen \in claims'
      BY <1>a, <2>1, <3>1
    <3> QED BY <1>0, <1>a, <2>1, <3>1, <3>2, NoneAssumption DEF ReviewerOnFile, Pending, guarded
  <2>3. CASE guard.state = "normal"
    BY <1>a, <2>3 DEF ReviewerOnFile, Pending, guarded
  <2>4. CASE Pending /\ guard.reviewer = None /\ call[c].for < guard.gen
    <3>1. guard.gen \notin claims'
      BY <1>a, <2>4, CallFields DEF ReviewerOnFile
    <3> QED BY <1>a, <2>4, <3>1 DEF ReviewerOnFile, Pending, guarded
  <2>2. CASE call[c].at = "running"
    <3>1. claims' = claims
      BY <1>a, <2>2
    <3>2. guard.reviewer # None /\ guard.state # "normal" => guard.reviewer # c
      BY <2>2 DEF ReviewerOnFile
    <3> QED BY <1>0, <1>a, <3>1, <3>2 DEF ReviewerOnFile, Pending, guarded, excused, Typed, GuardFile, MaybeCalls
  <2> QED BY <1>a, <2>1, <2>2, <2>3, <2>4 DEF ReviewerAtWork, Open
<1>7. ReportsWait'
  BY <1>0, <1>a, CallFields DEF ReportsWait, Pending, At, guarded, excused
<1>8. GuardKnows'
  BY <1>0, <1>a, CallFields DEF GuardKnows, Pending, Announced, MessageIsComplete, guarded, excused
<1>9. HandoffHappened'
  BY <1>0, <1>a, CallFields DEF HandoffHappened, guarded, excused
<1> QED BY <1>1, <1>2, <1>3, <1>4, <1>5, <1>6, <1>7, <1>8, <1>9

LEMMA RefusedStep ==
    ASSUME HandoffInv, NEW c \in Calls, Refused(c)
    PROVE  HandoffInv'
<1> USE DEF HandoffInv
<1>0. /\ call' \in [Calls -> ToolCall]
      /\ \A d \in Calls :
           /\ call'[d].kind = call[d].kind /\ call'[d].for = call[d].for
           /\ call'[d].answer = IF d = c THEN "error" ELSE call[d].answer
           /\ call'[d].at = IF d = c THEN "answered" ELSE call[d].at
  BY AnsweredCall DEF Answers, Refused
<1>a. call[c].at = "running" /\ UNCHANGED <<guarded, supervisor, claims>>
  BY DEF Refused
<1>1. Typed'
  BY <1>0, <1>a, CallFields DEF Typed, guarded, excused
<1>2. CallsAreOrderly'
  BY <1>0, <1>a, CallFields DEF CallsAreOrderly, guarded, excused
<1>3. MessageIsComplete'
  BY <1>0, <1>a, CallFields DEF MessageIsComplete, Announced, Open, guarded, excused
<1>4. CompletedIsOver'
  BY <1>0, <1>a, CallFields DEF CompletedIsOver, Typed, GuardFile, MaybeCalls, guarded, excused
<1>5. ReviewerAtWork'
  BY <1>0, <1>a, CallFields DEF ReviewerAtWork, Open, Pending, guarded, excused
<1>6. ReviewerOnFile'
  BY <1>0, <1>a, CallFields, NoneAssumption DEF ReviewerOnFile, Pending, Typed, GuardFile, MaybeCalls, guarded, excused
<1>7. ReportsWait'
  BY <1>0, <1>a, CallFields DEF ReportsWait, Pending, At, guarded, excused
<1>8. GuardKnows'
  BY <1>0, <1>a, CallFields DEF GuardKnows, Pending, Announced, MessageIsComplete, guarded, excused
<1>9. HandoffHappened'
  BY <1>0, <1>a, CallFields DEF HandoffHappened, guarded, excused
<1> QED BY <1>1, <1>2, <1>3, <1>4, <1>5, <1>6, <1>7, <1>8, <1>9

LEMMA AcceptReportStep ==
    ASSUME HandoffInv, NEW c \in Calls, AcceptReport(c)
    PROVE  HandoffInv'
<1> USE DEF HandoffInv
<1>0. /\ call' \in [Calls -> ToolCall]
      /\ \A d \in Calls :
           /\ call'[d].kind = call[d].kind /\ call'[d].for = call[d].for
           /\ call'[d].answer = IF d = c THEN "accepted" ELSE call[d].answer
           /\ call'[d].at = IF d = c THEN "answered" ELSE call[d].at
  BY AnsweredCall DEF Answers, AcceptReport
<1>a. /\ call[c].at = "running" /\ call[c].kind = "report" /\ call[c].for = supervisor.gen
      /\ supervisor.waits /\ supervisor'.gen = supervisor.gen /\ ~supervisor'.waits
      /\ supervisor' \in [gen : Gen, waits : BOOLEAN]
      /\ let' = let \cup Unreviewed
      /\ UNCHANGED <<guard, torn, deadline, faults, claims, excused>>
  BY CallFields DEF AcceptReport, At, Typed
<1>b. supervisor.gen \in claims \cup released \cup unguarded
  <2>1. ~\E d \in Calls : Announced(d)
    BY <1>a, CallFields DEF MessageIsComplete, Open
  <2>2. Pending /\ guard.gen = supervisor.gen => supervisor.gen \in unguarded
    BY <1>a DEF ReportsWait, At
  <2> QED BY <1>a, <2>1, <2>2 DEF GuardKnows
<1>1. Typed'
  BY <1>0, <1>a, CallFields DEF Typed
<1>2. CallsAreOrderly'
  BY <1>0, <1>a, CallFields DEF CallsAreOrderly
<1>3. MessageIsComplete'
  BY <1>0, <1>a, CallFields DEF MessageIsComplete, Announced, Open
<1>4. CompletedIsOver'
  BY <1>0, <1>a, CallFields DEF CompletedIsOver, Typed, GuardFile, MaybeCalls
<1>5. ReviewerAtWork'
  BY <1>0, <1>a, CallFields DEF ReviewerAtWork, Open, Pending
<1>6. ReviewerOnFile'
  BY <1>0, <1>a, CallFields, NoneAssumption DEF ReviewerOnFile, Pending, Typed, GuardFile, MaybeCalls
<1>7. ReportsWait'
  BY <1>0, <1>a, CallFields DEF ReportsWait, Pending, At, excused
<1>8. GuardKnows'
  BY <1>0, <1>a, CallFields DEF GuardKnows, Pending, Announced, MessageIsComplete, excused
<1>9. HandoffHappened'
  BY <1>0, <1>a, CallFields, <1>b DEF HandoffHappened, Unreviewed, excused
<1> QED BY <1>1, <1>2, <1>3, <1>4, <1>5, <1>6, <1>7, <1>8, <1>9

-----------------------------------------------------------------------------
(* The hooks after a call *)

LEMMA AfterReportStep ==
    ASSUME HandoffInv, NEW c \in Calls, AfterReport(c)
    PROVE  HandoffInv'
<1> USE DEF HandoffInv
<1>0. /\ call' \in [Calls -> ToolCall]
      /\ \A d \in Calls :
           /\ call'[d].kind = call[d].kind /\ call'[d].for = call[d].for
           /\ call'[d].answer = call[d].answer
           /\ call'[d].at = IF d = c THEN "done" ELSE call[d].at
  BY MovedCall DEF Places, AfterReport
<1>a. call[c].at = "answered" /\ call[c].kind = "report" /\ UNCHANGED <<others, excused>>
  BY DEF AfterReport, Answer, At
<1>b. \/ UNCHANGED guard
      \/ /\ guard' = [guard EXCEPT !.state = "relay_pending"]
         /\ guard.state = "report_in_flight"
      \/ /\ guard' = [Normal EXCEPT !.completed = guard.reviewer]
         /\ guard.state = "report_in_flight"
  BY DEF AfterReport, Writes
<1>c. /\ guard' \in GuardFile /\ (Pending' => Pending)
      /\ guard.state = "normal" => UNCHANGED guard
      /\ Pending => UNCHANGED guard
      /\ guard'.state # "normal" => guard.state # "normal" /\ guard'.gen = guard.gen
                                    /\ guard'.reviewer = guard.reviewer
      /\ guard'.state = "normal" => guard'.reviewer = None
      /\ guard'.state \in {"relay_pending", "report_in_flight"} =>
            guard.state \in {"relay_pending", "report_in_flight"}
  <2>1. CASE UNCHANGED guard
    BY <2>1 DEF Typed, Pending, ReviewerOnFile
  <2>2. CASE guard' = [guard EXCEPT !.state = "relay_pending"]
             /\ guard.state = "report_in_flight"
    BY <2>2 DEF Typed, GuardFile, States, Pending
  <2>3. CASE guard' = [Normal EXCEPT !.completed = guard.reviewer]
             /\ guard.state = "report_in_flight"
    <3>1. guard.reviewer \in MaybeCalls
      BY DEF Typed, GuardFile
    <3>2. guard' \in GuardFile /\ guard'.state = "normal" /\ guard'.reviewer = None
      BY <2>3, <3>1, NormalFile
    <3> QED BY <2>3, <3>2 DEF Pending
  <2> QED BY <1>b, <2>1, <2>2, <2>3
<1>d. guard.state = "report_in_flight" =>
        /\ guard.reviewer \in Calls /\ call[guard.reviewer].at \in {"answered", "done"}
        /\ \A d \in Calls : call[d].at # "reviewing"
  <2>1. ASSUME guard.state = "report_in_flight", NEW d \in Calls, call[d].at = "reviewing"
        PROVE  FALSE
    BY <2>1 DEF ReviewerAtWork, Pending
  <2> QED BY <2>1 DEF ReviewerOnFile, Typed, GuardFile, MaybeCalls
<1>e. guard'.gen <= supervisor.gen
  BY <1>b, CallFields DEF CallsAreOrderly, Normal, Typed, GuardFile, Gen
<1>1. Typed'
  BY <1>0, <1>a, <1>c DEF Typed, others, excused
<1>2. CallsAreOrderly'
  BY <1>0, <1>a, <1>c, <1>e DEF CallsAreOrderly, others, excused
<1>3. MessageIsComplete'
  BY <1>0, <1>a, <1>c DEF MessageIsComplete, Announced, Open, others, excused
<1>4. CompletedIsOver'
  <2>1. guard'.completed \in {guard.completed, guard.reviewer}
        /\ (guard'.completed = guard.completed \/ guard.state = "report_in_flight")
    BY <1>b DEF Normal, Typed, GuardFile
  <2> QED BY <1>0, <1>d, <2>1 DEF CompletedIsOver, Typed, GuardFile, MaybeCalls, others, excused
<1>5. ReviewerAtWork'
  BY <1>0, <1>a, <1>c DEF ReviewerAtWork, Open, Pending, others, excused
<1>6. ReviewerOnFile'
  BY <1>0, <1>a, <1>c, NoneAssumption DEF ReviewerOnFile, Pending, Typed, GuardFile, MaybeCalls, others, excused
<1>7. ReportsWait'
  BY <1>0, <1>a, <1>c DEF ReportsWait, Pending, At, others, excused
<1>8. GuardKnows'
  BY <1>0, <1>a, <1>c DEF GuardKnows, Pending, Announced, MessageIsComplete, others, excused
<1>9. HandoffHappened'
  BY <1>0, <1>a, <1>c DEF HandoffHappened, others, excused
<1> QED BY <1>1, <1>2, <1>3, <1>4, <1>5, <1>6, <1>7, <1>8, <1>9

LEMMA AfterReviewStep ==
    ASSUME HandoffInv, NEW c \in Calls, AfterReview(c)
    PROVE  HandoffInv'
<1> USE DEF HandoffInv
<1>0. /\ call' \in [Calls -> ToolCall]
      /\ \A d \in Calls :
           /\ call'[d].kind = call[d].kind /\ call'[d].for = call[d].for
           /\ call'[d].answer = call[d].answer
           /\ call'[d].at = IF d = c THEN "done" ELSE call[d].at
  BY MovedCall DEF Places, AfterReview
<1>a. call[c].at = "answered" /\ call[c].kind = "agent" /\ UNCHANGED <<others, excused>>
  BY DEF AfterReview, Answer, At
<1>b. \/ UNCHANGED guard
      \/ /\ guard' = [guard EXCEPT !.reviewer = None]
         /\ Pending /\ guard.reviewer = c /\ call[c].answer = "error"
      \/ /\ guard' = [guard EXCEPT !.state = "relay_pending"]
         /\ Pending /\ guard.reviewer = c /\ call[c].answer = "claims"
  BY DEF AfterReview, Writes, IsReviewer, HasClaims, Pending
<1>c. /\ guard' \in GuardFile /\ guard'.completed = guard.completed
      /\ guard'.gen = guard.gen /\ guard'.error = guard.error
      /\ \/ guard'.state = guard.state /\ guard'.reviewer = guard.reviewer
         \/ /\ Pending /\ guard.reviewer = c /\ call[c].answer = "error"
            /\ guard'.state = guard.state /\ guard'.reviewer = None
         \/ /\ Pending /\ guard.reviewer = c /\ call[c].answer = "claims"
            /\ guard'.state = "relay_pending" /\ guard'.reviewer = c
  BY <1>b DEF Typed, GuardFile, MaybeCalls, States
<1>d. Pending /\ guard.reviewer = c =>
        /\ call[c].answer = "claims" <=> guard.gen \in claims
        /\ \A d \in Calls : call[d].at # "reviewing"
  BY <1>a, NoneAssumption DEF ReviewerOnFile, ReviewerAtWork, Pending
<1>1. Typed'
  BY <1>0, <1>a, <1>c, <1>d DEF Typed, others, excused
<1>2. CallsAreOrderly'
  BY <1>0, <1>a, <1>c, <1>d DEF CallsAreOrderly, others, excused
<1>3. MessageIsComplete'
  BY <1>0, <1>a, <1>c, <1>d DEF MessageIsComplete, Announced, Open, others, excused
<1>4. CompletedIsOver'
  BY <1>0, <1>a, <1>c, <1>d DEF CompletedIsOver, Typed, GuardFile, MaybeCalls, others, excused
<1>5. ReviewerAtWork'
  BY <1>0, <1>a, <1>c, <1>d DEF ReviewerAtWork, Open, Pending, others, excused
<1>6. ReviewerOnFile'
  BY <1>0, <1>a, <1>c, <1>d, NoneAssumption DEF ReviewerOnFile, Pending, Typed, GuardFile, MaybeCalls, others, excused
<1>7. ReportsWait'
  BY <1>0, <1>a, <1>c, <1>d DEF ReportsWait, Pending, At, others, excused
<1>8. GuardKnows'
  BY <1>0, <1>a, <1>c, <1>d DEF GuardKnows, Pending, Announced, MessageIsComplete, others, excused
<1>9. HandoffHappened'
  BY <1>0, <1>a, <1>c, <1>d DEF HandoffHappened, others, excused
<1> QED BY <1>1, <1>2, <1>3, <1>4, <1>5, <1>6, <1>7, <1>8, <1>9

LEMMA AfterCaptureStep ==
    ASSUME HandoffInv, NEW c \in Calls, AfterCapture(c)
    PROVE  HandoffInv'
<1> USE DEF HandoffInv
<1>0. /\ call' \in [Calls -> ToolCall]
      /\ \A d \in Calls :
           /\ call'[d].kind = call[d].kind /\ call'[d].for = call[d].for
           /\ call'[d].answer = call[d].answer
           /\ call'[d].at = IF d = c THEN "done" ELSE call[d].at
  BY MovedCall DEF Places, AfterCapture
<1>a. /\ call[c].at = "answered" /\ call[c].kind = "capture" /\ UNCHANGED <<others, unguarded>>
  BY DEF AfterCapture, Answer, At
<1>b. CASE call[c].answer \in {"review", "unusable"}
  <2>0. Announced(c)
    BY <1>a, <1>b DEF Announced
  <2>1. /\ call[c].for + 1 = supervisor.gen /\ supervisor.gen \notin claims
        /\ \A d \in Calls : Open(d) => call[d].for < supervisor.gen
    BY <2>0, CallFields DEF MessageIsComplete
  <2>2. /\ guard' \in GuardFile /\ guard'.state = "review_dispatch_pending"
        /\ guard'.gen = supervisor.gen /\ guard'.reviewer = None
        /\ guard'.error = (call[c].answer = "unusable")
    BY <1>b, <2>1, CallFields
    DEF AfterCapture, Writes, Normal, GuardFile, States, MaybeCalls, Gen
  <2>3. released' = IF call[c].answer = "unusable" THEN released \cup {supervisor.gen}
                    ELSE released
    BY <1>b, <2>1 DEF AfterCapture
  <2>4. Typed' /\ CallsAreOrderly' /\ MessageIsComplete'
    BY <1>0, <1>a, <2>1, <2>2, CallFields
    DEF Typed, CallsAreOrderly, MessageIsComplete, Announced, Open, others
  <2>5. ReviewerAtWork'
    BY <1>0, <1>a, <2>1, <2>2 DEF ReviewerAtWork, Pending, Open, others
  <2>9. CompletedIsOver'
    BY <1>b, <2>1 DEF CompletedIsOver, AfterCapture, Writes, Normal
  <2>6. ReviewerOnFile'
    BY <1>a, <2>1, <2>2 DEF ReviewerOnFile, Pending, others, excused
  <2>7. ReportsWait'
    BY <1>0, <1>a, <2>1, <2>2, CallFields DEF ReportsWait, Pending, At, Open
  <2>8. GuardKnows' /\ HandoffHappened'
    BY <1>a, <1>b, <2>2, <2>3 DEF GuardKnows, Pending, HandoffHappened, others, excused
  <2> QED BY <2>4, <2>5, <2>6, <2>7, <2>8, <2>9
<1>c. CASE call[c].answer \notin {"review", "unusable"}
  <2>1. guard' = [Normal EXCEPT !.completed = guard.completed]
    BY <1>c DEF AfterCapture, Writes
  <2>2. guard' \in GuardFile /\ guard'.state = "normal" /\ guard'.reviewer = None
    <3>1. guard.completed \in MaybeCalls
      BY DEF Typed, GuardFile
    <3> QED BY <2>1, <3>1, NormalFile
  <2>3. /\ released \subseteq released'
        /\ call[c].answer = "error" => guard.gen \in released'
    BY <1>c DEF AfterCapture
  <2>0. guard'.gen = 0
    BY <2>1 DEF Normal
  <2>4. Typed' /\ CallsAreOrderly' /\ MessageIsComplete'
    BY <1>0, <1>a, <2>0, <2>2, CallFields
    DEF Typed, CallsAreOrderly, MessageIsComplete, Announced, Open, others, excused
  <2>5. ReviewerAtWork' /\ ReviewerOnFile' /\ ReportsWait'
    BY <1>0, <1>a, <2>2 DEF ReviewerAtWork, ReviewerOnFile, ReportsWait, Pending, others
  <2>9. CompletedIsOver'
    <3>1. guard'.completed = guard.completed
      BY <2>1 DEF Normal
    <3> QED BY <1>0, <3>1 DEF CompletedIsOver, Typed, GuardFile, MaybeCalls
  <2>6. supervisor.waits => call[c].answer # "plain"
    BY <1>a DEF MessageIsComplete, Announced
  <2>7. Pending /\ supervisor.waits => call[c].answer = "error"
    BY <1>a, <1>c, <2>6, CallFields DEF CallsAreOrderly
  <2>8. GuardKnows' /\ HandoffHappened'
    BY <1>0, <1>a, <1>c, <2>3, <2>6, <2>7 DEF GuardKnows, HandoffHappened, Announced, others, excused
  <2> QED BY <2>4, <2>5, <2>8, <2>9
<1> QED BY <1>b, <1>c

-----------------------------------------------------------------------------
(* The conversation and the adapter *)

LEMMA AskStep ==
    ASSUME HandoffInv, NEW c \in Calls, NEW kind \in Kinds, NEW g \in Gen, Ask(c, kind, g)
    PROVE  HandoffInv'
<1> USE DEF HandoffInv
<1>0. /\ call' \in [Calls -> ToolCall]
      /\ \A d \in Calls \ {c} : call'[d] = call[d]
      /\ call'[c] = [kind |-> kind, at |-> "asked", for |-> g, answer |-> "error"]
  BY DEF Ask, Typed, ToolCall, Places, Answers
<1>a. /\ call[c].at = "unused" /\ g <= supervisor.gen
      /\ UNCHANGED <<guard, torn, supervisor, deadline, faults, claims, let, excused>>
  BY DEF Ask
<1>b. \A d \in Calls : call[d].at \in {"unused", "asked", "done"}
  BY DEF Ask, Outstanding
<1>c. \A d \in Calls : call'[d].at \in {"unused", "asked", "done"}
  BY <1>0, <1>b
<1>1. Typed'
  BY <1>0, <1>a DEF Typed
<1>2. CallsAreOrderly'
  <2>1. \A d \in Calls \ {c} : call'[d].for <= supervisor'.gen
    BY <1>0, <1>a DEF CallsAreOrderly
  <2> QED BY <1>0, <1>a, <2>1 DEF CallsAreOrderly
<1>3. MessageIsComplete' /\ ReviewerAtWork' /\ ReportsWait'
  BY <1>c DEF MessageIsComplete, Announced, ReviewerAtWork, ReportsWait, At
<1>6. CompletedIsOver'
  BY <1>0, <1>a DEF CompletedIsOver, Typed, GuardFile, MaybeCalls
<1>4. ReviewerOnFile'
  <2>1. guard.state # "normal" /\ guard.reviewer # None =>
          guard.reviewer # c /\ guard.reviewer \in Calls
    BY <1>a DEF ReviewerOnFile, Typed, GuardFile, MaybeCalls
  <2> QED BY <1>0, <1>a, <2>1 DEF ReviewerOnFile, Pending
<1>5. GuardKnows' /\ HandoffHappened'
  BY <1>a, <1>b DEF GuardKnows, Announced, Pending, HandoffHappened, excused
<1> QED BY <1>1, <1>2, <1>3, <1>4, <1>5, <1>6

(* The conversation and the file stay as they are.                         *)
LEMMA QuietStep ==
    ASSUME HandoffInv, UNCHANGED <<guard, call, supervisor, claims>>,
           released \subseteq released', unguarded \subseteq unguarded',
           let' \subseteq released' \cup unguarded', deadline' \in MaybeCalls
    PROVE  HandoffInv'
<1> USE DEF HandoffInv
<1>1. Typed' /\ CallsAreOrderly' /\ MessageIsComplete' /\ CompletedIsOver'
  BY DEF Typed, CallsAreOrderly, MessageIsComplete, Announced, Open, CompletedIsOver
<1>2. ReviewerAtWork' /\ ReviewerOnFile' /\ ReportsWait'
  BY DEF ReviewerAtWork, Open, ReviewerOnFile, ReportsWait, Pending, At
<1>3. GuardKnows' /\ HandoffHappened'
  BY DEF GuardKnows, Announced, Pending, HandoffHappened
<1> QED BY <1>1, <1>2, <1>3

LEMMA StopStep ==
    ASSUME HandoffInv, Stop
    PROVE  HandoffInv'
<1> USE DEF HandoffInv
<1>1. supervisor.waits => supervisor.gen \in claims \cup released \cup unguarded
  <2>1. \A d \in Calls : ~Announced(d)
    BY DEF Stop, Outstanding, Announced
  <2>2. Pending => guard.error
    BY DEF Stop, Pending
  <2> QED BY <2>1, <2>2 DEF GuardKnows
<1>2. UNCHANGED <<guard, call, supervisor, claims, deadline, released, unguarded>>
  BY DEF Stop, excused
<1>3. let' \subseteq released' \cup unguarded'
  BY <1>1, <1>2 DEF Stop, Unreviewed, HandoffHappened
<1>4. deadline' \in MaybeCalls
  BY <1>2 DEF Typed
<1> QED BY <1>2, <1>3, <1>4, QuietStep

LEMMA StopKilledStep ==
    ASSUME HandoffInv, StopKilled
    PROVE  HandoffInv'
<1> USE DEF HandoffInv
<1>1. /\ UNCHANGED <<guard, call, supervisor, claims, deadline, released>>
      /\ unguarded \subseteq unguarded' /\ let' \subseteq released' \cup unguarded'
  BY DEF StopKilled, HandoffHappened
<1>2. deadline' \in MaybeCalls
  BY <1>1 DEF Typed
<1> QED BY <1>1, <1>2, QuietStep

LEMMA PollStep ==
    ASSUME HandoffInv, Poll
    PROVE  HandoffInv'
<1> USE DEF HandoffInv
<1>1. Observed \in MaybeCalls
  BY DEF Observed, Typed, GuardFile
<1>2. deadline' \in MaybeCalls
  BY <1>1 DEF Poll, MaybeCalls, Typed
<1>3. UNCHANGED <<guard, call, supervisor, claims, let, released, unguarded>>
  BY DEF Poll, excused
<1> QED BY <1>2, <1>3, QuietStep DEF HandoffHappened

LEMMA FailingHookStep ==
    ASSUME HandoffInv, NEW c \in Calls, HookFails(c) \/ HookKilled(c)
    PROVE  HandoffInv'
<1> USE DEF HandoffInv
<1>1. UNCHANGED <<guard, supervisor, deadline, claims, let, released>>
  BY DEF HookFails, HookKilled
<1>2. CASE call[c].at \in {"asked", "answered"} /\ Moves(c, "done")
           /\ unguarded' = unguarded \cup Unseen(c)
  <2>1. call[c].answer \in {"review", "unusable"} => call[c].for + 1 \in unguarded'
    BY <1>2 DEF Unseen
  <2> QED BY <1>1, <1>2, <2>1, EndingStep DEF Ending
<1>3. CASE call[c].at = "asked" /\ Moves(c, "running")
           /\ unguarded' = IF call[c].kind = "report" THEN unguarded \cup {call[c].for}
                           ELSE unguarded
  <2>1. call[c].kind = "report" => call[c].for \in unguarded'
    BY <1>3
  <2> QED BY <1>1, <1>3, <2>1, RunningStep DEF Ending
<1>4. CASE UNCHANGED <<call, unguarded>>
  <2>1. deadline' \in MaybeCalls
    BY <1>1 DEF Typed
  <2> QED BY <1>1, <1>4, <2>1, QuietStep DEF HandoffHappened
<1> QED BY <1>2, <1>3, <1>4 DEF HookFails, HookKilled

LEMMA DenyStep ==
    ASSUME HandoffInv, NEW c \in Calls, Deny(c)
    PROVE  HandoffInv'
<1>1. /\ call[c].at = "asked" /\ Moves(c, "done") /\ UNCHANGED <<guard, others, excused>>
  BY DEF Deny
<1> QED BY <1>1, EndingStep DEF Ending, others, excused
-----------------------------------------------------------------------------
(* The theorems *)

LEMMA HandoffInvInit == Init => HandoffInv
<1> SUFFICES ASSUME Init PROVE HandoffInv
  OBVIOUS
<1> USE BoundAssumption DEF Init
<1>1. Typed
  BY DEF Typed, GuardFile, ToolCall, MaybeCalls, States, Places, Kinds, Answers, Gen,
         Normal, Unused
<1>2. CallsAreOrderly
  BY DEF CallsAreOrderly, Unused, Normal
<1>3. MessageIsComplete /\ CompletedIsOver /\ ReviewerAtWork /\ ReportsWait
  BY DEF MessageIsComplete, Announced, CompletedIsOver, ReviewerAtWork, ReportsWait,
         Unused, Normal, Pending
<1>4. ReviewerOnFile /\ GuardKnows /\ HandoffHappened
  BY DEF ReviewerOnFile, GuardKnows, HandoffHappened, Normal, Pending
<1> QED BY <1>1, <1>2, <1>3, <1>4 DEF HandoffInv

LEMMA HandoffInvStep == HandoffInv /\ [Next]_vars => HandoffInv'
<1> SUFFICES ASSUME HandoffInv, [Next]_vars PROVE HandoffInv'
  OBVIOUS
<1>1. CASE Stop \/ StopKilled \/ Poll
  BY <1>1, StopStep, StopKilledStep, PollStep
<1>2. ASSUME NEW c \in Calls, NEW kind \in Kinds, NEW g \in Gen, Ask(c, kind, g)
      PROVE  HandoffInv'
  BY <1>2, AskStep
<1>3. ASSUME NEW c \in Calls,
             \/ Unconstrained(c) \/ Dispatch(c) \/ InputsGone(c) \/ Relay(c) \/ Deny(c)
      PROVE  HandoffInv'
  BY <1>3, UnconstrainedStep, DispatchStep, InputsGoneStep, RelayStep, DenyStep
<1>4. ASSUME NEW c \in Calls, NEW answer \in {"review", "unusable", "plain"},
             Capture(c, answer)
      PROVE  HandoffInv'
  BY <1>4, CaptureStep
<1>5. ASSUME NEW c \in Calls, NEW answer \in {"claims", "empty", "error"},
             Reviewed(c, answer)
      PROVE  HandoffInv'
  BY <1>5, ReviewedStep
<1>6. ASSUME NEW c \in Calls,
             \/ AcceptReport(c) \/ Refused(c)
             \/ AfterCapture(c) \/ AfterReview(c) \/ AfterReport(c)
             \/ HookFails(c) \/ HookKilled(c) \/ HookKilledLate(c)
      PROVE  HandoffInv'
  BY <1>6, AcceptReportStep, RefusedStep, AfterCaptureStep, AfterReviewStep,
     AfterReportStep, FailingHookStep, KilledLateStep
<1>7. CASE UNCHANGED vars
  <2>1. UNCHANGED <<guard, call, supervisor, claims, let, deadline, released, unguarded>>
    BY <1>7 DEF vars, excused
  <2> QED BY <2>1, QuietStep DEF HandoffInv, HandoffHappened, Typed
<1> QED BY <1>1, <1>2, <1>3, <1>4, <1>5, <1>6, <1>7 DEF Next

LEMMA HandoffInvariant == Spec => []HandoffInv
<1> QED BY HandoffInvInit, HandoffInvStep, PTL DEF Spec

\* Every reachable state file, call and deadline is well typed, and a relay is
\* pending only over the claims of a reviewer (ReviewHandoff.TypeOK).
THEOREM HandoffIsTyped == Spec => []TypeOK
<1>1. ASSUME HandoffInv PROVE TypeOK
  <2>1. /\ guard.state \in States /\ guard.gen \in Gen /\ guard.error \in BOOLEAN
        /\ {guard.reviewer, guard.report, guard.completed, deadline} \subseteq Calls \cup {None}
    BY <1>1 DEF HandoffInv, Typed, GuardFile, MaybeCalls
  <2> QED BY <1>1, <2>1, CallFields DEF HandoffInv, ReviewerOnFile, States, TypeOK
<1> QED BY <1>1, HandoffInvariant, PTL

\* In whatever order the hooks of one message run, a report is accepted, or the
\* conversation stopped, only over the claims of the capture's own reviewer, of
\* whom the guard accepts one at a time: but for captures the guard let go, and
\* captures whose announcing, reporting or stopping hook raised an exception or
\* was killed, since a killed hook decides nothing (ReviewHandoff.ReviewTookPlace).
THEOREM ReviewsTakePlace == Spec => []ReviewTookPlace
<1>1. ASSUME HandoffInv PROVE ReviewTookPlace
  <2>1. OneReviewer
    BY <1>1 DEF HandoffInv, ReviewerAtWork, OneReviewer
  <2> QED BY <1>1, <2>1 DEF HandoffInv, ReviewTookPlace
<1> QED BY <1>1, HandoffInvariant, PTL

\* No poll of the adapter, between whichever two writes of the file, disarms the
\* clock of a reviewer that is at work on the latest capture, whichever hooks are
\* killed (ReviewHandoff.ClockHeld).
THEOREM ClocksAreHeld == Spec => ClockHeld
<1> DEFINE Held == deadline # None /\ deadline' = None /\ call[deadline].at = "reviewing"
                     => call[deadline].for < supervisor.gen
<1>1. ASSUME HandoffInv, Next PROVE Held
  <2> SUFFICES ASSUME deadline # None, deadline' = None, call[deadline].at = "reviewing"
               PROVE  call[deadline].for < supervisor.gen
    OBVIOUS
  <2>1. deadline \in Calls
    BY <1>1 DEF HandoffInv, Typed, MaybeCalls
  <2>2. Poll
    BY <1>1 DEF Next, Stop, StopKilled, Ask, Unconstrained, Dispatch, InputsGone, Relay, Deny,
                others, Capture, Reviewed, AcceptReport, Refused, guarded, AfterCapture,
                AfterReview, AfterReport, HookFails, HookKilled, HookKilledLate
  <2>3. Disarms
    BY <2>2 DEF Poll, Arms
  <2>4. CASE Pending /\ guard.reviewer = deadline
    BY <2>3, <2>4 DEF Disarms, Observed, Pending
  <2>5. CASE Pending /\ guard.reviewer = None /\ call[deadline].for < guard.gen
    BY <1>1, <2>1, <2>5, CallFields DEF HandoffInv, CallsAreOrderly
  <2>6. CASE guard.state = "normal"
    BY <1>1, <2>1, <2>3, <2>6 DEF HandoffInv, Disarms, Observed, ReviewerOnFile, CompletedIsOver
  <2> QED BY <1>1, <2>1, <2>4, <2>5, <2>6 DEF HandoffInv, ReviewerAtWork, Open
<1>2. HandoffInv /\ [Next]_vars => [Held]_vars
  BY <1>1
<1> QED BY <1>2, HandoffInvariant, PTL DEF Spec, ClockHeld
=============================================================================
