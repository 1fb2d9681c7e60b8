---------------------------- MODULE OperatorLoop ----------------------------
(***************************************************************************)
(* The scripted operator of a run: OperatorEngine.run                      *)
(* (operator/engine.py), with the controller of a chained scenario         *)
(* (runner/chain.py) that moves the run from its prefix to its suffix.     *)
(*                                                                         *)
(* The script is a sequence of slots.  The operator sends one message per  *)
(* slot; what it says depends on the slot, on what the agent asked, and on *)
(* what it still owes: fixed beats and an approval that earlier questions  *)
(* displaced, a second answer of a compound question, an approval to       *)
(* repeat because it was given too early, and fresh consent for a plan     *)
(* that the agent bound again.                                             *)
(*                                                                         *)
(* What the matcher makes of the agent's prose is an input, one of Asks;   *)
(* texts are named by the slot that declares them.  The queue of owed      *)
(* beats is the set of their slots: a slot joins it when the script is at  *)
(* it, so the order of the queue is the order of the script.  The answer   *)
(* sheet has one decision, the review authorization and one source fact.   *)
(* Event cards, staged and clarify-first decisions, an ask-back persona,   *)
(* drivers and routers are left out.                                       *)
(***************************************************************************)
EXTENDS Integers, Sequences, FiniteSetsExt

CONSTANTS
    Scenarios,       \* pairs of a script and chain_prefix_turns, 0: no chain
    Workflow,        \* the workflows a plan can be bound to
    Unnamed,         \* a plan bound without a workflow
    MaxReapprovals,  \* max_uses of the declared reapproval, 0: none declared
    RevisionLimit    \* _REVISION_REAPPROVAL_LIMIT

Slots == {"open", "fixed", "ruling", "repair", "approval"}
Beats == Slots \ {"open"}

ASSUME ScenarioAssumption ==
    \A s \in Scenarios : s[1] \in Seq(Slots) /\ s[2] \in 0 .. Len(s[1]) - 1
ASSUME BoundAssumption ==
    MaxReapprovals \in Nat /\ RevisionLimit \in Nat /\ Unnamed \in Workflow

\* What the agent's message asks for, as the matcher reads it.
Asks == {"silence", "finding", "question", "diagnostic", "choice", "decision",
         "repair", "fact", "approval", "revised"}
Genuine(m) == m \in {"approval", "revised"}
Decided(m) == m \in {"decision", "repair"}
Review(m) == m \in {"choice", "repair", "repair again"}
Solicits(m) == m \notin {"start", "silence", "finding"}
HasReply(m) == m \notin {"start", "repair again", "fact again"}

VARIABLES
    status,       \* whose move it is, or how the run ended
    script, prefix,
    cursor, turns,
    ask,          \* next_match, with next_reply withheld in "... again"
    disposition,  \* the agent's last message asks what to do with findings
    beats,        \* owed_fixed_beats: the slots owed
    owed, wait,   \* owed_approval_text, by its slot or 0, and its age
    early,        \* early_approval_text while it can be reconfirmed, or 0
    approved,     \* revision_approval_text, or 0
    consumed,     \* consumed_approval_slots
    workflow, rebound, uses, clarified, published,
    finding, authorized, reuses,
    factOwed, factServed,
    chain,        \* status of the chain's controller
    said,         \* the message the agent is answering
    spoken,       \* history: slots whose text was sent
    queued,       \* history: slots that were deferred
    excused       \* history: slots that no longer had to be sent

scenario == <<script, prefix>>
consent == <<owed, wait, early, approved, consumed>>
plan == <<workflow, rebound, uses, clarified, published>>
review == <<finding, authorized, reuses>>
facts == <<factOwed, factServed>>
trace == <<spoken, queued, excused>>
operatorVars == <<status, scenario, cursor, turns, ask, disposition, beats, consent,
          plan, review, facts, chain, said, trace>>

Nothing == [text |-> "none", slot |-> 0, approves |-> FALSE, again |-> FALSE,
            renews |-> FALSE, asked |-> FALSE, stale |-> FALSE,
            withheld |-> FALSE]

OperatorInit ==
    /\ status = "speak"
    /\ \E s \in Scenarios : script = s[1] /\ prefix = s[2]
    /\ cursor = 0 /\ turns = 0 /\ ask = "start" /\ disposition = FALSE
    /\ beats = {} /\ owed = 0 /\ wait = 0 /\ early = 0 /\ approved = 0
    /\ consumed = {} /\ workflow = Unnamed
    /\ rebound = [w \in Workflow |-> FALSE] /\ uses = [w \in Workflow |-> 0]
    /\ clarified = {} /\ published = FALSE
    /\ finding = "none" /\ authorized = FALSE /\ reuses = 0
    /\ factOwed = FALSE /\ factServed = FALSE
    /\ chain = IF prefix = 0 THEN "none" ELSE "waiting"
    /\ said = Nothing /\ spoken = {} /\ queued = {} /\ excused = {}

LastSlot == Len(script)
Kind(slot) == IF slot = 0 THEN "open" ELSE script[slot]
Switched == chain = "switched"
-----------------------------------------------------------------------------
(* Which slot the next message is for *)

\* An approval of a plan that is approved, of which nothing is asked.
Stale(slot, m) ==
    /\ Kind(slot) = "approval" /\ approved # 0 /\ ~rebound[workflow]
    /\ ~Genuine(m) /\ ~Review(m)

\* Mutant: an approval need not have a plan to approve.
Ready_Stale(slot, m) ==
    /\ m # "diagnostic"
    /\ Kind(slot) = "repair" => m \in {"repair", "repair again"}
    /\ Kind(slot) = "ruling" /\ Solicits(m) => m = "decision"

Ready(slot, m) ==
    /\ ~Stale(slot, m) /\ m # "diagnostic"
    /\ Kind(slot) = "repair" => m \in {"repair", "repair again"}
    /\ Kind(slot) = "ruling" /\ Solicits(m) => m = "decision"

\* Publication has made the slot's text pointless.
Obsolete(slot, m) ==
    /\ published
    /\ \/ Stale(slot, m)
       \/ Kind(slot) = "repair" /\ finding # "open" /\ ~Review(m)

Retained(m) == {slot \in beats : ~Obsolete(slot, m)}

Slot == cursor + 1
Debt == Retained(ask)
\* 0: the slot is used up, and "Please continue." stands for it.
Scheduled == IF Slot \in consumed \/ Obsolete(Slot, ask) THEN 0 ELSE Slot

\* The owed fact takes this message, or joins the answer of another question.
Preferred == Genuine(ask) /\ workflow \in clarified
Promoted ==
    /\ factOwed /\ ~Preferred
    /\ Genuine(ask) \/ ~Solicits(ask)
Appended == factOwed /\ ask \in {"decision", "repair", "choice"}
Live == IF Promoted THEN "fact" ELSE ask

Undisposed == disposition /\ ~Decided(Live)
ClarifiedAsk == Genuine(Live) /\ workflow \in clarified
Renewable == approved # 0 /\ rebound[workflow]
\* Mutant: the declared reapproval is not counted.
Reapprovable_NoLimit == authorized /\ Live = "revised"
Reapprovable == authorized /\ reuses < MaxReapprovals /\ Live = "revised"

Horizon == IF prefix > 0 /\ ~Switched THEN prefix ELSE LastSlot
InitialApprovals ==
    IF approved # 0 \/ owed # 0 THEN {}
    ELSE {s \in Slot + 1 .. Horizon : Kind(s) = "approval" /\ s \notin consumed}

\* An asked, clarified plan gets an approval the script declares.
ApprovalDue ==
    /\ ClarifiedAsk
    /\ \/ Kind(Scheduled) = "approval" \/ owed # 0 \/ early # 0
       \/ InitialApprovals # {}
       \/ \E slot \in Debt : Kind(slot) = "approval"
       \/ Renewable /\ uses[workflow] < RevisionLimit
       \/ MaxReapprovals > 0 /\ authorized /\ Live = "revised"

\* Mutant: a beat is said although earlier ones are owed.
Deferred_Overtakes ==
    /\ Kind(Scheduled) \in Beats /\ turns > 0
    /\ \/ ~Ready(Scheduled, Live)
       \/ /\ Kind(Scheduled) # "approval"
          /\ Decided(Live) \/ ClarifiedAsk \/ Undisposed

\* Mutant: the answer to a decision takes the turn of a beat.
Deferred_Answers ==
    /\ Kind(Scheduled) \in Beats /\ turns > 0
    /\ \/ Debt # {}
       \/ ~Ready(Scheduled, Live)
       \/ Kind(Scheduled) # "approval" /\ (ClarifiedAsk \/ Undisposed)

Deferred ==
    /\ Kind(Scheduled) \in Beats /\ turns > 0
    /\ \/ Debt # {}
       \/ ~Ready(Scheduled, Live)
       \/ /\ Kind(Scheduled) # "approval"
          /\ Decided(Live) \/ ClarifiedAsk \/ Undisposed
Owes == IF Deferred THEN Debt \cup {Slot} ELSE Debt

\* Mutant: only the third turn makes room for the owed approval.
OwedDue_Forced == owed # 0 /\ ~Decided(Live) /\ ~Reapprovable /\ wait >= 3
OwedDue ==
    /\ owed # 0 /\ ~Decided(Live) /\ ~Reapprovable
    /\ Genuine(Live) \/ wait >= 3

\* The decision answer about to be sent is the text of the first owed beat.
AnswersFirst(queue) ==
    /\ queue # {} /\ Live = "repair" /\ ~Appended
    /\ Kind(Min(queue)) = "repair"
Pops(queue) ==
    /\ queue # {} /\ Ready(Min(queue), Live)
    /\ ~Decided(Live) /\ ~Undisposed /\ ~ClarifiedAsk
    /\ Kind(Min(queue)) = "approval" \/ ~(Reapprovable \/ OwedDue)

FirstLine(queue) ==
    IF Pops(queue) THEN Min(queue) ELSE IF Deferred THEN 0 ELSE Scheduled
Rest(queue) == IF Pops(queue) \/ AnswersFirst(queue) THEN queue \ {Min(queue)} ELSE queue
OwedApprovals(queue) == {slot \in Rest(queue) : Kind(slot) = "approval"}
Pulls(queue) ==
    /\ ApprovalDue /\ Kind(FirstLine(queue)) # "approval"
    /\ OwedApprovals(queue) # {} /\ owed = 0 /\ early = 0
Moves(queue) ==
    /\ ApprovalDue /\ ~Pulls(queue) /\ Kind(FirstLine(queue)) # "approval"
    /\ InitialApprovals # {}

\* scripted_turn: the slot whose text this message would carry.
Line(queue) ==
    CASE Pulls(queue) -> Min(OwedApprovals(queue))
      [] Moves(queue) -> Min(InitialApprovals)
      [] OTHER -> FirstLine(queue)
-----------------------------------------------------------------------------
(* What the message says *)

Swallowed(line) == Kind(line) = "approval" /\ Solicits(Live) /\ ~Genuine(Live)
Scripted(line) == Kind(line) = "approval" /\ ~Swallowed(line)
Reapproves(line) == Reapprovable /\ Kind(line) # "approval"
PaysOwed(line) ==
    /\ owed # 0 /\ ~Decided(Live) /\ ~Reapproves(line)
    /\ Genuine(Live) \/ (wait >= 3 /\ ~Undisposed)
Reconfirms(line) ==
    early # 0 /\ Genuine(Live) /\ ~Reapproves(line) /\ ~PaysOwed(line)
Eligible(line) ==
    /\ Renewable /\ Genuine(Live) /\ turns > 0 /\ Kind(line) = "open"
    /\ ~Reapproves(line) /\ ~PaysOwed(line) /\ ~Reconfirms(line)
Renews(line) == Eligible(line) /\ uses[workflow] < RevisionLimit
Approves(line) == Scripted(line) \/ Reapproves(line) \/ PaysOwed(line) \/ Renews(line)
SaysLine(line) ==
    \/ turns = 0 \/ Kind(line) # "open" \/ Approves(line)
    \/ Live \in {"silence", "finding"}
Repeats(line) == Reconfirms(line) /\ ~SaysLine(line)

\* base: the text and, when it is a line of the script, its slot.
Content(line) ==
    CASE Reapproves(line) -> <<"reapproval", 0>>
      [] PaysOwed(line) -> <<"line", owed>>
      [] ~PaysOwed(line) /\ (Decided(Live) \/ (Swallowed(line) /\ HasReply(Live))) ->
            <<"reply", 0>>
      [] Renews(line) -> <<"line", approved>>
      [] Repeats(line) -> <<"line", early>>
      [] OTHER -> IF SaysLine(line) \/ ~HasReply(Live) THEN <<"line", line>>
                  ELSE <<"reply", 0>>
Message(line) ==
    [text |-> Content(line)[1], slot |-> Content(line)[2],
     approves |-> Approves(line), again |-> Repeats(line), renews |-> Renews(line),
     asked |-> Genuine(Live) \/ Review(Live) \/ PaysOwed(line),
     stale |-> approved # 0 /\ ~rebound[workflow], withheld |-> ~HasReply(Live)]
-----------------------------------------------------------------------------
(* The operator sends a message *)

\* ChainController.finalize
Ends(how) ==
    /\ status' = how
    /\ chain' = IF chain # "waiting" THEN chain
                ELSE IF how = "interrupted" THEN "ungraded" ELSE "failed"

HasSlot ==
    /\ status = "speak" /\ cursor < LastSlot
    /\ prefix > 0 /\ cursor >= prefix => Switched

PrefixFails ==
    /\ status = "speak" /\ cursor < LastSlot
    /\ prefix > 0 /\ cursor >= prefix /\ ~Switched
    /\ Ends("chain_prefix_failed")
    /\ UNCHANGED <<scenario, cursor, turns, ask, disposition, beats, consent,
                   plan, review, facts, said, trace>>

TakesLine(queue, line) ==
    /\ cursor' = Slot /\ turns' = turns + 1
    /\ beats' = IF Pulls(queue) THEN Rest(queue) \ {Min(OwedApprovals(queue))}
                ELSE Rest(queue)
    /\ consumed' = IF Moves(queue) THEN consumed \cup {line} ELSE consumed
    /\ queued' = IF Deferred THEN queued \cup {Slot} ELSE queued
    /\ excused' = excused
        \cup (beats \ Debt)
        \cup {s \in {Slot} : Obsolete(s, ask)}
        \cup (IF AnswersFirst(queue) THEN {Min(queue)} ELSE {})
        \cup (IF Reapproves(line) THEN {owed} ELSE {})

\* The revised plan is asked for again after its consents are spent.
GivesUp ==
    /\ HasSlot
    /\ \E queue \in {Owes} : \E line \in {Line(queue)} :
        /\ Eligible(line) /\ ~Renews(line)
        /\ TakesLine(queue, line)
    /\ Ends("approval_budget_exhausted")
    /\ UNCHANGED <<scenario, ask, disposition, owed, wait, early, approved,
                   plan, review, facts, said, spoken>>

\* What is owed after the message.
Settles(line, m) ==
    /\ owed' = IF Swallowed(line) THEN line
               ELSE IF PaysOwed(line) \/ Reapproves(line) THEN 0 ELSE owed
    /\ wait' = IF owed = 0 \/ Swallowed(line) \/ PaysOwed(line) \/ Reapproves(line)
               THEN 0
               ELSE IF wait < 3 THEN wait + 1 ELSE wait
    /\ early' = IF m.again THEN 0
                ELSE IF (Scripted(line) \/ PaysOwed(line)) /\ ~Genuine(Live)
                     THEN m.slot ELSE early
    /\ approved' = IF Scripted(line) \/ PaysOwed(line) \/ m.again THEN m.slot
                   ELSE approved

Answered(m) == m.text = "reply"
FactSaid(m) == Answered(m) /\ (Live = "fact" \/ Appended)

\* The plan the message is about.
Consents(m) ==
    /\ IF m.approves \/ m.again
       THEN /\ clarified' = clarified \ {workflow}
            /\ rebound' = [rebound EXCEPT ![workflow] = FALSE]
            /\ published' = FALSE
       ELSE /\ clarified' = IF Genuine(Live) /\ Answered(m)
                            THEN clarified \cup {workflow} ELSE clarified
            /\ UNCHANGED <<rebound, published>>
    /\ uses' = IF m.renews THEN [uses EXCEPT ![workflow] = @ + 1] ELSE uses
    /\ UNCHANGED workflow

Speak ==
    /\ HasSlot
    /\ \E queue \in {Owes} : \E line \in {Line(queue)} : \E m \in {Message(line)} :
        /\ Eligible(line) => Renews(line)
        /\ TakesLine(queue, line)
        /\ said' = m
        /\ Settles(line, m) /\ Consents(m)
        /\ factServed' = (factServed \/ FactSaid(m))
        /\ factOwed' = (factOwed /\ ~FactSaid(m))
        /\ finding' = IF Live = "repair" /\ Answered(m) THEN "answered" ELSE finding
        /\ reuses' = IF Reapproves(line) THEN reuses + 1 ELSE reuses
        /\ spoken' = spoken \cup {s \in {m.slot} : Kind(s) \in Beats}
    /\ status' = "listen"
    /\ UNCHANGED <<scenario, ask, disposition, authorized, chain>>
-----------------------------------------------------------------------------
(* The agent answers *)

\* The turn's tool calls: a plan bound for a workflow, then a query of a
\* published product, or neither.
Works(binds, w, queries) ==
    LET named == IF w = Unnamed THEN workflow ELSE w
    IN  /\ workflow' = IF binds THEN named ELSE workflow
        /\ clarified' = IF binds THEN clarified \ {named} ELSE clarified
        /\ rebound' = IF binds /\ approved # 0
                      THEN [rebound EXCEPT ![named] = TRUE] ELSE rebound
        /\ published' = (queries \/ (published /\ ~binds))
        /\ UNCHANGED uses

\* ChainController.observe and _switch, then the boundary of the loop.
Stays ==
    /\ chain' \in IF chain = "waiting" THEN {"waiting", "failed", "ungraded"}
                  ELSE {chain}
    /\ UNCHANGED <<cursor, beats, owed, early, excused>>
Switches ==
    /\ chain = "waiting" /\ chain' = "switched"
    /\ cursor' = IF cursor < prefix THEN prefix ELSE cursor
    /\ beats' = {} /\ owed' = 0 /\ early' = 0
    /\ excused' = excused \cup 1 .. prefix

\* The consents for the plan are spent, and the last message asks for one.
Spent(m) ==
    /\ cursor' = LastSlot /\ Genuine(m)
    /\ approved # 0 /\ rebound'[workflow'] /\ uses[workflow'] >= RevisionLimit
    /\ ~(m = "revised" /\ authorized /\ reuses < MaxReapprovals)
    /\ owed = 0 /\ early = 0

Listen(asked, also) ==
    LET m == IF asked = "fact" /\ factServed THEN "fact again" ELSE asked
    IN  /\ status = "listen"
        /\ asked = "repair again" => finding = "answered"
        /\ \E binds, queries \in BOOLEAN, w \in Workflow : Works(binds, w, queries)
        /\ \/ Stays /\ ask' = m
           \/ Switches /\ ask' = "start"
        /\ disposition' = Review(m)
        /\ finding' = IF m \in {"finding", "choice", "repair"} THEN "open"
                      ELSE finding
        /\ authorized' = (authorized \/ m = "repair")
        /\ factOwed' = (factOwed \/ (also /\ (Decided(m) \/ m = "repair again")
                                          /\ ~factServed))
        /\ status' = IF Spent(m) THEN "approval_budget_exhausted" ELSE "speak"
        /\ said' = Nothing
        /\ UNCHANGED <<scenario, turns, wait, approved, consumed, reuses,
                       factServed, spoken, queued>>

\* A turn that timed out or whose environment is wedged.
Interrupted ==
    /\ status = "listen" /\ Ends("interrupted")
    /\ UNCHANGED <<scenario, cursor, turns, ask, disposition, beats, consent,
                   plan, review, facts, said, trace>>

\* The answer that the last message asks for finds no slot.
Unanswered ==
    turns >= LastSlot /\
        \/ factOwed
        \/ ask \in {"choice", "repair", "decision", "approval", "revised"}

Conclude ==
    /\ status = "speak" /\ cursor = LastSlot
    /\ beats' = Retained(ask)
    /\ excused' = excused \cup (beats \ beats')
    /\ \/ Ends("script_exhausted")    \* some turn had no clean result
       \/ Unanswered /\ Ends("turn_budget_exhausted_pending_answer")
       \/ /\ ~Unanswered
          /\ Ends(IF beats' # {} \/ factOwed THEN "script_exhausted"
                  ELSE "completed")
    /\ UNCHANGED <<scenario, cursor, turns, ask, disposition, consent, plan,
                   review, facts, said, spoken, queued>>

OperatorNext ==
    \/ PrefixFails \/ GivesUp \/ Speak \/ Interrupted \/ Conclude
    \/ \E asked \in Asks \cup {"repair again"}, also \in BOOLEAN :
           Listen(asked, also)

OperatorSpec == OperatorInit /\ [][OperatorNext]_operatorVars
-----------------------------------------------------------------------------
Endings == {"chain_prefix_failed", "approval_budget_exhausted", "interrupted",
            "script_exhausted", "turn_budget_exhausted_pending_answer", "completed"}

\* Every variable has its type: what the operator owes lies behind its cursor,
\* approvals it keeps are slots of the script, and counts stay in their limits.
OperatorTypeOK ==
    /\ status \in {"speak", "listen"} \cup Endings
    /\ \E s \in Scenarios : script = s[1] /\ prefix = s[2]
    /\ cursor \in 0 .. LastSlot /\ turns \in 0 .. cursor
    /\ ask \in Asks \cup {"start", "repair again", "fact again"}
    /\ beats \subseteq 1 .. cursor /\ {owed, early, approved} \subseteq 0 .. LastSlot
    /\ \A s \in {owed, early, approved} \ {0} : Kind(s) = "approval"
    /\ wait \in 0 .. 3 /\ consumed \subseteq 1 .. LastSlot
    /\ workflow \in Workflow /\ rebound \in [Workflow -> BOOLEAN]
    /\ uses \in [Workflow -> 0 .. RevisionLimit] /\ clarified \subseteq Workflow
    /\ {disposition, published, authorized, factOwed, factServed} \subseteq BOOLEAN
    /\ finding \in {"none", "open", "answered"} /\ reuses \in 0 .. MaxReapprovals
    /\ chain \in {"none", "waiting", "switched", "ungraded", "failed"}
    /\ said \in [text : {"none", "reply", "reapproval", "line"}, slot : 0 .. LastSlot,
                 approves : BOOLEAN, again : BOOLEAN, renews : BOOLEAN,
                 asked : BOOLEAN, stale : BOOLEAN, withheld : BOOLEAN]
    /\ spoken \cup queued \subseteq 1 .. LastSlot /\ excused \subseteq 0 .. LastSlot

Sent == status = "listen"
Consent(message) == Kind(message.slot) = "approval"

\* A line is said in its place, whatever was deferred, retired, moved forward or
\* owed before: beats that are no approval go out once and in script order, and
\* no line of a chain's prefix goes out in its suffix or the other way round.
\* (The consent that answers a plan bound again repeats the line that was said
\* last.)
LinesKeepTheirPlace ==
    [][Sent' /\ said'.slot # 0 =>
          /\ ~Consent(said') =>
                \A s \in spoken : Kind(s) # "approval" => s < said'.slot
          /\ prefix > 0 /\ ~said'.renews =>
                (said'.slot > prefix <=> Switched)]_operatorVars

\* A beat that was deferred behind the agent's questions is not forgotten: when
\* the run is completed it was said, or had become pointless, or was part of the
\* answer to its own question, whatever approval was due in its turn.
QueuedBeatsAreSaid ==
    status = "completed" =>
        \A s \in queued : ~Consent([slot |-> s]) => s \in spoken \cup excused

\* "A declared fixed beat displaced by an answerable decision stays in script
\* order" (engine.py:1672), and an incomplete script is not completed
\* (engine.py:3399): so was every beat of a completed run.
CompletedRunSaidItsBeats ==
    status = "completed" =>
        \A s \in 1 .. LastSlot :
            Kind(s) \in Beats \ {"approval"} => s \in spoken \cup excused

\* Where that fails: a beat whose turn it is yields without being deferred only
\* to a consent, the owed approval or the declared reapproval, never to an
\* answer, to another line or to a beat that is owed.
BeatsYieldToConsent ==
    [][Sent' /\ ~Sent /\ Kind(Slot) \in Beats \ {"approval"}
       /\ Slot \notin spoken' \cup queued' \cup excused' =>
          \/ said'.approves /\ owed # 0 /\ owed' = 0
          \/ said'.text = "reapproval" /\ reuses' = reuses + 1]_operatorVars

\* What a step may do to the script: lines go out in their place, and a beat
\* loses its turn to nothing but a consent.
ScriptIsKept == LinesKeepTheirPlace /\ BeatsYieldToConsent

\* An approval text that goes out is on record as an approval, and a plan that
\* is approved is approved again only when the agent asks, or by an approval that
\* was owed for three turns.  (Where the reply to an open question is withheld as
\* a repeat, an approval goes out in its place without a row.)
ApprovalsAreSound ==
    Sent /\ Consent(said) =>
        /\ said.approves \/ said.again \/ said.withheld
        /\ said.stale => said.asked
=============================================================================
