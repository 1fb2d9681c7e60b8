----------------------------- MODULE NativeRun -----------------------------
(***************************************************************************)
(* One native-continuation run of a scenario over several processes        *)
(* (runner/tier.py, runner/session.py, runner/environment.py and the       *)
(* history of the provider adapter, runner/supervisor_history.py).  The    *)
(* persistent run root keeps four records of the same turns: the           *)
(* checkpointed prefix, the source's runtime state, the supervisor history *)
(* and the evidence ledger.  A turn may time out, the session may fail,    *)
(* and a crash may fall between any two writes; the next process resumes.  *)
(*                                                                         *)
(* A turn that is sent twice is executed twice: an execution is named by   *)
(* its position in the provider's conversation.  The checkpoint store is   *)
(* its abstraction, the append-only prefix of CommittedPrefix.             *)
(***************************************************************************)
EXTENDS Naturals, Sequences, FiniteSets

CONSTANTS
    LastTurn,   \* turns in the operator script
    MaxCalls,   \* bound: source requests the agent makes in one turn
    MaxSent,    \* bound: turns sent to the provider, over all processes
    MaxCrash,   \* bound: processes that die
    Rewinds     \* a resume may name an older checkpoint than the newest

ASSUME BoundsAssumption ==
    /\ LastTurn \in Nat \ {0} /\ MaxSent \in Nat
    /\ MaxCalls \in Nat /\ MaxCrash \in Nat
    /\ Rewinds \in BOOLEAN

Turn == 1 .. LastTurn
Execution == 1 .. MaxSent
Count == 0 .. MaxCalls * MaxSent
Row == [turn : Turn, by : Execution]

VARIABLES
    \* The persistent run root, and the conversation the provider keeps.
    prepared,      \* native-run-contract.json and the artifact root exist
    conversation,  \* the turn of every message the provider was sent
    committed,     \* the checkpointed prefix: each turn's execution and the
                   \* source requests counted when it was committed
    saved,         \* native-source-state.json: the counted requests
    calls,         \* tool-calls.json: last_turn, and the turns' calls
    queries,       \* the history files written after it
    ledger,        \* evidence.jsonl
    \* The runner, its operator engine and its adapter.
    pc,
    turns,         \* RecordingSession.turns: executions
    rows,          \* OperatorEngine.ledger_rows
    written,       \* how many of them are in the ledger
    counted,       \* requests the running source has counted
    begun,         \* ... and had counted when the turn began
    memory,        \* the adapter's SupervisorHistory: {} until loaded
    \* Bounds and history.
    crashes,
    rewound,       \* a process has resumed an older checkpoint
    cutSave,       \* a crash fell between a commit and the source state
    cutDiscard     \* a crash fell inside the write of discard_turns_from

root == <<prepared, conversation, committed, saved, calls, queries, ledger>>
process == <<pc, turns, rows, written, counted, begun, memory>>
history == <<crashes, rewound, cutSave, cutDiscard>>
vars == <<prepared, conversation, committed, saved, calls, queries, ledger,
          pc, turns, rows, written, counted, begun, memory,
          crashes, rewound, cutSave, cutDiscard>>

Init ==
    /\ prepared = FALSE /\ conversation = <<>> /\ committed = <<>>
    /\ saved = 0 /\ ledger = <<>>
    /\ calls = [last |-> 0, rows |-> {}] /\ queries = {}
    /\ pc = "down" /\ turns = <<>> /\ rows = <<>> /\ written = 0
    /\ counted = 0 /\ begun = 0 /\ memory = {}
    /\ crashes = 0 /\ rewound = FALSE /\ cutSave = FALSE /\ cutDiscard = FALSE

\* The process is gone, and all it held in memory.
Gone ==
    /\ pc' = "down" /\ turns' = <<>> /\ rows' = <<>> /\ written' = 0
    /\ counted' = 0 /\ begun' = 0 /\ memory' = {}
-----------------------------------------------------------------------------
(* Starting a process *)

\* prepare() of a fresh run: the source starts, its state is written, the
\* ledger and the contract are created, then the artifact root.
StartFresh ==
    /\ pc = "down" /\ ~prepared
    /\ prepared' = TRUE
    /\ saved' = 0
    /\ pc' = "idle"
    /\ turns' = <<>> /\ rows' = <<>> /\ written' = 0
    /\ counted' = 0 /\ begun' = 0 /\ memory' = {}
    /\ UNCHANGED <<conversation, committed, calls, queries, ledger, history>>

\* Mutant: the prefix is one turn short of the checkpoint.
Resume_OneShort(n) ==
    /\ pc = "down" /\ prepared
    /\ n \in DOMAIN committed /\ n < LastTurn
    /\ n = Len(committed) \/ Rewinds
    /\ turns' = [t \in 1 .. n - 1 |-> committed[t].by]
    /\ counted' = saved /\ begun' = saved
    /\ rows' = <<>> /\ written' = 0 /\ memory' = {}
    /\ pc' = "idle"
    /\ rewound' = (rewound \/ n < Len(committed))
    /\ UNCHANGED <<root, crashes, cutSave, cutDiscard>>

\* A native resume of checkpoint n: the recording starts with the committed
\* prefix, the source with its saved state, the adapter and engine anew.
Resume(n) ==
    /\ pc = "down" /\ prepared
    /\ n \in DOMAIN committed /\ n < LastTurn
    /\ n = Len(committed) \/ Rewinds
    /\ turns' = [t \in 1 .. n |-> committed[t].by]
    /\ counted' = saved /\ begun' = saved
    /\ rows' = <<>> /\ written' = 0 /\ memory' = {}
    /\ pc' = "idle"
    /\ rewound' = (rewound \/ n < Len(committed))
    /\ UNCHANGED <<root, crashes, cutSave, cutDiscard>>
-----------------------------------------------------------------------------
(* A turn *)

\* The engine appends a turn's row when its result is in.
RowOf(t) == [turn |-> t, by |-> turns'[t]]

\* Mutant: a replayed turn is recorded a second time.
ReplayTurn_Recorded ==
    /\ pc = "idle" /\ Len(rows) < Len(turns)
    /\ turns' = Append(turns, turns[Len(rows) + 1])
    /\ rows' = Append(rows, RowOf(Len(rows) + 1))
    /\ UNCHANGED <<root, history, pc, written, counted, begun, memory>>

\* A turn of the prefix is answered by the recording, not by the provider.
ReplayTurn ==
    /\ pc = "idle" /\ Len(rows) < Len(turns)
    /\ turns' = turns
    /\ rows' = Append(rows, RowOf(Len(rows) + 1))
    /\ UNCHANGED <<root, history, pc, written, counted, begun, memory>>

NextTurn == Len(turns) + 1
Files == [last |-> calls.last, rows |-> calls.rows, queries |-> queries]
Loaded == IF memory = {} THEN {Files} ELSE memory
Before(s, t) == {r \in s : r.turn < t}

\* Mutant: only turns before the last are discarded.
MustDiscard_OnlyLater(t) == \E h \in Loaded : t < h.last

\* The adapter drops what its history holds of this turn and of later ones.
MustDiscard(t) == \E h \in Loaded : t <= h.last
Discarded(h, t) ==
    [last |-> t - 1, rows |-> Before(h.rows, t), queries |-> Before(h.queries, t)]

\* send(): the history of an aborted execution of this turn is discarded in
\* memory first, then in the files.
SendTurn ==
    /\ pc = "idle" /\ Len(rows) = Len(turns) /\ NextTurn \in Turn
    /\ Len(conversation) < MaxSent
    /\ IF MustDiscard(NextTurn)
          THEN /\ memory' = {Discarded(h, NextTurn) : h \in Loaded}
               /\ pc' = "discard calls"
          ELSE /\ memory' = memory
               /\ pc' = "deliver"
    /\ begun' = counted
    /\ UNCHANGED <<root, history, turns, rows, written, counted>>

\* SupervisorHistory.write: tool-calls.json first, then the other files.
WriteCalls(from, to) ==
    /\ pc = from
    /\ \E h \in memory : calls' = [last |-> h.last, rows |-> h.rows]
    /\ pc' = to
    /\ UNCHANGED <<prepared, conversation, committed, saved, queries, ledger,
                   turns, rows, written, counted, begun, memory, history>>
WriteQueries(from, to) ==
    /\ pc = from
    /\ \E h \in memory : queries' = h.queries
    /\ pc' = to
    /\ UNCHANGED <<prepared, conversation, committed, saved, calls, ledger,
                   turns, rows, written, counted, begun, memory, history>>
DiscardWrites ==
    \/ WriteCalls("discard calls", "discard queries")
    \/ WriteQueries("discard queries", "deliver")

\* The provider gets the message; its execution is now the newest.
Deliver ==
    /\ pc = "deliver"
    /\ conversation' = Append(conversation, NextTurn)
    /\ pc' = "turn"
    /\ UNCHANGED <<prepared, committed, saved, calls, queries, ledger, turns,
                   rows, written, counted, begun, memory, history>>

\* The agent asks the source while the turn runs.
SourceRequest ==
    /\ pc = "turn" /\ counted < begun + MaxCalls
    /\ counted' = counted + 1
    /\ UNCHANGED <<root, history, pc, turns, rows, written, begun, memory>>

\* observe_turn: a call or query whose turn and index are known is not added.
Observed(h, r) ==
    LET add(s) == IF \E q \in s : q.turn = r.turn THEN s ELSE s \cup {r}
    IN  [last |-> IF r.turn > h.last THEN r.turn ELSE h.last,
         rows |-> add(h.rows), queries |-> add(h.queries)]
This == [turn |-> NextTurn, by |-> Len(conversation)]

\* The turn ends, or the adapter's limit ends it: either way its history is
\* observed and written before the runner gets the result.
TurnEnds(result) ==
    /\ pc = "turn"
    /\ memory' = {Observed(h, This) : h \in Loaded}
    /\ pc' = IF result = "complete" THEN "calls" ELSE "calls of timeout"
    /\ UNCHANGED <<root, history, turns, rows, written, counted, begun>>

HistoryWrites ==
    \/ WriteCalls("calls", "queries")
    \/ WriteCalls("calls of timeout", "queries of timeout")
    \/ WriteQueries("queries", "commit")
    \/ WriteQueries("queries of timeout", "timeout")
-----------------------------------------------------------------------------
(* The result *)

Prefix == INSTANCE CommittedPrefix
          WITH log <- committed, MaxTurn <- LastTurn,
               Content <- [by : Execution, counted : Count]

\* The turn callback commits a complete turn once.
Commit ==
    /\ pc = "commit" /\ Len(turns) = Len(committed)
    /\ Prefix!Extend([by |-> Len(conversation), counted |-> counted])
    /\ turns' = Append(turns, Len(conversation))
    /\ pc' = "save"
    /\ UNCHANGED <<prepared, conversation, saved, calls, queries, ledger, rows,
                   written, counted, begun, memory, history>>

\* After an older checkpoint was resumed the turn has a payload already, and
\* write_payload refuses another; the error ends the process.
CommitRefused ==
    /\ pc = "commit" /\ Len(turns) # Len(committed)
    /\ pc' = "close"
    /\ UNCHANGED <<root, history, turns, rows, written, counted, begun, memory>>

\* Mutant: a committed turn leaves the source state as it was.
SaveSource_Skipped ==
    /\ pc = "save"
    /\ saved' = saved
    /\ turns' = turns
    /\ rows' = Append(rows, RowOf(Len(turns)))
    /\ pc' = IF Len(turns) = LastTurn THEN "rows" ELSE "idle"
    /\ UNCHANGED <<prepared, conversation, committed, calls, queries, ledger,
                   written, counted, begun, memory, history>>

\* persist_native_source_state; then send_message returns to the engine.
SaveSource ==
    /\ pc = "save"
    /\ saved' = counted
    /\ turns' = turns
    /\ rows' = Append(rows, RowOf(Len(turns)))
    /\ pc' = IF Len(turns) = LastTurn THEN "rows" ELSE "idle"
    /\ UNCHANGED <<prepared, conversation, committed, calls, queries, ledger,
                   written, counted, begun, memory, history>>

\* A turn that timed out is recorded and accounted for, never committed, and
\* the engine stops.
TimedOut ==
    /\ pc = "timeout"
    /\ turns' = Append(turns, Len(conversation))
    /\ rows' = Append(rows, RowOf(Len(turns) + 1))
    /\ pc' = "rows"
    /\ UNCHANGED <<root, history, written, counted, begun, memory>>
-----------------------------------------------------------------------------
(* The end of a process *)

\* The engine's rows of every turn, the replayed ones too, go to the ledger.
AppendRow ==
    /\ pc = "rows" /\ written < Len(rows)
    /\ ledger' = Append(ledger, rows[written + 1])
    /\ written' = written + 1
    /\ UNCHANGED <<prepared, conversation, committed, saved, calls, queries, pc,
                   turns, rows, counted, begun, memory, history>>

\* Mutant: the last row is left out.
RowsDone_OneShort ==
    /\ pc = "rows" /\ written + 1 >= Len(rows)
    /\ pc' = "close"
    /\ UNCHANGED <<root, history, turns, rows, written, counted, begun, memory>>

RowsDone ==
    /\ pc = "rows" /\ written = Len(rows)
    /\ pc' = "close"
    /\ UNCHANGED <<root, history, turns, rows, written, counted, begun, memory>>

\* The adapter loses its provider: send_message raises, and run() unwinds.
SessionFails ==
    /\ pc = "turn"
    /\ pc' = "close"
    /\ UNCHANGED <<root, history, turns, rows, written, counted, begun, memory>>

\* RunEnvironment.close writes the source state before it stops the source.
Close ==
    /\ pc = "close"
    /\ saved' = counted
    /\ Gone
    /\ UNCHANGED <<prepared, conversation, committed, calls, queries, ledger,
                   history>>

\* The process dies; the files stay as they are.
Crash ==
    /\ pc # "down" /\ crashes < MaxCrash
    /\ crashes' = crashes + 1
    /\ Gone
    /\ cutSave' = (cutSave \/ pc = "save")
    /\ cutDiscard' = (cutDiscard \/ pc = "discard queries")
    /\ UNCHANGED <<root, rewound>>

\* The adapter runs in a session of its own and outlives the runner: it may
\* still finish its turn and write the history.
CrashOfRunner ==
    /\ pc = "turn" /\ crashes < MaxCrash
    /\ crashes' = crashes + 1
    /\ Gone
    /\ \E h \in Loaded :
         /\ calls' = [last |-> Observed(h, This).last, rows |-> Observed(h, This).rows]
         /\ queries' = Observed(h, This).queries
    /\ UNCHANGED <<prepared, conversation, committed, saved, ledger, rewound,
                   cutSave, cutDiscard>>

Next ==
    \/ StartFresh \/ \E n \in Turn : Resume(n)
    \/ ReplayTurn \/ SendTurn \/ DiscardWrites \/ Deliver \/ SourceRequest
    \/ \E result \in {"complete", "timeout"} : TurnEnds(result)
    \/ HistoryWrites
    \/ Commit \/ CommitRefused \/ SaveSource \/ TimedOut
    \/ AppendRow \/ RowsDone \/ SessionFails \/ Close
    \/ Crash \/ CrashOfRunner

Spec == Init /\ [][Next]_vars
-----------------------------------------------------------------------------
(* Properties *)

Steps == {"down", "idle", "discard calls", "discard queries", "deliver", "turn",
          "calls", "queries", "commit", "save", "calls of timeout",
          "queries of timeout", "timeout", "rows", "close"}
Histories == [last : 0 .. LastTurn, rows : SUBSET Row, queries : SUBSET Row]

\* Every variable has its type; the history in memory is loaded once, and no
\* more rows are written than the engine has.
TypeOK ==
    /\ prepared \in BOOLEAN
    /\ conversation \in Seq(Turn) /\ Len(conversation) <= MaxSent
    /\ committed \in Seq([by : Execution, counted : Count])
    /\ Len(committed) <= LastTurn
    /\ saved \in Count /\ counted \in Count /\ begun \in Count
    /\ calls \in [last : 0 .. LastTurn, rows : SUBSET Row]
    /\ queries \in SUBSET Row
    /\ ledger \in Seq(Row)
    /\ pc \in Steps
    /\ turns \in Seq(Execution) /\ Len(turns) <= LastTurn
    /\ rows \in Seq(Row) /\ Len(rows) <= Len(turns)
    /\ written \in 0 .. Len(rows)
    /\ memory \in SUBSET Histories /\ Cardinality(memory) <= 1
    /\ crashes \in 0 .. MaxCrash
    /\ rewound \in BOOLEAN /\ cutSave \in BOOLEAN /\ cutDiscard \in BOOLEAN

\* "The runner never sends the committed prefix to the provider again": after
\* the execution a turn is committed with, only later turns are sent, however
\* often the run was interrupted, unless an older checkpoint was resumed.
CommittedTurnsAreNotResent ==
    ~rewound =>
        \A t \in DOMAIN committed :
            \A e \in DOMAIN conversation :
                e > committed[t].by => conversation[e] > t

HistoryOf(t, s) == {r.by : r \in {q \in s : q.turn = t}}
HistoryIsOfCommitted ==
    ~rewound /\ ~cutDiscard =>
        \A t \in DOMAIN committed :
            /\ HistoryOf(t, calls.rows) = {committed[t].by}
            /\ HistoryOf(t, queries) = {committed[t].by}
SourceRemembersCommitted ==
    ~cutSave /\ pc \in {"down", "idle"} =>
        \A t \in DOMAIN committed : saved >= committed[t].counted

\* Of a committed turn the history files hold the execution that was committed
\* and no aborted one, unless an older checkpoint was resumed or a crash cut
\* the write of a discard; and the source a resume starts has counted the
\* requests of all committed turns, unless a crash fell between a commit and
\* the source state, so a budget or a rate limit never starts over.
CommittedIsRemembered == HistoryIsOfCommitted /\ SourceRemembersCommitted

\* When a process has written its evidence, what the ledger last says of each
\* committed turn is about the execution that was committed.
LastRowOf(t) ==
    LET at == {i \in DOMAIN ledger : ledger[i].turn = t}
    IN  {ledger[i].by : i \in {j \in at : \A k \in at : k <= j}}
GradedLedgerIsOfCommitted ==
    pc = "close" /\ written > 0 /\ ~rewound =>
        \A t \in DOMAIN committed : LastRowOf(t) = {committed[t].by}

\* The linter reports a turn lower than the row before (lint.py, TURN_DECREASED):
\* the rows the runner writes are in turn order.
LedgerTurnsDoNotDecrease ==
    \A i, j \in DOMAIN ledger : i < j => ledger[i].turn <= ledger[j].turn
=============================================================================
