# Verification of the scenario runner and build-record tools

This directory is a verification development of the parts of this repository
that keep state: the live scenario runner under `evals/dp-scenarios` and the
build-record tools of the `nxd-run-job-loop` skill, and the stdio bridge of the
desktop evaluation. It holds TLA+ modules
translated from the Python source, TLC configurations that check them on small
instances, and TLAPS proofs of what matters most. Line numbers in
`PROJECT.json` ("map") name the code behind each definition.

## Inventory

Paths are relative to `evals/dp-scenarios/src/dp_scenarios/` unless they start
with `src/`, `evals/` or `scripts/`.

| component | state | operations | talks to |
| --- | --- | --- | --- |
| checkpoint store, `runner/checkpoint.py` | identity.json, payloads, records, journal.jsonl, latest.json, source snapshots | initialize, write_payload, write_source_snapshot, commit, latest, decide | called by the turn callback of `runner/tier.py`, read by a resume |
| recording session, `runner/session.py` | recorded turns, replay position | send_message, prefix replay, in-flight MCP rule | wraps the adapter, calls the turn callback |
| tier runner, `runner/tier.py` | per-scenario attempt, evidence directory, worker pool | run, _checkpoint_callback, _native_resume_context | all of the runner |
| run environment, `runner/environment.py` | persistent run root, contract, source process, workspace | prepare, persist_native_source_state, close | source, ledger, session |
| evidence ledger, `ledger/store.py` | evidence.jsonl, its .anchor, the advisory lock | open, append, close, read_ledger | written by the tier runner, read by gates and lint |
| mock REST source, `mockrest/` | oracle of requests, auth budget, dataset generation, cursor memo | data handler, refresh, reset, set_dataset_state, snapshot, restore | asked by the agent, switched by the chain, snapshotted by the environment |
| provider adapters, `runner/claude_adapter.py`, `codex_adapter.py`, `transcript.py` | provider process, conversation, timeouts | send, stream parsing, finish | session, supervisor history |
| supervisor history, `runner/supervisor_history.py` | seven JSON artifacts and a last turn | observe_turn, discard_turns_from, write | adapter, grading |
| publication chain, `runner/chain.py` | waiting, switched, failed or ungraded; chain-state.json | observe, switch, finalize | supervisor history, source, operator |
| review guard, `runner/review_guard.py` | locked state file of one review handoff | hook events of the agent's tools | agent, reviewer |
| operator, `operator/` | script cursor, queue of displaced beats, approvals owed, early, moved and renewed, what was answered | one message per slot, matcher, router, answer sheet | session, evidence ledger, chain |
| grants, `grantkit/` | grant events, provider transcript and summary of a run | issue, expand, dispatch, summary, check of cumulative budgets | tests; the runner uses the grants only |
| knobs, `knobs/` | none: immutable fault plans | environment and arguments for a supervisor | environment |
| Postgres fixture, `pgfixture/` | owned container, credentials, generations | start, seed, rotate, stop | environment |
| reviewer, `reviewer/` | calibration and adjudication records | dispatch, gate, score | grading |
| canary, `canary/` | extracted claims, verdicts | probe, verdict, rebaseline | tier |
| grading, `grading/`, `followups/` | none: functions of the evidence | gates, score, scans, oracles | report |
| synthetic data and scenarios, `synthgen/`, `scenario.py` | none: seeded functions | generate, load, validate | all |
| report, CLI, qualification, desktop, local, mapper bridge, `runner/*` | report files | rendering, orchestration | user |
| build record, `src/nxd-run-job-loop/scripts/dp_diagnostics.py`, `self_check.py` | `.nxd/build/*.json` records, write locks, materialization pins | init, append, concession, blocker, finish, verify-lock, materialized | the agent that builds a data product |
| spec tools, `dp_spec_authoring.py`, `dp_spec_v2.py`, `validate_dp_spec.py` | none: functions of a spec file | validate, render, diff | build record |
| skills, `src/nxd-*` | none: instructions | - | agent |
| desktop stdio bridge, `evals/desktop_stdio.py` | pending requests and deadlines of a proxy; connections, supervisor children and the review guard of the bridge | forward, time out, block, end of input | agent's MCP client, supervisor |
| other evals, `evals/run.py`, `nxd_eval/`, `mcp/`, ... | result files | run, compare | CI |
| tooling, `scripts/`, `.github/` | none | install, validate archives, render docs | CI |

How the stateful parts interact in one live run: the tier runner prepares a run
environment (run root, source, ledger), builds a recording session over the
provider adapter and lets the operator engine drive the script. Each turn goes
engine -> session -> adapter -> agent; the agent asks the mock source, the
adapter observes the supervisor history, the session calls back the tier runner,
which commits the turn to the checkpoint store and then persists the source
state. When the engine is done its rows go to the evidence ledger and the
environment closes. A later process may resume the run root natively: it reads
the checkpoint, replays the prefix from the recording, restores the source and
goes on. A batch of scenarios runs in a thread pool, each in its own root.
Around the agent's tool calls run the hooks of the review guard, which hold the
conversation until a captured review has been relayed; in the desktop evaluation
the bridge holds the calls instead. The build record is written by the agent, one
command at a time, next to the closure it builds.

Hard behaviours, and the properties that make the parts correct:

* Crashes between any two durable writes, of one store (record, journal line,
  pointer; row, anchor) and across stores (history, checkpoint, source state,
  ledger). Acknowledged turns and rows must survive or be reported missing
  (`AckedDurable`, `AckedRowsAreServed`), and stores must agree on what was
  committed (`CommittedIsRemembered`, `GradedLedgerIsOfCommitted`).
* Retries of what was already done: reruns, resumes of older checkpoints, timed-out
  turns (`NoFork`, `AppendOnly`, `CommittedTurnsAreNotResent`).
* Interleavings: requests that wait for a latency while others are answered or
  the dataset switches (`OracleIsTrue`, `WalkIsSound`), readers without a
  lock (`ReadersAgree`), writers outside the lock, an orphaned adapter, commands
  that read a file and later write over it (`OwedToTheUser`).
* State that is trusted when it is stale: latest.json, the cursor memo, the size
  of the ledger file, a materialization pin
  (`AppendOnly`, `WalkIsSound`, `GreenPlanWasChecked`).
* False alarms: a store that refuses what nobody damaged stops a run
  (`NoSpuriousRefusal`, `RestartIsFaithful`, `OrderlyRunIsClean`).
* Scenarios that fail, end or are interrupted while others run, and evidence that
  a killed tier left half written (`FailureIsHandled`, `EvidenceIsKept`,
  `KeepsPromise`).
* Reviews that hold a conversation while hooks, threads or connections race: no
  report passes for a review that has not happened, no call that is decided after a
  capture reaches the supervisor before its review, and no reviewer loses its clock
  (`ReviewTookPlace`, `NothingPassesReview`, `ClockHeld`).
* Deadlines that race a late answer (`AnswersSurviveRaces`, `DeadlineIsMet`).
* A script and a conversation that compete for every message: what a question
  displaces is neither lost, nor said twice or out of order, and an approval is
  given once, on record, to the plan that was asked about (`QueuedBeatsAreSaid`,
  `ScriptIsKept`, `ApprovalsAreSound`).
* A verdict that outlives what it was about: a lock, a self-check or a record
  whose files were edited meanwhile, and debts to the user that a later command
  could forget (`VerifiedPlanWasApproved`, `GreenPlanWasChecked`,
  `OwedToTheUser`); calls that were paid for and are in no total
  (`PassedMeansAccounted`).

## Plan

Order of the modules, the most important behaviour first:

1. `CheckpointStore` over the abstract log `CommittedPrefix`: what a live run has
   made durable. Written, checked and proved.
2. `EvidenceLedger`: the rows everything is graded from. Written, checked and
   proved.
3. `MockSource`: the source and the oracle of what was asked of it. Written,
   checked and proved.
4. `NativeRun`, which composes the checkpoint store (as `CommittedPrefix`), the
   recording session, the adapter's history, the source state and the ledger
   rows over several processes. Written, checked and proved.
5. `TierPool` over the abstract `TierPromise`: the scenarios of a tier in a
   thread pool, and their evidence bundles. Written, checked and, but for its
   liveness, proved.
6. `BuildRecord`: the build record and its lock (`dp_diagnostics.py`,
   `self_check.py`). Written, checked and proved.
7. `GrantLedger`: grants issued, expanded and spent, and the checker of their
   budgets. Written, checked and proved.
8. `ReviewHandoff`: the review guard's locked state file, moved by hook events of
   two agents, and the adapter's reviewer deadline. Written, checked and proved.
9. `DesktopBridge`: the proxy and bridge of the desktop evaluation. Written and
   checked; its safety properties proved.
10. `OperatorLoop`: the operator's script, with the chain controller that moves
    it from prefix to suffix. Written, checked and proved.
11. The switch of a chain composed with `MockSource` and `NativeRun`: what a native
    resume replays of it. Not written.

Runs. One run per question, on the smallest instance in which the interesting
case happens; a second run of a module only for a disagreement of the code with
its documentation.

Theorems worth proving, in this order:

* Every property of `CheckpointStore`, its refinement of `CommittedPrefix`
  included; `TypeOK`, `AckedRowsAreServed`, `ReadersAgree` of `EvidenceLedger`;
  every property of `MockSource`, `NativeRun`, `ReviewHandoff` and `BuildRecord`; the
  safety properties of `DesktopBridge`; every safety property of `TierPool`, its
  refinement of `TierPromise` included (done).
* Every property of `GrantLedger` and of `OperatorLoop` (done).

A component's proofs are in a module of their own, `<component>Proofs.tla`; those of
`EvidenceLedger` and `GrantLedger` share `LedgerProofs.tla`, and those of what a
scenario scripts, `MockSource` and `OperatorLoop`, share `ScenarioProofs.tla`.

## CheckpointStore: durable turns of a live run

`CheckpointStore.tla` models `runner/checkpoint.py` together with the code that
drives it: the persist callback of `runner/tier.py` (2397-2476), the in-flight
rule of `RecordingSession.send_message` (`runner/session.py` 1169-1231) and the
resume path `_native_resume_context` (`runner/tier.py` 2478-2514).

State. Every file of the store is a variable: `identity` (identity.json),
`payloads` and `records` (checkpoints/\*.payload.json, checkpoints/\*.json),
`snapshots` (source-snapshots/), `journal` (one set per line of journal.jsonl:
the state it decodes to, or `{}` for a torn line), `unended` (the last line has
no newline) and `pointer` (latest.json). The process is `pc` and `turns`, the
session's recorded turns. `acked`, `clean` and the counters are history.

Data. A checkpoint id is `turn-NNNNNN`, so it is its number. A turn's payload is
the recorded prefix, a sequence of contents, and is its own digest; a prefix
digest chains payload and parent digest, so it is the sequence of payloads along
the chain. Two digests are then equal exactly when the hashed data is.

Actions. `StartFresh` is `initialize` (same pins find the store, other pins are
refused); `Resume` is a native resume of `latest()` or of one record, and reads
the source snapshot when there is one; `TurnCompletes`, `TurnInFlight` and
`SessionEnds` are the outcomes of one turn; `WritePayload`, `WriteSnapshot`,
`CommitRecord`, `CommitJournal` and `CommitPointer` are the durable writes of one
persist, in the order of the code, so that `Crash` can fall between any two and
`CrashDuringAppend` inside the only write that is not atomic; `PersistRefused` is
every CheckpointError. `LosePointer` and `LoseRecord` are damage between writes.

| run | checks | instance |
| --- | --- | --- |
| `checkpoint_store` | `TypeOK`, `AckedDurable`, `NoFork`, `HistoryIsResumable`, `NoSpuriousRefusal`, and `AppendOnly`: the store implements `CommittedPrefix` | 3 turns, 2 contents, 2 pin sets, two crashes, one lost record, one lost pointer, one in-flight turn |

Three turns are enough for a middle turn to be lost, rerun or resumed under a
later one, and two contents for two histories to differ. `AppendOnly` is about
the prefix that readers may resume, and says that a step is one of the log's as
long as no record was lost and no in-flight turn was recorded; those two leave
files that make a reader go back, as below. The run has no
fairness: every property is a safety property, a process may stop for good after
any step, and so deadlock is not checked.

Three known disagreements of the code with its documentation limit these
properties. TLC finds each in a few steps, in the instance named:

* `_append_journal` (checkpoint.py 400-406) appends after whatever the file ends
  with. If a crash leaves a complete line without its newline, the next commit
  joins it and neither decodes. Once latest.json is lost too, the backward walk
  the module header promises ends before acknowledged turns (`AckedDurable` with
  `"newline"` in `Tears`).
* `latest` (1004-1012) trusts a readable pointer. After a crash between the
  journal line and latest.json it returns the older checkpoint although the
  journal holds a newer valid one, against "Return the newest valid checkpoint",
  and the retried turn is refused as already committed
  (one crash).
* `commit` (949-1002) checks numbers and digests, not that a payload extends its
  parent's. A rerun whose first turn ends in flight commits turn 2 on the earlier
  run's turn 1, against "an incomplete turn cannot be silently skipped"
  (`CommitContinuesPrefix`, one in-flight turn). `NoFork` is the same statement
  when no turn ended in flight, and it holds.

Proved (`CheckpointStoreProofs.tla`), for every script length, content set,
identity set and bound:

* `TypeCorrect`: `Spec => []TypeOK`. Its lemmas show that whatever `latest()` or
  a resume selects is a checkpoint state whose payload has as many turns as its
  number, which is what makes the next file name well defined.
* `AcknowledgedTurnsStayReadable`: `Spec => []AckedDurable`, assuming that a crash
  never leaves a line without only its newline (`"newline" \notin Tears`; see the
  first disagreement above). `AckedDurable` is not inductive:
  it says nothing of the files a later recovery will walk. The strengthening
  `DurableInv` says, while no record is lost, that the journal's good lines are
  the records 1..k in order, each continuing its parent (`JournalIsChain`), that
  only the last line may be torn (`TornLineIsLast`), that the pointer names one of
  them at or past `acked` (`PointerInJournal`), and what each step of a persist
  has already written (`PersistProgress`).

The rest of the run's properties are proved there too, from
one invariant, `StoreInv`:

* `ReadersNeverFork`: `Spec => []NoFork`. Its reason is that payload files are
  written once: every state on disk still has its payload (`PayloadsStay`) and,
  while no turn ended in flight, each payload begins with those of all earlier
  turns (`PayloadsNest`), because a session only ever holds turns that are on
  disk and the one it persists (`SessionNests`). Two readable checkpoints are
  then two elements of one chain. It holds whatever was torn or lost.
* `ReadableCanBeResumed`: `Spec => []HistoryIsResumable`. A native run's snapshot is
  written before its record (`SnapshotsFirst`) and is of the payload
  (`SnapshotsMatch`); while no record is lost, the records below any record are
  there and complete (`RecordsInOrder`), since a commit extends what `latest()`
  validated to the root.
* `UndisturbedIsNotRefused`: `Spec => []NoSpuriousRefusal`. `FilesInStep` says that,
  while nothing went wrong, records, latest.json, payloads and session are at most
  the one turn under way ahead of the journal. A refused persist keeps this
  because it is refused on its first write or is of a turn already journalled
  (`RefusalLeavesNothing`): a turn that gets past its payload is committed.
* `StoreKeepsTheLog`: `Spec => AppendOnly`, under `"newline" \notin Tears` as above:
  the step to `CommittedPrefix`. latest.json is never more than one line behind the
  journal (`PointerIsNear`), so what `latest()` returns stays or moves to the next
  turn, and only from a complete one (`NewestStep`); with `PayloadsNest` the prefix
  then grows by exactly one turn (`LogStep`).

Not modelled: two processes on one store (there is no lock; the runner starts
one), the wording and hashing of payloads, report-only decisions, path checks of
payload references, and a record whose bytes are damaged rather than removed.

## EvidenceLedger: the anchored row chain

`EvidenceLedger.tla` models `ledger/store.py`. The state is the file (`lines`,
and `ended`: its last line is whole), the `anchor` file, the advisory `lock`,
and per handle the next step and the line in its hands. A line is its body and
the digest it names; a digest is the sequence of bodies it was computed over, so
that equal digests are equal histories. `acked`, `seen` and `outside` are
history.

Actions. `OpenExisting` and `OpenNew` are the two branches of `open`;
`InitManifest` and `InitAnchor` are `_atomic_initialize`; `AppendBegins`,
`WriteLine` and `WriteAnchor` are `append`, split where a crash or another
process can fall between; `ReadLines` and `ReadAnchor` are `read_ledger`, which
takes no lock. `Crash` may leave a torn line, `AnchorFails` is the exception of
the sidecar write, `EditLine` and `Truncate` are damage. `Outsiders` are writers
that do not honour the lock: it is advisory, and the module header (lines 19-22)
states what the store promises and what it does not. An outsider only appends to
an open ledger. A truncation falls on a line boundary; a torn last line is what
`Crash` leaves.

| run | checks | instance |
| --- | --- | --- |
| `ledger` | `TypeOK`, `AckedRowsAreServed`, `ReadersAgree` | a writer and an outsider, 2 row contents, 3 lines, 2 crashes or failed writes, 1 edit or truncation to one or two lines |

Three lines are the manifest, one row to lose and one row to lose it under; two
crashes let the recovery from one be interrupted by another. No fairness: a
handle may stop at any step, and all properties are safety properties.

The instance leaves out a ledger cut to zero bytes (`0` in `Remaining`), for which
TLC finds `AckedRowsAreServed` violated: `open` decides by the size of the file,
initialises the emptied ledger again over its own anchor, and nobody sees an
error.

Proved (`LedgerProofs.tla`), for every set of handles, manifests and
rows and every bound:

* `TypeCorrect`: `Spec => []TypeOK`, which includes mutual exclusion of the
  handles that honour the lock.
* `AcknowledgedRowsAreServed` and `ReadersNeverDisagree`:
  `Spec => []AckedRowsAreServed` and `Spec => []ReadersAgree`, for any number of
  handles and outsiders, assuming `0 \notin Remaining`. Neither is inductive: an
  edited or half-written file is not readable now, and nothing in the property
  says that it will not become readable again with a row missing. `LedgerInv` has
  a part for each of the two ways in which the properties hold, besides `Founded`
  (a file without a line has no anchor, and until there is an anchor only the
  handle that begins the ledger is inside it) and `OneLineEach`:
  * `Guarded`, while no outsider has opened the ledger, whatever damages it.
    Whatever was acknowledged or accepted by a reader is a prefix of the anchor's
    digest (`AnchorKeepsPromises`) and the line a handle is about to write
    continues the anchor (`WritesExtendAnchor`). A readable file is the sequence
    the anchor names (`ChainDigest`).
  * `Undamaged`, while the file has not been damaged, whoever writes it. The file
    only grows, so what readers hold and have accepted is a beginning of it
    (`ReadersFollow`); and unless a torn line made it unreadable for good, it has
    the line of every append that returned or is about to (`RowsAreKept`). Two
    writers may have interleaved, and the anchor may name either of them, but a
    line of a file that chains names a beginning of what the file holds
    (`ChainedLineServes`).

  The assumption is needed for `Founded`, with the emptied ledger as its
  counterexample. With damage and an outsider both, the properties promise
  nothing: an outsider may append to a file that was cut, over its old anchor.

Not modelled: the schemas of rows and manifests, and the JSON encoding.

## MockSource: the source and its oracle

`MockSource.tla` models the data path of `mockrest/server.py` with
`counters.py` and `behaviors.py`. The server is one event loop; a handler awaits
only in the latency of its route (`_state_lock` is never held over an await, so
taking it never suspends), so a request to a slow route is `Arrive` and
`Respond`, and every other request is the single step `Serve`. `Refresh`,
`SetDatasetState` and `Reset` are the other handlers; `Persist` and `Restart` are
the snapshot the environment writes and the process that starts from it, which
loses the calls in flight. `Status` keeps the order of the checks: header, rate
limit, auth budget, cursor. `answers`, `spent`, `issued` and `walked` are history
variables: what clients were told.

| run | checks | instance |
| --- | --- | --- |
| `mock_source` | `TypeOK`, `RestartIsFaithful`, `OracleIsTrue`, `WalkIsSound` | a slow, paged, authenticated route and a fast one, 2 calls in flight, 3 recorded requests, every 3rd limited, one switch, one restart or reset, budget 1 |

Two calls in flight and a fast route give every order of two responses with
another route in between; three requests are what a walk of two pages and a
competitor need. No fairness is assumed. `RestartIsFaithful` is that every snapshot
is accepted by a restore (`SnapshotsRestorable`) and that no restart refills or
drains the budget (`BudgetHonoured`); `WalkIsSound` that a page is of the dataset
its observation names (`PagesMatchState`) and that a cursor the source issued is
accepted as long as its dataset is there (`IssuedCursorsAccepted`).

With two parents of one route, of one page and of two, TLC finds
`IssuedCursorsAccepted` violated: the memo of valid cursors is keyed by the route
template and the dataset key, so the first parent asked for decides for all. The
run has one collection.

`IdleResets` restricts `Reset` to moments without a call in flight, which is how
the harness uses the control port: nothing in the repository resets during a
request. It is an assumption of the run and of the theorems. Without it TLC finds
`OracleIsTrue` and `RestartIsFaithful` violated, for `record_response` finds an
event by route and number, and after a reset the number may name another one.

Proved (`ScenarioProofs.tla`), for any routes, calls, collections, states, budget
and rate limit: `SourceIsTyped`, `OracleTellsTheTruth`, `RestartsAreFaithful` and
`WalksAreSound`, every property of the run. The two about the oracle assume
`IdleResets`, as explained above; the last one assumes that collections have equally
many pages (`SamePages`), which the violation above shows to be needed.

* `OracleInv`: every waiting call is the event of its own, has no status yet, and
  carries the number under which `SequenceOf` finds it (`Pending`). The numbers of a
  route's events grow (`CountGrows`) and do not change when others are recorded
  (`CountKept`), so a response finds its own event and no other (`FoundAgain`).
  Since that event had no status, its page is the first that names it, which is
  what a restore demands (`AnswerToOwn`).
* `Balanced`: tokens used and left are the initial budget, now and in every snapshot.
* `WalkInv` rests on the types: an issued cursor starts a page of its collection and
  a memo holds the page starts of some collection (`IssuedIsValid`).

Not modelled: static-error routes, scopes, item routes, CSV bodies, docs pages,
the binding of ports, more than one dataset family.

## NativeRun: one run over several processes

`NativeRun.tla` composes the parts that keep a record of the same turns:
`runner/tier.py`, `session.py`, `environment.py`, the adapter's `send` and
`SupervisorHistory`. The checkpoint store appears as its abstract specification:
`committed` is the log of `CommittedPrefix`, which `CheckpointStore` is shown to
implement (`AppendOnly`), and `Commit` takes its `Extend` step. A turn that is
sent again is executed again, so an execution is named by its position in the
provider's conversation.

State. `prepared`, `conversation`, `committed`, `saved`
(native-source-state.json), `calls` (tool-calls.json with its last_turn),
`queries` (the history files written after it) and `ledger` survive a process;
`pc`, `turns`, `rows`, `written`, `counted`, `begun` and `memory` do not.

Actions. `StartFresh`, `Resume` and `ReplayTurn` are the start of a process;
`SendTurn` with `DiscardWrites` is `send`, which first removes what an aborted
execution of the turn left; `Deliver`, `SourceRequest`, `TurnEnds` and
`HistoryWrites` are the live turn, ending on its own or by the limit; `Commit`,
`CommitRefused`, `SaveSource` and `TimedOut` are the turn callback; `AppendRow`,
`RowsDone`, `SessionFails` and `Close` end a process. `Crash` may fall between any
two, and `CrashOfRunner` leaves the adapter, which has a session of its own, to
finish its turn and write its history.

| run | checks | instance |
| --- | --- | --- |
| `native_run` | `TypeOK`, `CommittedTurnsAreNotResent`, `CommittedIsRemembered`, `GradedLedgerIsOfCommitted` | 3 turns sent up to 5 times, 2 crashes, 1 source request per turn, resumes of older checkpoints allowed |
| `native_run_retry` | violation of `LedgerTurnsDoNotDecrease` | 2 turns, 3 sends, no crash |

Five sends of three turns are two retries, of one turn or of two; two crashes let
a recovery be interrupted. No fairness: a process may stop after any step.

`CommittedIsRemembered` says of the history (`HistoryIsOfCommitted`) and of the
source state (`SourceRemembersCommitted`) that they are those of the committed
turns. The properties have three exclusions, each recorded by a history variable, and
TLC finds the property violated without it:

* `rewound`: a resume named an older checkpoint. The turns after it are executed
  again and their commit is refused, but the source state, the history and the
  conversation have moved on.
* `cutSave`: a crash between the commit and native-source-state.json. The
  resumed source has forgotten the requests of the committed turn.
* `cutDiscard`: a crash inside `discard_turns_from`. tool-calls.json already has
  the lower last_turn, so no later `send` discards, and `_append_query` keeps the
  aborted query and drops the retried one.

`native_run_retry`: each process appends the rows of all turns its engine ran,
replayed ones included. After a timed-out turn and a resume the ledger goes back
to turn 1, which `ledger/lint.py` reports as turn_decreased.

Proved (`NativeRunProofs.tla`), for every number of
turns, sends, crashes and requests of a turn: `RunIsTyped`,
`CommittedPrefixIsNotResent`, `CommittedTurnsAreRemembered` and
`LedgerIsOfCommitted`, that is, every property of the run `native_run`. None is
inductive:

* `RunInv`, for `TypeOK`. A process may only take a step within its bounds because
  of where it is: a turn in hand is the next one, its rows are those of the
  recording (`Stage`), and the adapter has one history (`OneHistory`). That the
  source's count stays in `Count` needs `Metered`: what was counted is at most
  the requests of one turn times the messages sent, whichever of them a crash
  has made the source forget.
* `RecordInv` adds how the copies of a turn are linked. The recording starts with
  the committed prefix and has a row for each turn (`Linked`), which gives
  `CommittedTurnsAreNotResent`; the last `written` rows of the ledger are this
  process's (`TailIsOurs`), so that whatever earlier processes wrote, the last row
  of a committed turn is its own; the source's count covers what the committed
  turns were given, in memory and in its file (`CountsKept`).
* `HistoryInv`, in `RecordInv`, is about two history files that are written one
  after the other, and an adapter that holds what they will become. It says which
  of the two may be behind at each step (`FilesFollowMemory`), that the history of
  a turn is empty before the turn is sent (`NothingAhead`, which is what
  `discard_turns_from` is for), that memory and files agree with the committed
  executions and hold nothing past their last turn (`MemorySound`, `FilesSound`),
  and that a turn about to be committed is in both (`TurnObserved`). The last
  three hold up to `rewound` and `cutDiscard` only.

Not modelled: a turn that ends on an unanswered MCP call (it is in
`CheckpointStore`), the order of writes while the run root is prepared,
source-turns.json (a resumed process rewrites it without the turns of the
prefix), rows that are not turns, and the adapter of a crashed runner still
running when the next process starts.

## BuildRecord: what was approved, built and checked

`BuildRecord.tla` models the commands of `dp_diagnostics.py` and `self_check.py`
that keep state. Each is a process over files: the live specification `spec`, its
copy in the closure (`snapshot`), `lock` and `record`. A text is its plan (what
the canonical hash covers) and its status; a file is absent, torn or complete.

Actions. `LockReads`, `LockCopies` and `LockWrites` are `write_lock`, which reads
the specification twice. Whoever writes the record has read it before, takes no
lock, and does not read it again: `Reads` puts what a process (one of `Writers`)
will write into `pending`, and `WritesOver` replaces the record by it, whatever it
has become by then. `RecordInit` is `record init`; the `Append...` actions are the
parts of one `record append` command, each followed by `recompute_caps`; both are
written by `WriteRecord`, which a kill may leave torn. `SelfCheckReads` is the
self-check's look at the closure, `SelfCheckMerges` its reading of the record
minutes later, and `SelfCheckReplaces` the file it moves over it. `Killed` may end
any of them in between, `EditSpec` and `EditSnapshot` are edits. `LockIntact`,
`Materialized` and `State` are `verify_lock`, `materialized` and
`materialization_state`. `approved`, `checked`, `raced` and `owed` are history.

| run | checks | instance |
| --- | --- | --- |
| `build_record` | `TypeOK`, `VerifiedPlanWasApproved`, `GreenPlanWasChecked`, `OwedToTheUser` | 2 plans, 2 processes over the record, 6 steps of which 2 may be edits, 1 concession code, cap of 2 regenerations, reports on one offline stage and on publication |

A materialized record takes four commands: lock, init, self-check, and a skipped
publication. The stages s4 to s6, which `record append` treats alike, are left out
of the instance (`RunStages`). `MaxSteps` leaves two more to spoil or to repeat; two
edits are there and back; two processes are what one overlap needs. No fairness: an
agent may stop after any command.

`GreenPlanWasChecked` excuses what `raced` records: a self-check that passed on a
lock whose hash and bytes are of two texts (an edit between the two readings of
`lock write`), and one whose record is replaced by a record of another plan before it
merges, because `merge_record` compares no hash.

`OwedToTheUser` claims what the code can keep: what the record was told by a process
that was alone between its reading and its writing. Such a debt survives every later
command, since whoever reads after that write has it. What is told while another
process is pending is lost when that one writes last, a concession, an open
question, a heal that edited the plan or a counted regeneration alike. For
concessions that contradicts build-record.md:374-375 ("Until then the product is not
materialized, however green every stage is"): `ConcededIsNotMaterialized` says so of
every concession, and TLC finds it violated on this instance with five steps and no
edit: lock and init; a self-check passes; a skipped publication and the concession
are read over one another, and the later write drops the concession. The property speaks of one
record: a torn one can only be begun again, and then the old one's concessions,
blockers and counted regenerations are gone.

Also seen, and not about a property: `--status` alone replaces a stage's status and
keeps its diagnostics, so that a stage that passed and was then marked failed
without a report reads `environment_suspect`, against "silence is not evidence"
(dp_diagnostics.py:3286); `materialized` compares the record with the
lock's hash and does not look whether lock and snapshot are intact; `merge_report`
does not compare a report's specification with the record's; a concession may
arrive already disclosed; and after a heal that edited the plan every later
append exits with an error although it was written.

Proved (`BuildRecordProofs.tla`), for all plans, stages, codes and caps and any number
of edits, commands and kills: `BuildIsTyped`, `LocksAreOfApprovedPlans`,
`MaterializedWasChecked` and `DebtsAreRemembered`, all the properties of the run,
from `BuildInv`. That an approved plan is remembered holds of the live
specification, of a lock write under way and of the lock alike (`Vetted`), and
`verify_lock`'s comparison carries it to the snapshot. `GreenPlanWasChecked` needs
to know what a self-check that is still running has read: without a race it is
the plan of the record it will be merged into, and the same holds of every record
that some process is about to write (`CheckIsOfRecord`): whoever vouches for an
image vouches for the plan the image was begun for. `OwedToTheUser` needs the
concession itself, not only its effect on the reading: every code told and not
disclosed has an undisclosed entry (`Keeps`), in the record and in every image of it
that is still to be written (`RecordKeeps`), since nothing that others tell
meanwhile is owed. The lemmas `AppendInv` and `MergedIs` show this once for all
commands that write the record and for the merge of a self-check. The constant `Reported` is assumed to name known
stages, as the argument parser ensures (dp_diagnostics.py:4490).

Not modelled: review rounds, evidence, narrative, read-back of warnings, schema
validation, the v3 lock and its proposal, and the checks inside the phases, which
are functions of the closure.

## GrantLedger: provider calls and their budgets

`GrantLedger.tla` models `grantkit/ledger.py`: the ledger of one run, which
writes three files, and `check_cumulative_budgets`, which reads those of many.
`defined` and `reserved` are in grant-events.jsonl, `started` and `settled` in
the transcript, `summary` is the run's claim; `process`, `current`, `nextCall`,
`calls` and `thread` are memory. `invoked`, `reopened` and `handed` are history.

Actions. `Issue` and `Expand` move the current grant; `Reserve`, `Start`,
`Invoke` and `Settle` are one `dispatch` by one of several threads, with its lock
held from the reservation to the start record and again in the `finally`;
`Refuse` is an argument refused after its number was taken, `SettleFails` an
append that raises. `WriteSummary` is `close`, and the process may go on after
it. `Ends` kills or ends a process at any step, `Open` starts one, also over a
used directory, which it does not read.

| run | checks | instance |
| --- | --- | --- |
| `grant_ledger` | `GrantTypeOK`, `PassedMeansAccounted`, `OrderlyRunIsClean` | 2 runs, 2 threads, grants of 1 and 2 calls, 3 call numbers, 1 reopened directory |

Three calls exceed either ceiling and let two settle out of order; two runs share
a grant, so that only their sum breaks it.

`PassedMeansAccounted` excuses reused directories: the second process starts its
numbers at 1 again, and its completed rows hide that the first one's calls of the
same numbers never completed. `OrderlyRunIsClean` is about runs in which every number
handed out was settled: the number of a refused dispatch stays a gap and reads as a
deleted call.

Proved (`LedgerProofs.tla`), for every set of runs and threads, all ceilings and all
bounds: `GrantsAreTyped`, `PassedRunsAreAccounted` and `OrderlyRunsAreClean`, every
property of the run. The last two are not inductive: they say nothing of a run
that is still at work. `GrantIInv` adds, for every run,

* `RunInv`: a call that a thread has in hand has a number below the next one, was
  reserved, and once it is past its reservation is started;
* `FirstUseInv`, for a directory that was not used again: the numbers of the rows
  differ, none is in a thread's hands, and the process's order of calls is the
  order of the rows;
* `NothingLostInv`, also for those: `Lost` are the numbers that were started, that no
  row settles and no thread holds, because an append failed or the process was
  killed. As long as none is lost, the calls made of a grant are as many as the
  numbers under which its rows and the threads in flight have called (`MadeUnder`).
  A kill in mid-call makes a number lost for ever, so nothing more is claimed.

The check passes only runs without an incomplete call. Such a run has lost none and
has none in flight, so the calls made are its rows (`CleanRunIsAccounted`), which have
different numbers and can be counted (`RowsAreCounted`). The totals of a set of runs
are then sums of equal functions, and no induction over the set is needed. One step
moves one run: `GrantIInvOneRun` reduces each action to that run, as `SameIsKept`
covers the others. `GrantIInv` was checked by TLC on the instance above first.

Not modelled: token and spend ceilings and unknown usage, attempts.jsonl of the
field mapper, edits of the files. The runner imports `grants.py` only; the ledger
is used by the repository's tests.

## ReviewHandoff: a conversation held until its review is relayed

`ReviewHandoff.tla` models `runner/review_guard.py` and the reviewer deadline of
`claude_adapter.py`. Around every tool call of the owner runs a PreToolUse hook
and afterwards a PostToolUse hook, each a process that locks the state file, moves
it and writes it back. `guard` is that file and `torn` says that a write was cut;
`call` are the tool calls, several of which may be in one message; `deadline` is
the id the adapter's clock is armed for. `claims`, `let`, `released` and `unguarded`
are history.

Actions. `Unconstrained`, `Dispatch`, `InputsGone`, `Relay` and `Deny` are
`_owner_pre`; `AfterCapture`, `AfterReview` and `AfterReport` are the branches of
`_handle`; `Stop` is the Stop hook. A hook is lost in two ways. `HookFails` is an
exception, which `main` turns into a denial. `HookKilled`, `HookKilledLate` and
`StopKilled` are the host's kill after the five seconds of `settings_payload`, before,
in or after the write of `_LockedState.__exit__`: nothing is printed, so the host may
run the call, drop it, or let the turn end, and the file is as it was, cut short or
moved on. `Poll` is `_refresh_review_deadline`, which reads the file without the lock. `Capture`,
`Reviewed`, `AcceptReport` and `Refused` are supervisor and reviewer, external,
modelled from the results the guard expects of them.

| run | checks | instance |
| --- | --- | --- |
| `review_handoff` | `TypeOK`, `ReviewTookPlace`, `ClockHeld` | 5 calls, 2 in one message, 2 captures, 1 failing or killed hook |

Five calls are a capture, two reviewers (one that fails, or two at once), a
report and one more capture that supersedes the first. Calls are symmetric: no
definition tells them apart. No fairness.

`ReviewTookPlace` is `HandoffHappened`, a report is accepted, or the conversation
stopped, only over claims of a reviewer, and `OneReviewer`, of the reviewers that the
guard accepted no two work on one capture. The first has two excuses, each a
history variable.

* `released`: captures the guard lets go by design, because the retained inputs are
  gone or unusable, or because a later capture ended in an error. Two captures
  in one message, the second of which errors, reset the guard too.
* `unguarded`: captures over which a hook was lost. These are the hook that would have
  announced the capture, one that was killed over a report, and a killed Stop
  hook. A hook lost over any other call, a dispatch or a command, excuses nothing.

The second excuse is needed without any kill. `FailuresPermitNothing` has the first one
only, and with `HooksAreKilled = FALSE` TLC finds it violated in six states: the
PostToolUse hook of a capture raises, `main` prints a PreToolUse denial for a call that
has already run, the file stays normal, and the turn may stop on an unreviewed
capture, although a hook failure "must never silently permit a pending relay"
(review_guard.py:1341).

`ClockHeld` is about reviewers of the latest capture. A capture that a killed hook let
run while a reviewer is at work supersedes the review, resets the guard, and with it
the clock of that reviewer. A dispatch that fails and is retried between two polls of
the adapter keeps the clock of the first one.

Proved (`ReviewHandoffProofs.tla`), for every number of calls, captures, lost
hooks and every width of a message: `HandoffIsTyped`, `ReviewsTakePlace` and
`ClocksAreHeld`, all the properties of the run. `HandoffHappened` says nothing of
a capture whose result the guard has not seen, and is not inductive. `HandoffInv`
rests on what a message is: its calls were all asked for before the first of them
ran. So none of them names a capture that succeeds in it, and a second capture
is refused (`MessageIsComplete`). An accepted reviewer is the one in the file
(`ReviewerAtWork`); only a capture that a killed hook let run moves the file on
beside it, and then no call of the message is of the capture in the file, so that no
second reviewer is accepted. The reviewer on file was dispatched for
the capture on file and has returned claims just when they are on record
(`ReviewerOnFile`), and one that completed a review is no longer at work
(`CompletedIsOver`); no report on the capture on file is at the supervisor before the
claims, but one let run by a kill (`ReportsWait`); and of the capture the supervisor
waits for the guard has claims, or let it go, or will be told of it, or holds it, or a
hook over it was lost (`GuardKnows`).

Not modelled: which paths and commands the guard denies, the wording of prompts,
the reviewer's own calls, the length of the deadline.

## DesktopBridge: requests, deadlines and a held review

`DesktopBridge.tla` models the path of a request in `evals/desktop_stdio.py`. The
agent's MCP client starts the proxy (`run_stdio_proxy`), which has a main thread,
timer threads and a reader; the runner starts a supervisor child per connection
with one thread for each direction (`_serve_connection`). `holder`, `pending`,
`timer` and `budget` are the proxy's, `lines` what the client has read;
`queue`, `child` and `reading` are the connections', and `inFlight` and `guard`
are the two variables, shared by all connections, that hold tool calls.

Actions. `Connect`, `Send`, `SendDuplicate`, `SendIsLost`, `ClientCloses` and
`ProxyEnds` are client and main thread; `TimerMarks` and `TimerWrites` are
`timeout_response` under and after its lock, `ReaderPops` and `ReaderWrites` are
`forward_responses` likewise; `Block`, `Admit` and `Forward` are
`forward_to_server`, which reads the guard under the lock and sets its flag under
a later one; `Passes` is `forward_from_server` with `update_review_guard`.
`Execute` and `ChildEnds` are the supervisor child, external.

| run | checks | instance |
| --- | --- | --- |
| `desktop_bridge` | `TypeOK`, `AnswersSurviveRaces` (`OneAnswer` and `DeadlineHasAKeeper`), `NothingPassesReview`, `DeadlineIsMet` | 3 requests, 2 ids, 2 connections, 1 crashed child, a deadline injected once into a capture |

Two connections and three requests are a capture on one, its review and a call on
the other; two ids let one be used again while the other's answer is late.

Fairness. `WF` of the timer threads, of which `threading.Timer` runs every one
that is started and not cancelled, and of the reader's write, which follows the
read in the same loop. Nothing makes the client send or close, a child answer, or
the bridge forward. `DeadlineIsMet` then says that a request with a deadline does
not stay unanswered while its client is there. Deadlock is not checked: the client
may stop.

`NothingPassesReview` looks at every call on its way, let through, written to a child
or at work there, while the supervisor waits for a review. A bridge thread decides
under one lock and writes the line later without looking again, so a call let
through before the capture was forwarded may still be on its way: those are
`overtaken`, and no other call is. That they do cross the boundary contradicts the
comments at desktop_stdio.py:3538 and 3564 ("only the captured-input reader, workflow
inspection and the review report cross the tool boundary"): the client closes a connection whose last call the bridge
lets through, the next connection's capture asks for a review, and then the first
connection's thread writes the call to its child. `ReviewIsABoundary` states the
comment, and TLC finds it violated with two requests.

Both properties excuse the state in which two bridge threads let a
capture through at once (`raced`): there is one flag for all, and the first answer
clears it for both. The flag is also only cleared by the answer on the connection: when
the proxy is restarted or the child ends before that, every later tool call is
held, the review itself and the inspection included, although the comment at
desktop_stdio.py:3564 lets those cross.

Proved (`DesktopBridgeProofs.tla`), for any number of requests, connections, ids and
crashes and any injected deadlines: `BridgeIsTyped`, `RacesKeepTheAnswers` (from
`EachRequestIsAnsweredOnce` and `DeadlinesAreNotDropped`) and
`NothingIsLetThroughUnderReview`, the safety properties of the run. `OneAnswer` follows
from `AnswerInv`: an id passes to another request only once its own is answered
(`Holds`), a request still on its way has been answered by its timer alone, which
leaves it pending so that the reader recognizes the late answer (`OnlyByTimer`), a
request the reader has taken over cannot be answered by its timer any more
(`PoppedIs`), and a pending id has no other request on its way (`PendingIs`), so
that what the reader pops is the request's own deadline. `NothingPassesReview` follows
from `ReviewInv`: one capture is on its way at a time and none while the guard is
set; from the supervisor's demand for a review until the bridge has read that it was
accepted, the guard is set or the capture in flight is the one whose answer sets it
(`Held`), only one acceptance is to be read, and while flag or guard is set every call
on its way is one of the overtaken. `DeadlineHasAKeeper` is the safety
half of `DeadlineIsMet`: the inductive part is that a timer still to run finds its
request pending or the reader in possession of that request's answer (`KeeperInv`),
and it needs `AnswerInv`, because the reader pops by id and must not pop the deadline
of another request. All were checked by TLC before they were proved. `DeadlineIsMet`
itself is liveness and stays with TLC.

Not modelled: NEX mode, traces, tool lists and the review reader, result files,
the driver of a desktop scenario, and signals: the SIGTERM handler takes
`timers_lock`, which the interrupted main thread may be holding.

## OperatorLoop: the script, the conversation and the chain

`OperatorLoop.tla` models `OperatorEngine.run` (`operator/engine.py`) and
`ChainController` (`runner/chain.py`). The operator of a run is scripted: it has one
message per slot of the script. A slot that substitutes (`"open"`) gives its
message to whatever the agent asked; the others are beats that are said as
written: a plain one, the text of a decision (`"ruling"`), that of the review
authorization (`"repair"`) and an approval.

State. `cursor` and `turns` are script_cursor and index; `ask` is next_match, what
the agent's last message asks, with its reply withheld in `"... again"`. `beats` is
owed_fixed_beats, as the set of its slots: a slot is appended when the script is at it,
and taken from the front or for an approval that is due, so the deque is always in
script order and its front is the least slot. `owed` and `wait`, `early`, `approved` and `consumed` are
owed_approval_text and its age, early_approval_text while it can be reconfirmed,
revision_approval_text, and consumed_approval_slots; texts are named by their
slots. `workflow`, `rebound`, `uses`, `clarified` and `published` follow the plan,
`finding`, `authorized` and `reuses` the review, `factOwed` and `factServed` the
second answer of a compound question. `chain` is the controller's status. `spoken`,
`queued`, `excused` and `said` are history.

Actions. `Speak` is the part of an iteration before the agent's answer: which slot
the message is for (`Scheduled`, `Deferred`, `Pops`, `Pulls`, `Moves`), what it
says (`Message`, the order of the ternary that computes base) and what it leaves
owed. `Listen` is the part after it: the tool calls of the turn (`Works`), the
chain's observation and switch, the match, and the end of a spent approval budget;
`Interrupted` is a turn that timed out or wedged. `GivesUp`, `PrefixFails` and
`Conclude` are the ends. The agent's message, what it binds and queries, and what
the chain's precondition finds, are inputs.

| run | checks | instance |
| --- | --- | --- |
| `operator_loop` | `OperatorTypeOK`, `QueuedBeatsAreSaid`, `ApprovalsAreSound`, `ScriptIsKept` (`LinesKeepTheirPlace` and `BeatsYieldToConsent`) | scripts of 5, 6 and 6 slots, the first with a prefix of 3; 2 workflows; 1 reapproval; a revision limit of 1 |
| `operator_lost_beat` | violation of `CompletedRunSaidItsBeats` | a script of 4 slots: opening, approval, beat, open slot |

The first script has a beat and an approval in the prefix and a decision's text in
the suffix; the second has beats behind an approval, so that a question at the
approval displaces all of them; the third has two approvals around a repair, and
room to ask for a revised plan after them. The code's revision limit is two; one is
the least that can be spent and exceeded. No fairness, and no deadlock check: a run ends.

`QueuedBeatsAreSaid` speaks of beats that were queued and of runs that end
`completed`. `excused` are those that publication made pointless, that were part
of the answer to their own question, and the prefix's after the switch. An approval
that was owed for three turns goes out although nobody asks; the code does that by
design (engine.py 2157-2165), and `ApprovalsAreSound` allows it.
`BeatsYieldToConsent` bounds the finding below: the only steps on which a beat whose
turn it is is neither said, deferred nor excused are those that pay an owed approval
or give the declared reapproval; no answer and no other beat takes its turn.

Proved (`ScenarioProofs.tla`), for any scripts, prefixes, workflows and limits, and
every order of asks, bindings and queries: `OperatorIsTyped`, `DeferredBeatsAreSaid`,
`ApprovalsAreRecorded` and the action property `StepsKeepTheScript` (from
`LinesStayInPlace` and `BeatsYieldOnlyToConsent`), every property of the run.
`OperatorIInv` is what they need of the state between two messages:

* `DebtInv`: only beats are owed, nothing is owed and nothing approved before the
  first message, and whatever was said of the beats, approvals aside, lies behind the
  script's position and before everything that is owed;
* `ChainInv`: a waiting chain is still in its prefix, and the owed beats, the owed
  approval and the one to reconfirm are on the side of the prefix the run is on;
* `QueueInv`: while the run goes on, a deferred beat is owed, said or excused.

The work is in four lemmas about one message. `LineCases` says where its slot comes
from: none, the script, the front of the queue, an approval pulled from the queue, or
one moved forward. `LinePlace` follows: the slot is on the run's side of the prefix, and a
beat that is no approval comes after all that was said and before all that stays
owed; an approval of an approved plan is asked for. `MessageSlot` resolves the order in
which base is computed, and `HeadIsSaid` shows that a beat taken from the queue is said and
not replaced by an approval or a reply: that is the guard `owed_approval_due` of the
code. The same is false of a beat on its own slot, which is the finding
`operator_lost_beat` below; `BeatYields` goes through what may take that turn. It needs
`FreshInv` besides: nothing is asked before the first message, which is never
deferred, and only approvals are moved forward out of their slot. `OperatorIInv` was checked by TLC on the instance above
first. Nothing is assumed beyond a prefix shorter than its script and
limits that are numbers.

Two disagreements of the code with its comments, both reproduced by running the
engine on the trace:

* `operator_lost_beat`: an owed approval or a declared reapproval replaces the text
  of the slot it is paid on. A beat at the head of the queue stays there
  (engine.py 2064-2066), but a beat whose own slot this is was never queued: it is
  not sent, and the run ends `completed`.
* When the reply to an open question is withheld as a repeat, the approval of that
  slot counts as owed and its text goes out nevertheless (`base` falls through to
  the slot's text). No `spec_approved` row is written for it, against the docstring
  of `ScriptTurn` (engine.py 315-322), and it goes out again later.
  `ApprovalsAreSound` excepts it (`withheld`).

Not modelled: event cards and what travels with a beat, fresh sessions, the
ask-back persona, staged and clarify-first decisions, more than one decision or
fact of an answer sheet, driver and router, sentinels, what the ledger rows hold,
and in `ChainController` the check of the captured definition, the replay of a
recorded transition and chain-state.json.

## TierPool: the scenarios of a tier, in a pool of workers

`TierPool.tla` models `TierRunner.run` of `runner/tier.py` with what it calls to
retain and promote evidence. Two kinds of thread run in one process: the
coordinator, which submits, collects, replaces, cancels and shuts down, and the
workers of a `ThreadPoolExecutor`, each with one scenario. Evidence bundles
outlive the process.

State. `pc` is the place in `run()`; `jobs`, `future`, `futures`, `next` and
`left` are max_workers, the futures, those the coordinator still waits for,
next_index and the rest of the replacement loop; `primary` and `notes` are the
error that is raised and the errors noted on it. `epoch` and `session` are how
far each scenario is; `bundle` is the evidence root, where a bundle is absent,
partial (directory, no digest), whole, promoted with its old digest, certified,
or another tier's. `late` is a history variable.

Actions. `TierStarts` is the canary and the check of the evidence destinations;
`RunNext` and `SerialEnds` are the branch without a pool; `SubmitFirst`,
`Collect`, `Replace` and `Replenished` are the loop over `wait(FIRST_COMPLETED)`;
`Interrupted`, `CancelFuture` and `ShutDown` are its exception handler. A worker
does `WorkerStarts`, `SessionRuns`, `BundleBegins`, `BundleEnds` (or
`BundleRefused`), `Requalify`, `Redigest` and `ScenarioSucceeds`, and
`ScenarioFails` wherever an exception may leave it. `ProcessEnds` is the normal
end and the kill, at any step; `AnotherRetains` is a second tier over the same
evidence root.

`TierPromise.tla` is what a caller may rely on: a scenario runs at most once, the
report comes only when all have succeeded, and nothing runs after the answer.

| run | checks | instance |
| --- | --- | --- |
| `tier_pool` | `TypeOK`, `FailureIsHandled`, `EvidenceIsKept`, `KeepsPromise`, `TierAnswers` | 3 scenarios of 2 epochs, 1 or 2 workers, 2 processes, 1 bundle of another tier |

`FailureIsHandled` is that every failure is in the error that is raised
(`NoFailureLost`) and stops the tier (`FewLateStarts`). `EvidenceIsKept` is that a
report is returned only over whole bundles (`ReturnedEvidenceIsWhole`), that no
session runs for an epoch that has evidence (`EvidencedEpochIsNotRerun`) and that
no bundle of another tier changes (`OthersBundleKept`).

Three scenarios and two workers are the least with a scenario that waits for a
replacement while another fails; two epochs are the least with a promotion of
several bundles; the second process meets what the first one left.

Fairness. `WF` of the coordinator and of each worker: they are threads of a
process the system schedules, and a session ends, because its turns are counted
and each has a deadline. Nothing makes a tier start, a user interrupt, or a
process die. Deadlock is not checked: with the last process down the system may
stop. `TierAnswers` says that coordinator and workers never wait for one another.

What is proved, in `TierPoolProofs.tla`, for any number of
scenarios, workers, epochs, processes and foreign bundles: `TypeOK`,
`FailureIsHandled`, `EvidenceIsKept`, each from a theorem for each of its parts,
and that `TierPool` implements `TierPromise`. Every safety property of the run is proved; `TierAnswers` is only
model-checked. The inductive invariants:

* `PoolInv`. Scenarios are submitted in their order (`NextIsFresh`); the
  coordinator holds every future that is not over and every failure it has not
  collected, and whatever it no longer holds is in the error (`FailuresHeld`).
  `FewLateStarts` needs a count: what is pending, plus what the coordinator will
  still submit before it looks again (`Reserve`), plus what has started late,
  stays below the workers (`Slack`). It rests on the futures never outnumbering
  the workers, which is why the replacement of a group by as many, and no more,
  matters.
* `TierInv` adds that the bundles of a scenario are in the order of its epochs,
  with at most the next one begun (`EvidenceInOrder`), which holds because a
  tier starts only over free destinations; that success has its bundles; and
  that no scenario is left out of the report (`NoneLeftOut`): the replacement
  loop ends with nothing in hand only when every scenario has been taken.

Not modelled: a second interrupt, or one outside `wait()`; the canary beyond its
verdict; a tier without an evidence root; scenarios with different numbers of
epochs; what is in a bundle.

## What is only model-checked, and what is left out

Liveness under fairness is out of the proof system's reach: `TierAnswers` and
`DeadlineIsMet` are checked by TLC on the instances named above, and are all that is
only model-checked: every invariant and every action property of a run is a theorem.

The theorems assume of the constants what the modules' `ASSUME`s state and no
more, except where a theorem names a constant's value: `AckedDurable` and the
theorems of the ledger are stated for the damage their modules describe as
possible, and so is `AppendOnly`; the sections above say what the excluded damage does.

Each bound (crashes, reruns, turns, requests, processes, bundles of another
tier) is a constant named `Max...` that caps an action which could otherwise
repeat for ever; the theorems hold for every value of it.

Not modelled, with the reasons in `PROJECT.json`: the grading gates, followups,
synthetic data, scenario loading, spec tools and reports, which are functions of
files and keep no state; the operator's matcher, router and driver, which are
patterns over prose or a model's answers; the provider adapters' parsing; NEX mode of
the desktop bridge; the checks inside the self-check's phases; the skills, which
are texts; the installers and validators. These are most of the repository's
lines and have no interleavings, crashes or protocol of their own, so the map's
share of the lines stays small although the parts that keep state are modelled.
Planned: the switch of a chain over a native resume.
