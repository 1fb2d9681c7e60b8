-------------------------- MODULE CheckpointStore --------------------------
(***************************************************************************)
(* The durable per-turn checkpoint store of a live scenario run            *)
(* (runner/checkpoint.py), driven by the runner that owns it: the turn     *)
(* callback of runner/tier.py persists every complete turn, and a later    *)
(* process may resume the committed prefix.  A process can crash between   *)
(* any two file operations; latest.json or a state record can be lost      *)
(* while nobody is looking.                                                *)
(*                                                                         *)
(* A checkpoint id is turn-NNNNNN, so it is modelled by its turn number.   *)
(* A turn's payload is the whole recorded prefix, a sequence of contents,  *)
(* and stands for its own digest.  A prefix digest chains the payload to   *)
(* the parent's digest, so it is the sequence of payloads along the chain. *)
(***************************************************************************)
EXTENDS Naturals, Sequences, SequencesExt

CONSTANTS
    MaxTurn,     \* turns in the operator script
    Content,     \* what a turn may record
    Tears,       \* what a crash may cut off a journal line: "line" loses its
                 \* JSON, "newline" only the byte that ends it
    Pins,        \* the execution and grading pins of a run's manifest
    Modes,       \* continuity modes: "native-resume", "handoff"
    Statuses,    \* "complete"; low-level callers also record "incomplete"
    MaxCrash,    \* bound: process crashes
    MaxLoss,     \* bound: losses of a state record
    MaxDamage,   \* bound: losses of latest.json
    MaxSkip      \* bound: turns that end on an unanswered MCP call

Turn == 1 .. MaxTurn
Identity == [pins : Pins, mode : Modes]

ASSUME BoundsAssumption ==
    /\ MaxTurn \in Nat \ {0}
    /\ MaxCrash \in Nat /\ MaxLoss \in Nat
    /\ MaxDamage \in Nat /\ MaxSkip \in Nat

ASSUME ModesAssumption ==
    /\ Modes \subseteq {"native-resume", "handoff"}
    /\ Statuses \subseteq {"complete", "incomplete"}
    /\ Tears \subseteq {"line", "newline"}

VARIABLES
    \* The files.  A file that does not exist is outside the DOMAIN.
    identity,    \* identity.json: {} before initialize, then {the identity}
    payloads,    \* checkpoints/<turn>.payload.json
    snapshots,   \* source-snapshots/<turn>: the files behind the payload
    records,     \* checkpoints/<turn>.json
    journal,     \* journal.jsonl: the state each line decodes to, {} if torn
    unended,     \* the last journal line has no newline
    pointer,     \* latest.json: at most one turn, and the state it digests
    \* The runner process.
    pc,          \* what it does next
    turns,       \* RecordingSession.turns: the turns of this session
    \* Bounds and history.
    crashes, losses, damages, skips,
    acked,       \* the last turn whose commit returned
    clean        \* no crash has interrupted a persist

files == <<identity, payloads, snapshots, records, journal, unended, pointer>>
history == <<crashes, losses, damages, skips, acked, clean>>
vars == <<identity, payloads, snapshots, records, journal, unended, pointer,
          pc, turns, crashes, losses, damages, skips, acked, clean>>

CheckpointState ==
    [turn : Turn, parent : 0 .. MaxTurn, payload : Seq(Content),
     prefix : Seq(Seq(Content)), status : Statuses]

\* The prefix before the first turn: latest() returning None.
EmptyPrefix ==
    [turn |-> 0, parent |-> 0, payload |-> <<>>, prefix |-> <<>>,
     status |-> "complete"]

\* A one-entry file table, and a table with one more or one fewer file.
Only(n, x) == [m \in {n} |-> x]
With(f, n, x) == [m \in DOMAIN f \cup {n} |-> IF m = n THEN x ELSE f[m]]
Without(f, n) == [m \in DOMAIN f \ {n} |-> f[m]]
-----------------------------------------------------------------------------
(* Reading the store *)

\* The payload file is present, unchanged, and digests to the state's prefix.
PrefixDigestMatches(s, parentPrefix) ==
    /\ s.turn \in DOMAIN payloads
    /\ payloads[s.turn] = s.payload
    /\ s.prefix = Append(parentPrefix, s.payload)

\* The record a parent id names; no parent is the empty prefix.
HasRecord(m) == m = 0 \/ m \in DOMAIN records
Record(m) == IF m = 0 THEN EmptyPrefix ELSE records[m]

\* One step of the walk to the root: s directly continues its parent.
Continues(s) ==
    /\ HasRecord(s.parent)
    /\ Record(s.parent).status = "complete"
    /\ s.turn = Record(s.parent).turn + 1
    /\ PrefixDigestMatches(s, Record(s.parent).prefix)

\* The walk itself.  A record is filed under its own turn, so the parents of
\* a state that continues its parent are the records of all earlier turns.
ValidChain(s) ==
    /\ Continues(s)
    /\ \A m \in 1 .. (s.turn - 1) : m \in DOMAIN records /\ Continues(records[m])

\* latest.json names a readable record, has its digest, and its chain holds.
PointerValid ==
    \E n \in DOMAIN pointer :
        /\ n \in DOMAIN records
        /\ records[n] = pointer[n]
        /\ ValidChain(records[n])

\* The journal lines a backward scan may stop at, and where it stops.
JournalCandidates ==
    {i \in DOMAIN journal : \E s \in journal[i] : ValidChain(s)}
NewestCandidate_FirstLine ==
    CHOOSE i \in JournalCandidates : \A j \in JournalCandidates : i <= j
NewestCandidate ==
    CHOOSE i \in JournalCandidates : \A j \in JournalCandidates : j <= i

RecoverFromJournal ==
    IF JournalCandidates = {} THEN EmptyPrefix
    ELSE CHOOSE s \in journal[NewestCandidate] : ValidChain(s)

Latest ==
    IF PointerValid THEN records[CHOOSE n \in DOMAIN pointer : TRUE]
    ELSE RecoverFromJournal

\* The checkpoint a resume asks for: 0 is the store, n one record file.
Selected(n) ==
    IF n = 0 THEN Latest
    ELSE IF n \in DOMAIN records /\ ValidChain(records[n]) THEN records[n]
    ELSE EmptyPrefix

\* decide() in native-resume mode, for a caller with identity i.
AcceptsResume(i, s) ==
    /\ identity = {i}
    /\ s # EmptyPrefix
    /\ s.status = "complete"
    /\ i.mode = "native-resume"
-----------------------------------------------------------------------------
(* Starting a process on the store *)

Init ==
    /\ identity = {} /\ journal = <<>> /\ unended = FALSE
    /\ payloads = <<>> /\ snapshots = <<>> /\ records = <<>> /\ pointer = <<>>
    /\ pc = "down" /\ turns = <<>>
    /\ crashes = 0 /\ losses = 0 /\ damages = 0 /\ skips = 0
    /\ acked = 0 /\ clean = TRUE

\* A fresh run.  The run id is the scenario and trial, so a rerun of the same
\* pins finds the identity it would create; with other pins it is refused.
StartFresh(i) ==
    /\ pc = "down"
    /\ identity \in {{}, {i}}
    /\ identity' = {i}
    /\ pc' = "ready"
    /\ turns' = <<>>
    /\ UNCHANGED <<payloads, snapshots, records, journal, unended, pointer,
                   history>>

\* A native resume of the store, or of one checkpoint record.  The prefix is
\* replayed locally from the payload, with the snapshot's bytes behind it.
Resume(i, n) ==
    LET s == Selected(n) IN
    /\ pc = "down"
    /\ AcceptsResume(i, s)
    /\ s.turn < MaxTurn
    /\ s.turn \in DOMAIN snapshots => snapshots[s.turn] = s.payload
    /\ pc' = "ready"
    /\ turns' = s.payload
    /\ UNCHANGED <<files, history>>
-----------------------------------------------------------------------------
(* One turn of the session *)

\* The turn completed: the turn callback runs.
TurnCompletes(c) ==
    /\ pc = "ready" /\ Len(turns) < MaxTurn
    /\ turns' = Append(turns, c)
    /\ pc' = "payload"
    /\ UNCHANGED <<files, history>>

\* The turn ended on an unanswered MCP call: it is recorded in the session,
\* the callback is not called, and the script goes on.
TurnInFlight(c) ==
    /\ pc = "ready" /\ Len(turns) < MaxTurn /\ skips < MaxSkip
    /\ turns' = Append(turns, c)
    /\ skips' = skips + 1
    /\ UNCHANGED <<files, pc, crashes, losses, damages, acked, clean>>

SessionEnds_AfterPayload ==
    /\ pc = "ready" /\ Len(turns) < MaxTurn
    /\ \E c \in Content :
          payloads' = With(payloads, Len(turns) + 1, Append(turns, c))
    /\ pc' = "down" /\ turns' = <<>>
    /\ UNCHANGED <<identity, snapshots, records, journal, unended, pointer,
                   history>>

\* The script ended, or the turn timed out or wedged: the callback returns
\* at once and the engine sends nothing more.
SessionEnds ==
    /\ pc = "ready"
    /\ pc' = "down"
    /\ turns' = <<>>
    /\ UNCHANGED <<files, history>>
-----------------------------------------------------------------------------
(* Persisting turn Len(turns) *)

TurnNo == Len(turns)
Native == \E i \in identity : i.mode = "native-resume"

WritePayload_Overwrites ==
    /\ pc = "payload"
    /\ payloads' = With(payloads, TurnNo, turns)
    /\ pc' = IF Native THEN "snapshot" ELSE "commit"
    /\ UNCHANGED <<identity, snapshots, records, journal, unended, pointer,
                   turns, history>>

WritePayload_NoSnapshot ==
    /\ pc = "payload"
    /\ TurnNo \in DOMAIN payloads => payloads[TurnNo] = turns
    /\ payloads' = With(payloads, TurnNo, turns)
    /\ pc' = "commit"
    /\ UNCHANGED <<identity, snapshots, records, journal, unended, pointer,
                   turns, history>>

\* write_payload: never overwrites, and accepts only its own bytes.
WritePayload ==
    /\ pc = "payload"
    /\ TurnNo \in DOMAIN payloads => payloads[TurnNo] = turns
    /\ payloads' = With(payloads, TurnNo, turns)
    /\ pc' = IF Native THEN "snapshot" ELSE "commit"
    /\ UNCHANGED <<identity, snapshots, records, journal, unended, pointer,
                   turns, history>>

\* write_source_snapshot: the files, then the manifest that names them.
WriteSnapshot ==
    /\ pc = "snapshot"
    /\ TurnNo \in DOMAIN snapshots => snapshots[TurnNo] = turns
    /\ snapshots' = With(snapshots, TurnNo, turns)
    /\ pc' = "commit"
    /\ UNCHANGED <<identity, payloads, records, journal, unended, pointer,
                   turns, history>>

NewState_NextTurn(status) ==
    [turn |-> TurnNo + 1, parent |-> Latest.turn, payload |-> turns,
     prefix |-> Append(Latest.prefix, turns), status |-> status]

\* The state the callback builds on the prefix it reads.
NewState(status) ==
    [turn |-> TurnNo, parent |-> Latest.turn, payload |-> turns,
     prefix |-> Append(Latest.prefix, turns), status |-> status]

CommitAllowed_AnyStatus ==
    /\ payloads[TurnNo] = turns
    /\ TurnNo = Latest.turn + 1
    /\ TurnNo \notin DOMAIN records

\* What commit demands of the state before it writes anything.
CommitAllowed ==
    /\ payloads[TurnNo] = turns
    /\ Latest.status = "complete"
    /\ TurnNo = Latest.turn + 1
    /\ TurnNo \notin DOMAIN records

\* commit, first write: the immutable record.
CommitRecord ==
    /\ pc = "commit"
    /\ CommitAllowed
    /\ \E status \in Statuses :
          records' = With(records, TurnNo, NewState(status))
    /\ pc' = "journal"
    /\ UNCHANGED <<identity, payloads, snapshots, journal, unended, pointer,
                   turns, history>>

\* A line added to a journal whose last line never ended joins that line, and
\* the two no longer decode.
AppendLine(line) ==
    IF unended THEN Append(Front(journal), {}) ELSE Append(journal, line)

\* commit, second write: the journal line.
CommitJournal ==
    /\ pc = "journal"
    /\ journal' = AppendLine({records[TurnNo]})
    /\ unended' = FALSE
    /\ pc' = "pointer"
    /\ UNCHANGED <<identity, payloads, snapshots, records, pointer, turns,
                   history>>

\* commit, last write: latest.json; the turn is acknowledged.
CommitPointer ==
    /\ pc = "pointer"
    /\ pointer' = Only(TurnNo, records[TurnNo])
    /\ acked' = TurnNo
    /\ pc' = "ready"
    /\ UNCHANGED <<identity, payloads, snapshots, records, journal, unended,
                   turns, crashes, losses, damages, skips, clean>>

\* A CheckpointError fails the callback, and with it the run.
PersistRefused ==
    /\ \/ pc = "payload" /\ TurnNo \in DOMAIN payloads /\ payloads[TurnNo] # turns
       \/ pc = "snapshot" /\ TurnNo \in DOMAIN snapshots /\ snapshots[TurnNo] # turns
       \/ pc = "commit" /\ ~CommitAllowed
    /\ pc' = "down"
    /\ turns' = <<>>
    /\ UNCHANGED <<files, history>>
-----------------------------------------------------------------------------
(* Crashes and damage *)

\* A crash keeps every finished file.  Inside the journal append it may also
\* leave part of the line.
CrashDuringAppend(tear) ==
    /\ pc = "journal" /\ crashes < MaxCrash
    /\ journal' = AppendLine(IF tear = "line" THEN {} ELSE {records[TurnNo]})
    /\ unended' = TRUE
    /\ pc' = "down" /\ turns' = <<>>
    /\ crashes' = crashes + 1 /\ clean' = FALSE
    /\ UNCHANGED <<identity, payloads, snapshots, records, pointer, losses,
                   damages, skips, acked>>

\* An exception between two writes (a turn without a provider session, a full
\* disk) ends the process with the same files.
Crash ==
    /\ pc # "down" /\ crashes < MaxCrash
    /\ pc' = "down" /\ turns' = <<>>
    /\ crashes' = crashes + 1
    /\ clean' = (clean /\ pc = "ready")
    /\ UNCHANGED <<files, losses, damages, skips, acked>>

\* latest.json is removed, or damaged so that it does not validate, while no
\* persist is under way: a persist reads it twice, for the parent and in commit.
LosePointer ==
    /\ damages < MaxDamage /\ pc \in {"down", "ready"} /\ DOMAIN pointer # {}
    /\ pointer' = <<>>
    /\ damages' = damages + 1
    /\ UNCHANGED <<identity, payloads, snapshots, records, journal, unended,
                   pc, turns, crashes, losses, skips, acked, clean>>

\* A state record is removed between two processes.
LoseRecord(n) ==
    /\ losses < MaxLoss /\ pc = "down" /\ n \in DOMAIN records
    /\ records' = Without(records, n)
    /\ losses' = losses + 1
    /\ UNCHANGED <<identity, payloads, snapshots, journal, unended, pointer,
                   pc, turns, crashes, damages, skips, acked, clean>>
-----------------------------------------------------------------------------
Next ==
    \/ \E i \in Identity : StartFresh(i) \/ \E n \in 0 .. MaxTurn : Resume(i, n)
    \/ \E c \in Content : TurnCompletes(c) \/ TurnInFlight(c)
    \/ SessionEnds
    \/ WritePayload \/ WriteSnapshot
    \/ CommitRecord \/ CommitJournal \/ CommitPointer \/ PersistRefused
    \/ \E tear \in Tears : CrashDuringAppend(tear)
    \/ Crash \/ LosePointer
    \/ \E n \in Turn : LoseRecord(n)

Spec == Init /\ [][Next]_vars
-----------------------------------------------------------------------------
(* Properties *)

\* A file table over turns: payloads and snapshots hold whole prefixes, and
\* state records are filed under their own turn.
PrefixFiles(f) ==
    /\ DOMAIN f \subseteq Turn
    /\ \A n \in DOMAIN f : f[n] \in Seq(Content) /\ Len(f[n]) = n
StateFiles(f) ==
    /\ DOMAIN f \subseteq Turn
    /\ \A n \in DOMAIN f : f[n] \in CheckpointState /\ f[n].turn = n

Persisting == {"payload", "snapshot", "commit", "journal", "pointer"}

\* Every variable has its type; a persist has a turn to persist.
TypeOK ==
    /\ identity \in SUBSET Identity
    /\ PrefixFiles(payloads) /\ PrefixFiles(snapshots)
    /\ StateFiles(records) /\ StateFiles(pointer)
    /\ \A m, n \in DOMAIN pointer : m = n
    /\ journal \in Seq(SUBSET CheckpointState)
    /\ unended \in BOOLEAN /\ (unended => journal # <<>>)
    /\ pc \in {"down", "ready"} \cup Persisting
    /\ turns \in Seq(Content) /\ Len(turns) \in 0 .. MaxTurn
    /\ pc \in Persisting => TurnNo \in Turn
    /\ pc \in {"journal", "pointer"} => TurnNo \in DOMAIN records
    /\ crashes \in 0 .. MaxCrash /\ losses \in 0 .. MaxLoss
    /\ damages \in 0 .. MaxDamage /\ skips \in 0 .. MaxSkip
    /\ acked \in 0 .. MaxTurn /\ clean \in BOOLEAN

\* A turn whose commit returned stays readable: neither a crash at any file
\* operation, nor a lost or stale latest.json, nor a rerun of the same pins on
\* the same directory makes latest() fall behind it.
AckedDurable == losses = 0 => acked <= Latest.turn

\* The states readers may be shown, now or after damage to other files.
Visible == {Latest} \cup UNION {journal[i] : i \in DOMAIN journal}

\* A later checkpoint "must continue the current complete prefix; an incomplete
\* turn cannot be silently skipped" (commit): of two readable checkpoints the
\* later records the turns of the earlier one.
CommitContinuesPrefix ==
    \A s, t \in Visible :
        s.turn <= t.turn => IsPrefix(s.payload, t.payload)

\* No two readable checkpoints tell different stories of the same turns, even
\* after a resume of an older checkpoint, a rerun on the same directory, a
\* crash, or the loss of state records, as long as no turn ended in flight.
NoFork == skips = 0 => CommitContinuesPrefix

SnapshotBacked ==
    Native => \A s \in Visible \ {EmptyPrefix} :
        s.turn \in DOMAIN snapshots /\ snapshots[s.turn] = s.payload
IncompleteIsLast ==
    losses = 0 =>
        \A s, t \in Visible : s.status = "incomplete" => t.turn <= s.turn

\* What readers may be shown can be resumed: a native checkpoint has the source
\* bytes its payload commits to, so that a resume never falls back to the
\* mutable workspace, and no turn was committed on an incomplete checkpoint.
HistoryIsResumable == SnapshotBacked /\ IncompleteIsLast

\* Unless a crash interrupted a persist, a turn ended in flight or a record was
\* lost, the files of the turn after the committed prefix do not exist: its
\* commit cannot meet leftovers, whatever was refused or resumed before.
NoSpuriousRefusal ==
    clean /\ skips = 0 /\ losses = 0 /\ pc \in {"down", "ready"}
          /\ Latest.status = "complete" =>
        /\ Latest.turn + 1 \notin DOMAIN payloads
        /\ Latest.turn + 1 \notin DOMAIN records

\* The complete prefix readers may resume is an append-only log of turns (see
\* CommittedPrefix), as long as no record is lost and no turn ends in flight.
Complete ==
    IF Latest.status = "complete" THEN Latest.payload ELSE Front(Latest.payload)
Log == INSTANCE CommittedPrefix WITH log <- Complete
AppendOnly ==
    Log!Init /\ [][losses' = 0 /\ skips' = 0 => Log!Next]_Complete
=============================================================================
