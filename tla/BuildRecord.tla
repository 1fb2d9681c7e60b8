----------------------------- MODULE BuildRecord -----------------------------
(***************************************************************************)
(* The build record of a data product (nxd-run-job-loop/scripts):          *)
(* dp_diagnostics.py's lock write, lock verify, record init, record append *)
(* and materialized, and self_check.py, each a process of its own over     *)
(* three files of the closure, the lock, the snapshot of the approved plan *)
(* and build-record.json, and over the live specification outside it.      *)
(* There is no lock: a process reads the record and later writes over all  *)
(* of it.                                                                  *)
(*                                                                         *)
(* A specification's text is its plan, what the canonical hash covers, and *)
(* its status.  Warnings count as passed.  Review rounds, narrative,       *)
(* evidence and read-back are left out, and so is the v3 lock.             *)
(***************************************************************************)
EXTENDS Naturals, FiniteSets, Sequences

CONSTANTS
    None,              \* no file, no argument, no process
    Torn,              \* a file whose writer was killed
    Writers,           \* processes that have read and not yet written
    Plans,             \* semantic contents of a specification
    RunStages,         \* stages between the self-check and s7_publish
    EnvStages,         \* stages a supervisor's report may excuse
    Codes,             \* concession codes
    RegenerateTotal,   \* DEFAULT_CAPS["regenerate_total"]
    Reported,          \* bound: stages that record append is called for
    MaxEdits,          \* bound: edits of specification and snapshot
    MaxSteps           \* bound: edits and commands together

ASSUME CapAssumption == RegenerateTotal \in Nat \ {0}
ASSUME BoundAssumption ==
    MaxEdits \in Nat /\ MaxSteps \in Nat

Text == [plan : Plans, status : {"approved", "draft"}]

Phases == <<"s1_structure", "s2_transform", "s3_closure">>
Checked == {Phases[i] : i \in DOMAIN Phases}
OfflineStages == {"s0_spec"} \cup Checked
SkippableStages == {"s7_publish", "s8_answer"}
Appended == RunStages \cup SkippableStages
Stages == OfflineStages \cup Appended
\* record append refuses a stage it does not know.
ASSUME ReportedAssumption == Reported \subseteq Stages

Status == {"not_reached", "passed", "failed", "skipped"}
\* An error the supervisor owns and reports with its detail, or any other one.
ErrorKind == {"environment", "code"}
Kinds == {"regenerate", "heal"}    \* heal: every kind INVARIANT-D2 freezes

Record ==
    [from : Plans, status : [Stages -> Status],
     errors : [Stages -> SUBSET ErrorKind],
     regenerates : Nat, moved : BOOLEAN, exhausted : BOOLEAN,
     concessions : SUBSET [code : Codes, disclosed : BOOLEAN],
     blocked : BOOLEAN]     \* a blocker waits for the user

\* What a process read of the record and changed in it, with what the record
\* is told by that (see owed) and who vouches for its stages.
Vouchers == Plans \cup {None, "agent"}
Owing == [conceded : SUBSET Codes, contested : SUBSET Codes, asked : BOOLEAN,
          cheated : BOOLEAN, regenerated : Nat]
Image == [by : {"record init", "record append", "self_check"}, record : Record,
          vouched : Vouchers, told : Owing, disclosed : SUBSET Codes]

VARIABLES
    spec,        \* the live specification
    snapshot,    \* the plan's copy in the closure
    lock,        \* dp-blueprint.lock.json
    record,      \* build-record.json
    writing,     \* a lock write that is under way
    checking,    \* a self_check.py that is under way
    pending,     \* what each process is about to write over the record
    edits, commands,   \* so far
    \* history
    approved,    \* plans that have been in an approved specification
    checked,     \* plan the self-check last vouched for, in this record
    raced,       \* a self-check passed on a lock of two texts, or the record
                 \* was replaced by another plan's before it could merge
    owed         \* what the record was told since it was begun: contested are
                 \* the concessions told while another process was pending

files == <<snapshot, lock, record>>
processes == <<writing, checking, pending>>
vars == <<spec, snapshot, lock, record, writing, checking, pending, edits, commands,
          approved, checked, raced, owed>>

Nothing == [conceded |-> {}, contested |-> {}, asked |-> FALSE, cheated |-> FALSE,
            regenerated |-> 0]
Edit ==
    /\ edits < MaxEdits /\ edits + commands < MaxSteps
    /\ edits' = edits + 1 /\ UNCHANGED commands
Command ==
    /\ edits + commands < MaxSteps
    /\ commands' = commands + 1 /\ UNCHANGED edits

Init ==
    /\ spec \in Text
    /\ snapshot = None /\ lock = None /\ record = None
    /\ writing = None /\ checking = None /\ pending = [w \in Writers |-> None]
    /\ edits = 0 /\ commands = 0
    /\ approved = {p \in {spec.plan} : spec.status = "approved"}
    /\ checked = None /\ raced = FALSE /\ owed = Nothing
-----------------------------------------------------------------------------
(* What the commands compute from the files *)

Present(file) == file \notin {None, Torn}

\* Mutant: the snapshot's canonical hash is not compared.
LockIntact_BytesOnly ==
    /\ Present(lock) /\ snapshot # None
    /\ snapshot = lock.bytes /\ lock.status = "approved"

\* verify_lock without --spec: nothing to report.
LockIntact ==
    /\ Present(lock) /\ snapshot # None
    /\ snapshot = lock.bytes /\ lock.status = "approved"
    /\ snapshot.plan = lock.hash
LockVerifies == LockIntact /\ spec.plan = lock.hash

StatusFor(errors) == IF errors = {} THEN "passed" ELSE "failed"

\* new_build_record, with the s0_spec that record init fills in.
NewRecord(status0) ==
    [from |-> lock.hash,
     status |-> [s \in Stages |-> IF s = "s0_spec" THEN status0 ELSE "not_reached"],
     errors |-> [s \in Stages |->
                   IF s = "s0_spec" /\ status0 = "failed" THEN {"code"} ELSE {}],
     regenerates |-> 0, moved |-> FALSE, exhausted |-> FALSE,
     concessions |-> {}, blocked |-> FALSE]

\* recompute_caps: the regenerations count, for all caps.
Recount(r) == [r EXCEPT !.exhausted = (r.regenerates >= RegenerateTotal)]

Green == {"passed"}
\* The lock and the live plan are arguments a caller may leave out.
Locks == {None} \cup {l \in {lock} : Present(l)}
Lives == {None, spec.plan}
Reference(l) == IF l = None THEN record.from ELSE l.hash

Failing == {s \in Stages : record.status[s] = "failed"}
LateFailing == Failing \ (OfflineStages \cup {"s8_answer"})
Undisclosed == {c \in record.concessions : ~c.disclosed}

Materialized(l, live) ==
    /\ l # None => record.from = l.hash
    /\ live # None => live = Reference(l)
    /\ \A s \in OfflineStages \cup RunStages : record.status[s] \in Green
    /\ record.status["s7_publish"] \in Green \cup {"skipped"}
    /\ record.status["s8_answer"] # "failed"
    /\ Undisclosed = {} /\ ~record.blocked /\ ~record.moved

\* _stage_is_environmental
Environmental(s) == record.errors[s] = {"environment"} /\ s \in EnvStages

State(l, live) ==
    IF Materialized(l, live) THEN "materialized"
    ELSE IF record.blocked THEN "needs_user"
    ELSE IF live \notin {None, Reference(l)} THEN "plan_moved"
    ELSE IF Failing \cap OfflineStages # {} \/ (l # None /\ record.from # l.hash)
         THEN "code_wrong"
    ELSE IF LateFailing # {}
         THEN IF \A s \in LateFailing : Environmental(s)
              THEN "environment_suspect" ELSE "unsettled"
    ELSE IF Undisclosed # {} THEN "undisclosed_concession"
    ELSE IF record.status["s8_answer"] = "failed" THEN "awaiting_answer"
    ELSE "in_progress"
-----------------------------------------------------------------------------
(* The user, the agent's editor, and processes that are killed *)

EditSpec(text) ==
    /\ Edit /\ text # spec
    /\ spec' = text
    /\ approved' = approved \cup {p \in {text.plan} : text.status = "approved"}
    /\ UNCHANGED <<files, processes, checked, raced, owed>>

Tampered == {None} \cup [plan : Plans, status : {"approved"}]
EditSnapshot(text) ==
    /\ Edit /\ snapshot # None /\ text # snapshot
    /\ snapshot' = text
    /\ UNCHANGED <<spec, lock, record, processes, approved, checked, raced, owed>>

Killed ==
    /\ \/ writing # None /\ writing' = None /\ UNCHANGED <<checking, pending>>
       \/ checking # None /\ checking' = None /\ UNCHANGED <<writing, pending>>
       \/ \E w \in Writers :
             /\ pending[w] # None /\ pending' = [pending EXCEPT ![w] = None]
             /\ UNCHANGED <<writing, checking>>
    /\ UNCHANGED <<spec, files, edits, commands, approved, checked, raced, owed>>
-----------------------------------------------------------------------------
(* lock write: the text is read, copied, and the lock is written *)

LockReads ==
    /\ writing = None /\ Command
    /\ spec.status = "approved"
    /\ writing' = [raw |-> spec, copied |-> FALSE]
    /\ UNCHANGED <<spec, files, checking, pending, approved, checked, raced, owed>>

LockCopies ==
    /\ writing # None /\ ~writing.copied
    /\ snapshot' = spec /\ writing' = [writing EXCEPT !.copied = TRUE]
    /\ UNCHANGED <<spec, lock, record, checking, pending, edits, commands, approved,
                   checked, raced, owed>>

\* write_text is not atomic: a process killed in it leaves a torn file.
LockWrites ==
    /\ writing # None /\ writing.copied /\ snapshot # None
    /\ lock' \in {[hash |-> writing.raw.plan, bytes |-> snapshot,
                   status |-> writing.raw.status], Torn}
    /\ writing' = None
    /\ UNCHANGED <<spec, snapshot, record, checking, pending, edits, commands, approved,
                   checked, raced, owed>>
-----------------------------------------------------------------------------
(* The record: read, changed in memory, and written over *)

Alone(w) == \A v \in Writers \ {w} : pending[v] = None
Reads(w, image) == pending[w] = None /\ pending' = [pending EXCEPT ![w] = image]

\* What the record has been told once image is written, by a process that is
\* alone with it or not.
Told(before, image, alone) ==
    IF image.by = "record init" THEN Nothing
    ELSE [conceded |-> (before.conceded \ image.disclosed)
                         \cup {c \in image.told.conceded : alone},
          contested |-> (before.contested \ image.disclosed)
                          \cup {c \in image.told.conceded : ~alone},
          asked |-> before.asked \/ (alone /\ image.told.asked),
          cheated |-> before.cheated \/ (alone /\ image.told.cheated),
          regenerated |-> before.regenerated
                            + IF alone THEN image.told.regenerated ELSE 0]

\* A self-check that passed and has not yet read the record it merges into.
Passing == checking # None /\ checking.passed = Len(Phases)

WritesOver(w) ==
    /\ pending[w] # None /\ pending' = [pending EXCEPT ![w] = None]
    /\ record' = pending[w].record /\ checked' = pending[w].vouched
    /\ owed' = Told(owed, pending[w], Alone(w))
    /\ raced' = (raced \/ (Passing /\ pending[w].record.from # checking.plan))
    /\ UNCHANGED <<spec, snapshot, lock, writing, checking, edits, commands, approved>>

\* write_record opens the file and writes it: a kill leaves it torn.
Tears(w) ==
    /\ pending[w] # None /\ pending' = [pending EXCEPT ![w] = None]
    /\ record' = Torn /\ checked' = None
    /\ UNCHANGED <<spec, snapshot, lock, writing, checking, edits, commands, approved,
                   raced, owed>>

WriteRecord(w) ==
    /\ pending[w] # None /\ pending[w].by # "self_check"
    /\ WritesOver(w) \/ Tears(w)

\* s0_spec is the verdict on the snapshot, or on a report of the lock's plan.
RecordInit(w, status0) ==
    /\ Command /\ Present(lock)
    /\ Reads(w, [by |-> "record init", record |-> NewRecord(status0), vouched |-> None,
                 told |-> Nothing, disclosed |-> {}])
    /\ UNCHANGED <<spec, files, writing, checking, approved, checked, raced, owed>>

\* Mutant: Phase C does not compare the snapshot's bytes.
ClosureIntact_AnyBytes ==
    /\ Present(lock) /\ snapshot # None /\ lock.status = "approved"
    /\ Present(record) /\ record.from = lock.hash

\* Phase C of self_check.py
ClosureIntact ==
    /\ Present(lock) /\ snapshot # None /\ snapshot = lock.bytes
    /\ lock.status = "approved"
    /\ Present(record) /\ record.from = lock.hash

\* The first n phases pass; the next one fails and the others are not reached.
SelfCheckReads(n) ==
    /\ checking = None /\ Command
    /\ n = Len(Phases) => ClosureIntact
    /\ checking' = [passed |-> n,
                    plan |-> IF snapshot = None THEN None ELSE snapshot.plan]
    /\ raced' = (raced \/ (n = Len(Phases) /\ lock.bytes.plan # lock.hash))
    /\ UNCHANGED <<spec, files, writing, pending, approved, checked, owed>>

PhaseStatus(i) ==
    IF i <= checking.passed THEN "passed"
    ELSE IF i = checking.passed + 1 THEN "failed" ELSE "not_reached"
Merged(r) ==
    [r EXCEPT
       !.status = [s \in Stages |->
                     IF s \in Checked
                     THEN PhaseStatus(CHOOSE i \in DOMAIN Phases : Phases[i] = s)
                     ELSE r.status[s]],
       !.errors = [s \in Stages |->
                     IF s \notin Checked THEN r.errors[s]
                     ELSE {k \in {"code"} : checking.passed < Len(Phases)
                                            /\ s = Phases[checking.passed + 1]}]]

\* merge_record reads the record; one that is missing or torn ends it.
SelfCheckMerges(w) ==
    /\ checking # None /\ checking' = None
    /\ \/ ~Present(record) /\ UNCHANGED pending
       \/ /\ Present(record)
          /\ Reads(w, [by |-> "self_check", record |-> Merged(record),
                       vouched |-> IF Passing THEN checking.plan ELSE None,
                       told |-> Nothing, disclosed |-> {}])
    /\ UNCHANGED <<spec, files, writing, edits, commands, approved, checked, raced, owed>>

\* A temporary file, then replace: never torn.
SelfCheckReplaces(w) ==
    /\ pending[w] # None /\ pending[w].by = "self_check"
    /\ WritesOver(w)
-----------------------------------------------------------------------------
(* record append: the reading of a command, with one part of what it adds *)

AppendTo(w, r, told, disclosed, vouched) ==
    /\ Present(record) /\ Command
    /\ Reads(w, [by |-> "record append", record |-> Recount(r), vouched |-> vouched,
                 told |-> told, disclosed |-> disclosed])
    /\ UNCHANGED <<spec, files, writing, checking, approved, checked, raced, owed>>

Vouched(s) == IF s \in Checked THEN "agent" ELSE checked
\* Mutant: any stage may be skipped.
Allowed_AnyStage(s, status) == TRUE

Allowed(s, status) == status = "skipped" => s \in SkippableStages

\* --from, with or without --status
AppendReport(w, s, errors, status) ==
    LET all == record.errors[s] \cup errors
    IN  /\ s # "s0_spec" /\ ("environment" \in errors => s \in EnvStages)
        /\ AppendTo(w, [record EXCEPT
                        !.errors[s] = all,
                        !.status[s] = IF status # None /\ Allowed(s, status)
                                      THEN status ELSE StatusFor(all)],
                    Nothing, {}, Vouched(s))

\* --status alone
AppendStatus(w, s, status) ==
    /\ s # "s0_spec" /\ Allowed(s, status)
    /\ AppendTo(w, [record EXCEPT !.status[s] = status], Nothing, {}, Vouched(s))

\* Mutant: a heal that edited the plan is rejected without a trace.
Attempt_Rejected(kind, edited) ==
    IF kind = "regenerate" THEN [record EXCEPT !.regenerates = @ + 1] ELSE record

\* append_attempt: INVARIANT-D2
Attempt(kind, edited) ==
    IF kind = "regenerate" THEN [record EXCEPT !.regenerates = @ + 1]
    ELSE IF edited THEN [record EXCEPT !.moved = TRUE, !.blocked = TRUE]
    ELSE record

AppendAttempt(w, kind, edited) ==
    AppendTo(w, Attempt(kind, edited),
             [Nothing EXCEPT !.cheated = (kind = "heal" /\ edited),
                             !.regenerated = IF kind = "regenerate" THEN 1 ELSE 0],
             {}, checked)

AppendConcession(w, code, disclosed) ==
    AppendTo(w, [record EXCEPT
                   !.concessions = @ \cup {[code |-> code, disclosed |-> disclosed]}],
             [Nothing EXCEPT !.conceded = {c \in {code} : ~disclosed}], {}, checked)

\* A deferred or answered blocker changes nothing that is modelled.
AppendBlocker(w) ==
    AppendTo(w, [record EXCEPT !.blocked = TRUE], [Nothing EXCEPT !.asked = TRUE], {},
             checked)

AppendDisclosure(w, code) ==
    AppendTo(w, [record EXCEPT !.concessions =
                   {[c EXCEPT !.disclosed = @ \/ c.code = code] : c \in @}],
             Nothing, {code}, checked)

RecordAppend(w) ==
    \/ \E s \in Reported, errors \in SUBSET ErrorKind, status \in {None, "passed"} :
          AppendReport(w, s, errors, status)
    \/ \E s \in Reported, status \in Status \ {"not_reached"} : AppendStatus(w, s, status)
    \/ \E kind \in Kinds, edited \in BOOLEAN : AppendAttempt(w, kind, edited)
    \/ \E code \in Codes, disclosed \in BOOLEAN : AppendConcession(w, code, disclosed)
    \/ AppendBlocker(w)
    \/ \E code \in Codes : AppendDisclosure(w, code)

Next ==
    \/ \E text \in Text : EditSpec(text)
    \/ \E text \in Tampered : EditSnapshot(text)
    \/ Killed
    \/ LockReads \/ LockCopies \/ LockWrites
    \/ \E n \in 0 .. Len(Phases) : SelfCheckReads(n)
    \/ \E w \in Writers :
          \/ \E status0 \in {"passed", "failed"} : RecordInit(w, status0)
          \/ SelfCheckMerges(w) \/ RecordAppend(w)
          \/ WriteRecord(w) \/ SelfCheckReplaces(w)

Spec == Init /\ [][Next]_vars
-----------------------------------------------------------------------------
(* Properties *)

\* Every file is absent, torn or complete, and no stage is recorded as skipped
\* that record append may not skip.
TypeOK ==
    /\ spec \in Text /\ snapshot \in Text \cup {None}
    /\ Present(lock) =>
         lock \in [hash : Plans, bytes : Text, status : {"approved", "draft"}]
    /\ Present(record) => record \in Record
    /\ Present(record) => "skipped" \notin
         {record.status[s] : s \in Stages \ SkippableStages}
    /\ checked \in Vouchers

\* A lock that verifies is the lock of a plan that was approved, whatever was
\* edited while lock write ran (write_lock hashes one reading of the
\* specification and copies another; verify_lock compares both).
VerifiedPlanWasApproved ==
    LockIntact => snapshot.plan \in approved /\ lock.hash \in approved

\* When the lock verifies and the record reads materialized for it, and nobody
\* but self_check.py vouched for stages 1 to 3, self_check.py passed on the plan
\* the lock pins, in this record: not on an edited snapshot, not in an earlier
\* record of another plan, and not in one that an older image was written over.
\* (merge_record compares no hashes.  Excused is a self-check that passed on a
\* lock which an edit between the two readings of lock write gave the hash of
\* one text and the bytes of another, and one whose record is replaced by a
\* record of another plan before it merges.)
GreenPlanWasChecked ==
    (/\ ~raced /\ Present(record) /\ LockVerifies
     /\ Materialized(lock, spec.plan) /\ checked # "agent")
    => checked = lock.hash

\* What the record was told while nobody else had read it and not yet written
\* it is not forgotten by any command or self-check after that, whatever they
\* overlap, nor in the reading: an open blocker or a heal that edited the plan
\* asks the user, with and without the lock and the live plan; an undisclosed
\* concession is never materialized; regenerations count against their cap.
\* (What is told while another process is pending is lost if that one writes
\* last: see ConcededIsNotMaterialized.)
OwedToTheUser ==
    Present(record) =>
        /\ owed.asked \/ owed.cheated =>
             \A l \in Locks, live \in Lives : State(l, live) = "needs_user"
        /\ owed.conceded # {} =>
             \A l \in Locks, live \in Lives : ~Materialized(l, live)
        /\ owed.regenerated >= RegenerateTotal => record.exhausted

\* What build-record.md:374 says of every concession, whoever else runs: "Until
\* then [disclosed to the user] the product is not materialized".  The code
\* breaks it: neither merge_record nor record append reads the record again
\* before it writes over it.
ConcededIsNotMaterialized ==
    Present(record) /\ owed.conceded \cup owed.contested # {} =>
        \A l \in Locks, live \in Lives : ~Materialized(l, live)
=============================================================================
