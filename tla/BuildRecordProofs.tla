-------------------------- MODULE BuildRecordProofs --------------------------
(***************************************************************************)
(* Proofs about BuildRecord for every set of plans, stages and codes, for  *)
(* every cap, and for any number of edits, commands and killed processes.  *)
(***************************************************************************)
EXTENDS BuildRecord, TLAPS

NoSkips(r) == "skipped" \notin {r.status[s] : s \in Stages \ SkippableStages}

ProcessTypes ==
    /\ writing # None => writing \in [raw : Text, copied : BOOLEAN]
    /\ checking # None => checking \in [passed : 0 .. Len(Phases), plan : Plans \cup {None}]
    /\ pending \in [Writers -> Image \cup {None}]
    /\ \A w \in Writers : pending[w] # None => NoSkips(pending[w].record)
    /\ owed \in Owing /\ raced \in BOOLEAN

(* An approved specification is remembered, by a lock write too.           *)
Vetted ==
    /\ spec.status = "approved" => spec.plan \in approved
    /\ writing # None => writing.raw.plan \in approved
    /\ Present(lock) => lock.hash \in approved

AllPassed(r) == \A s \in Checked : r.status[s] = "passed"

(* Stages 1 to 3 of r are passed only on the word of v: an agent's, or that *)
(* of a self-check of the plan r was begun for.                            *)
Certified(r, v) == v # "agent" /\ AllPassed(r) => v = r.from

(* Without a race, a self-check that passed read the plan of the record it *)
(* will be merged into, and so did the one that vouches for the record on  *)
(* file, or for one that a process is about to write over it.              *)
CheckIsOfRecord ==
    ~raced =>
        /\ Passing /\ Present(record) => record.from = checking.plan
        /\ Present(record) => Certified(record, checked)
        /\ \A w \in Writers :
             pending[w] # None => Certified(pending[w].record, pending[w].vouched)

(* What a record must hold of what it was told.                            *)
Keeps(r, told) ==
    /\ told.asked \/ told.cheated => r.blocked
    /\ \A code \in told.conceded : \E c \in r.concessions : c.code = code /\ ~c.disclosed
    /\ told.regenerated <= r.regenerates
Counted(r) == r.regenerates >= RegenerateTotal => r.exhausted

(* The record holds what it was told, and so does every image of it that   *)
(* is still to be written, with what its process adds: while that process  *)
(* is pending, nothing that others tell the record is owed by it.          *)
RecordKeeps ==
    /\ Present(record) => Keeps(record, owed) /\ Counted(record)
    /\ \A w \in Writers : pending[w] # None =>
         /\ Keeps(pending[w].record, Told(owed, pending[w], TRUE))
         /\ Counted(pending[w].record)

BuildInv == TypeOK /\ ProcessTypes /\ Vetted /\ CheckIsOfRecord /\ RecordKeeps
-----------------------------------------------------------------------------
(* Records *)

LEMMA PhasesAre ==
    /\ Len(Phases) = 3 /\ DOMAIN Phases = 1 .. 3
    /\ Phases[1] = "s1_structure" /\ Phases[2] = "s2_transform" /\ Phases[3] = "s3_closure"
    /\ Checked = {"s1_structure", "s2_transform", "s3_closure"}
<1>1. /\ Len(Phases) = 3 /\ DOMAIN Phases = 1 .. 3
      /\ Phases[1] = "s1_structure" /\ Phases[2] = "s2_transform" /\ Phases[3] = "s3_closure"
  BY DEF Phases
<1>2. 1 .. 3 = {1, 2, 3}
  OBVIOUS
<1> QED BY <1>1, <1>2 DEF Checked

LEMMA StagesAre ==
    /\ Checked \subseteq Stages /\ "s0_spec" \in Stages /\ "s0_spec" \notin Checked
    /\ Checked \cap SkippableStages = {} /\ "s0_spec" \notin SkippableStages
BY PhasesAre DEF Stages, OfflineStages, SkippableStages

LEMMA RecountIs ==
    ASSUME NEW r \in Record
    PROVE  /\ Recount(r) \in Record
           /\ Recount(r).regenerates >= RegenerateTotal => Recount(r).exhausted
           /\ Recount(r).from = r.from /\ Recount(r).status = r.status
           /\ Recount(r).blocked = r.blocked /\ Recount(r).concessions = r.concessions
           /\ Recount(r).regenerates = r.regenerates
<1>1. (r.regenerates >= RegenerateTotal) \in BOOLEAN
  OBVIOUS
<1>2. \A b \in BOOLEAN :
         /\ [r EXCEPT !.exhausted = b] \in Record
         /\ [r EXCEPT !.exhausted = b].exhausted = b
         /\ [r EXCEPT !.exhausted = b].from = r.from
         /\ [r EXCEPT !.exhausted = b].status = r.status
         /\ [r EXCEPT !.exhausted = b].blocked = r.blocked
         /\ [r EXCEPT !.exhausted = b].concessions = r.concessions
         /\ [r EXCEPT !.exhausted = b].regenerates = r.regenerates
  BY DEF Record
<1> QED BY <1>1, <1>2 DEF Recount

(* q is record r but for the errors and the status of stage s.             *)
SetsStage(q, r, s, status) ==
    /\ q \in Record /\ q.from = r.from /\ q.blocked = r.blocked
    /\ q.concessions = r.concessions /\ q.regenerates = r.regenerates
    /\ \A t \in Stages : q.status[t] = IF t = s THEN status ELSE r.status[t]

LEMMA StageSet ==
    ASSUME NEW r \in Record, NEW s, NEW status \in Status, NEW errors \in SUBSET ErrorKind
    PROVE  /\ SetsStage([r EXCEPT !.errors[s] = errors, !.status[s] = status], r, s, status)
           /\ SetsStage([r EXCEPT !.status[s] = status], r, s, status)
<1> DEFINE st == [r.status EXCEPT ![s] = status]
           er == [r.errors EXCEPT ![s] = errors]
           one == [r EXCEPT !.status = st]
           both == [[r EXCEPT !.errors = er] EXCEPT !.status = st]
<1>1. /\ st \in [Stages -> Status] /\ er \in [Stages -> SUBSET ErrorKind]
      /\ \A t \in Stages : st[t] = IF t = s THEN status ELSE r.status[t]
  BY DEF Record
<1>2. \A f \in [Stages -> Status], g \in [Stages -> SUBSET ErrorKind] :
         \A q \in {[[r EXCEPT !.errors = g] EXCEPT !.status = f], [r EXCEPT !.status = f]} :
            /\ q \in Record /\ q.status = f
            /\ q.from = r.from /\ q.blocked = r.blocked
            /\ q.concessions = r.concessions /\ q.regenerates = r.regenerates
  BY DEF Record
<1>3. \A q \in {both, one} :
         /\ q \in Record /\ q.status = st
         /\ q.from = r.from /\ q.blocked = r.blocked
         /\ q.concessions = r.concessions /\ q.regenerates = r.regenerates
  <2> HIDE DEF st, er
  <2> QED BY <1>1, <1>2
<1>4. SetsStage(both, r, s, status) /\ SetsStage(one, r, s, status)
  <2> HIDE DEF st, both, one
  <2> QED BY <1>1, <1>3 DEF SetsStage
<1>5. both = [r EXCEPT !.errors[s] = errors, !.status[s] = status]
  OBVIOUS
<1>6. one = [r EXCEPT !.status[s] = status]
  OBVIOUS
<1> QED BY <1>4, <1>5, <1>6
-----------------------------------------------------------------------------
LEMMA NothingOwed == Nothing \in Owing
BY DEF Nothing, Owing

LEMMA BuildInvInit == Init => BuildInv
<1> SUFFICES ASSUME Init PROVE BuildInv
  OBVIOUS
<1>1. ~Present(lock) /\ ~Present(record)
  BY DEF Init, Present
<1>2. TypeOK
  BY <1>1 DEF Init, TypeOK, Vouchers
<1>3. ProcessTypes
  BY NothingOwed DEF Init, ProcessTypes
<1>4. Vetted
  BY <1>1 DEF Init, Vetted
<1>5. CheckIsOfRecord /\ RecordKeeps
  BY <1>1 DEF Init, CheckIsOfRecord, RecordKeeps, Passing
<1> QED BY <1>2, <1>3, <1>4, <1>5 DEF BuildInv

LEMMA OwedParts ==
    ASSUME NEW o \in Owing
    PROVE  /\ o.conceded \in SUBSET Codes /\ o.contested \in SUBSET Codes
           /\ o.asked \in BOOLEAN /\ o.cheated \in BOOLEAN /\ o.regenerated \in Nat
BY DEF Owing

LEMMA OwedWhole ==
    ASSUME NEW C \in SUBSET Codes, NEW D \in SUBSET Codes, NEW A \in BOOLEAN,
           NEW B \in BOOLEAN, NEW N \in Nat
    PROVE  LET o == [conceded |-> C, contested |-> D, asked |-> A, cheated |-> B,
                     regenerated |-> N]
           IN  /\ o \in Owing /\ o.conceded = C /\ o.asked = A /\ o.cheated = B
               /\ o.regenerated = N
BY DEF Owing

LEMMA NothingIs ==
    /\ Nothing \in Owing /\ Nothing.conceded = {} /\ Nothing.asked = FALSE
    /\ Nothing.cheated = FALSE /\ Nothing.regenerated = 0
BY DEF Nothing, Owing

LEMMA SumIf ==
    ASSUME NEW m \in Nat, NEW n \in Nat, NEW alone \in BOOLEAN
    PROVE  m + (IF alone THEN n ELSE 0) \in Nat
OBVIOUS

(* What is owed after a write, field by field.                             *)
LEMMA ToldFields ==
    ASSUME NEW image \in Image, NEW before \in Owing, NEW alone \in BOOLEAN,
           image.by # "record init"
    PROVE  LET after == Told(before, image, alone)
           IN  /\ after \in Owing
               /\ after.conceded = (before.conceded \ image.disclosed)
                                     \cup IF alone THEN image.told.conceded ELSE {}
               /\ after.asked = (before.asked \/ (alone /\ image.told.asked))
               /\ after.cheated = (before.cheated \/ (alone /\ image.told.cheated))
               /\ after.regenerated =
                    before.regenerated + IF alone THEN image.told.regenerated ELSE 0
<1> DEFINE C == (before.conceded \ image.disclosed)
                  \cup {c \in image.told.conceded : alone}
           D == (before.contested \ image.disclosed)
                  \cup {c \in image.told.conceded : ~alone}
           A == before.asked \/ (alone /\ image.told.asked)
           B == before.cheated \/ (alone /\ image.told.cheated)
           N == before.regenerated + IF alone THEN image.told.regenerated ELSE 0
<1>1. image.told \in Owing
  BY DEF Image
<1>2. C \in SUBSET Codes
  BY <1>1, OwedParts
<1>3. D \in SUBSET Codes
  BY <1>1, OwedParts
<1>4. N \in Nat
  <2>1. before.regenerated \in Nat /\ image.told.regenerated \in Nat
    BY <1>1, OwedParts
  <2> QED BY <2>1, SumIf
<1>5. A \in BOOLEAN /\ B \in BOOLEAN
  OBVIOUS
<1>6. Told(before, image, alone) =
        [conceded |-> C, contested |-> D, asked |-> A, cheated |-> B, regenerated |-> N]
  BY DEF Told
<1>7. C = (before.conceded \ image.disclosed)
             \cup IF alone THEN image.told.conceded ELSE {}
  OBVIOUS
<1> HIDE DEF C, D, A, B, N
<1>8. /\ Told(before, image, alone) \in Owing
      /\ Told(before, image, alone).conceded = C /\ Told(before, image, alone).asked = A
      /\ Told(before, image, alone).cheated = B
      /\ Told(before, image, alone).regenerated = N
  <2> HIDE DEF Told
  <2> DEFINE o == [conceded |-> C, contested |-> D, asked |-> A, cheated |-> B,
                   regenerated |-> N]
  <2>1. o \in Owing /\ o.conceded = C /\ o.asked = A /\ o.cheated = B /\ o.regenerated = N
    BY <1>2, <1>3, <1>4, <1>5, OwedWhole
  <2>2. Told(before, image, alone) = o
    BY <1>6
  <2> HIDE DEF o
  <2> QED BY <2>1, <2>2
<1> QED BY <1>7, <1>8 DEF A, B, N

(* A record keeps what it owes when it owes no more than before.           *)
LEMMA KeepsLess ==
    ASSUME NEW r \in Record, NEW more \in Owing, NEW less \in Owing, Keeps(r, more),
           less.conceded \subseteq more.conceded, less.asked => more.asked,
           less.cheated => more.cheated, less.regenerated <= more.regenerated
    PROVE  Keeps(r, less)
<1>1. less.asked \/ less.cheated => r.blocked
  BY DEF Keeps
<1>2. less.regenerated <= r.regenerates
  BY DEF Keeps, Owing, Record
<1>3. \A code \in less.conceded : \E c \in r.concessions : c.code = code /\ ~c.disclosed
  BY DEF Keeps
<1> QED BY <1>1, <1>2, <1>3 DEF Keeps

(* What is owed after a write is typed, and to be alone only adds to it.   *)
LEMMA ToldIs ==
    ASSUME NEW image \in Image, NEW before \in Owing, NEW alone \in BOOLEAN
    PROVE  /\ Told(before, image, alone) \in Owing
           /\ \A r \in Record :
                Keeps(r, Told(before, image, TRUE)) => Keeps(r, Told(before, image, alone))
<1>1. CASE image.by = "record init"
  BY <1>1, NothingOwed DEF Told
<1>2. CASE image.by # "record init"
  <2> DEFINE more == Told(before, image, TRUE)
             less == Told(before, image, alone)
  <2>1. image.told \in Owing
    BY DEF Image
  <2>2. more \in Owing /\ less \in Owing /\ less.conceded \subseteq more.conceded
    BY <1>2, ToldFields
  <2>4. less.regenerated <= more.regenerated
    <3>1. /\ more.regenerated = before.regenerated + image.told.regenerated
          /\ less.regenerated =
               before.regenerated + IF alone THEN image.told.regenerated ELSE 0
      BY <1>2, ToldFields
    <3>2. before.regenerated \in Nat /\ image.told.regenerated \in Nat
      BY <2>1, OwedParts
    <3> HIDE DEF more, less
    <3> QED BY <3>1, <3>2
  <2>3. (less.asked => more.asked) /\ (less.cheated => more.cheated)
    BY <1>2, ToldFields
  <2> HIDE DEF more, less
  <2> QED BY <2>2, <2>3, <2>4, KeepsLess DEF more, less
<1> QED BY <1>1, <1>2

(* A write under an image that is still pending owes it nothing new.       *)
LEMMA ToldUnder ==
    ASSUME NEW image \in Image, NEW other \in Image, NEW before \in Owing, NEW r \in Record,
           Keeps(r, Told(before, image, TRUE))
    PROVE  Keeps(r, Told(Told(before, other, FALSE), image, TRUE))
<1> DEFINE after == Told(before, other, FALSE)
<1>1. CASE image.by = "record init"
  BY <1>1 DEF Told
<1>2. CASE image.by # "record init"
  <2>1. /\ after \in Owing
        /\ after.conceded \subseteq before.conceded
        /\ after.regenerated <= before.regenerated
        /\ after.asked => before.asked
        /\ after.cheated => before.cheated
    <3>1. /\ before.conceded \in SUBSET Codes /\ before.regenerated \in Nat
          /\ before.asked \in BOOLEAN /\ before.cheated \in BOOLEAN
      BY OwedParts
    <3>2. CASE other.by = "record init"
      <4>1. after = Nothing
        BY <3>2 DEF Told
      <4> HIDE DEF after
      <4> QED BY <3>1, <4>1, NothingIs
    <3>3. CASE other.by # "record init"
      <4>1. /\ after \in Owing /\ after.conceded = (before.conceded \ other.disclosed) \cup {}
            /\ after.regenerated = before.regenerated + 0
        BY <3>3, ToldFields
      <4>2. (after.asked => before.asked) /\ (after.cheated => before.cheated)
        BY <3>3, ToldFields
      <4> HIDE DEF after
      <4> QED BY <3>1, <4>1, <4>2
    <3> QED BY <3>2, <3>3
  <2> HIDE DEF after
  <2> DEFINE more == Told(before, image, TRUE)
             less == Told(after, image, TRUE)
  <2>2. image.told \in Owing
    BY DEF Image
  <2>3. /\ more \in Owing /\ less \in Owing
        /\ less.conceded \subseteq more.conceded
        /\ less.regenerated <= more.regenerated
    <3>1. /\ more \in Owing
          /\ more.conceded = (before.conceded \ image.disclosed) \cup image.told.conceded
          /\ more.regenerated = before.regenerated + image.told.regenerated
      BY <1>2, ToldFields
    <3>0. after \in Owing
      BY <2>1
    <3>3. /\ less \in Owing
          /\ less.conceded = (after.conceded \ image.disclosed) \cup image.told.conceded
          /\ less.regenerated = after.regenerated + image.told.regenerated
      BY <1>2, <3>0, ToldFields
    <3> HIDE DEF more, less
    <3>2. /\ before.regenerated \in Nat /\ after.regenerated \in Nat
          /\ image.told.regenerated \in Nat
      BY <2>1, <2>2, OwedParts
    <3> QED BY <2>1, <3>1, <3>2, <3>3
  <2>4. (less.asked => more.asked) /\ (less.cheated => more.cheated)
    BY <1>2, <2>1, ToldFields
  <2>5. Keeps(r, more)
    OBVIOUS
  <2> HIDE DEF more, less
  <2>6. Keeps(r, less)
    BY <2>3, <2>4, <2>5, KeepsLess
  <2> QED BY <2>6 DEF less, after
<1> QED BY <1>1, <1>2

(* A process that has read the record, or begins a new one, and is yet to  *)
(* write; the self-check ends when it has read.                            *)
LEMMA ReadsInv ==
    ASSUME BuildInv, NEW w \in Writers, NEW image \in Image, Reads(w, image),
           UNCHANGED <<spec, files, writing, approved, checked, raced, owed>>,
           checking' \in {checking, None},
           NoSkips(image.record), ~raced => Certified(image.record, image.vouched),
           Keeps(image.record, Told(owed, image, TRUE)), Counted(image.record)
    PROVE  BuildInv'
<1>1. pending \in [Writers -> Image \cup {None}]
  BY DEF BuildInv, ProcessTypes
<1>2. /\ pending' \in [Writers -> Image \cup {None}]
      /\ \A v \in Writers : pending'[v] = IF v = w THEN image ELSE pending[v]
  BY <1>1 DEF Reads
<1>3. TypeOK' /\ Vetted'
  BY DEF BuildInv, TypeOK, Vetted, files, Present
<1>4. ProcessTypes'
  BY <1>2 DEF BuildInv, ProcessTypes
<1>5. CheckIsOfRecord'
  BY <1>2 DEF BuildInv, CheckIsOfRecord, Passing, files, Present
<1>6. RecordKeeps'
  BY <1>2 DEF BuildInv, RecordKeeps, files, Present
<1> QED BY <1>3, <1>4, <1>5, <1>6 DEF BuildInv

(* An image that is written over the record: the others that are pending   *)
(* are not alone with it.                                                  *)
LEMMA WritesOverInv == ASSUME BuildInv, NEW w \in Writers, WritesOver(w) PROVE BuildInv'
<1> DEFINE image == pending[w]
<1>0. /\ UNCHANGED <<spec, snapshot, lock, writing, checking, approved>>
      /\ image # None /\ pending' = [pending EXCEPT ![w] = None]
      /\ record' = image.record /\ checked' = image.vouched
      /\ owed' = Told(owed, image, Alone(w))
      /\ raced' = (raced \/ (Passing /\ image.record.from # checking.plan))
  BY DEF WritesOver
<1>1. /\ pending \in [Writers -> Image \cup {None}] /\ image \in Image /\ owed \in Owing
      /\ NoSkips(image.record)
      /\ Keeps(image.record, Told(owed, image, TRUE)) /\ Counted(image.record)
  BY <1>0 DEF BuildInv, ProcessTypes, RecordKeeps
<1>2. image.record \in Record /\ image.vouched \in Vouchers /\ Alone(w) \in BOOLEAN
  BY <1>1 DEF Image, Alone
<1>3. owed' \in Owing /\ Keeps(image.record, owed')
  BY <1>0, <1>1, <1>2, ToldIs
<1>4. \A v \in Writers : pending'[v] # None => v # w /\ pending'[v] = pending[v]
  BY <1>0, <1>1
<1>5. pending' \in [Writers -> Image \cup {None}]
  BY <1>0, <1>1
<1>6. TypeOK'
  BY <1>0, <1>1, <1>2 DEF BuildInv, TypeOK, NoSkips, Present
<1>7. ProcessTypes'
  BY <1>0, <1>3, <1>4, <1>5 DEF BuildInv, ProcessTypes
<1>8. Vetted'
  BY <1>0 DEF BuildInv, Vetted, Present
<1>9. CheckIsOfRecord'
  <2> SUFFICES ASSUME ~raced, Passing => image.record.from = checking.plan
               PROVE  CheckIsOfRecord'
    BY <1>0 DEF CheckIsOfRecord
  <2>1. Certified(image.record, image.vouched)
    BY <1>0 DEF BuildInv, CheckIsOfRecord
  <2> HIDE DEF image
  <2> QED BY <1>0, <1>4, <2>1 DEF BuildInv, CheckIsOfRecord, Passing
<1>10. RecordKeeps'
  <2>1. ASSUME NEW v \in Writers, pending'[v] # None
        PROVE  /\ Keeps(pending'[v].record, Told(owed', pending'[v], TRUE))
               /\ Counted(pending'[v].record)
    <3>1. v # w /\ pending'[v] = pending[v] /\ pending[v] # None /\ pending[v] \in Image
      BY <1>1, <1>4, <2>1
    <3>2. ~Alone(w)
      BY <3>1 DEF Alone
    <3>3. owed' = Told(owed, image, FALSE)
      BY <1>0, <3>2, <1>2
    <3>4. /\ Keeps(pending[v].record, Told(owed, pending[v], TRUE))
          /\ Counted(pending[v].record) /\ pending[v].record \in Record
      BY <3>1 DEF BuildInv, RecordKeeps, Image
    <3> HIDE DEF image
    <3> QED BY <1>1, <3>1, <3>3, <3>4, ToldUnder
  <2> QED BY <1>0, <1>1, <1>3, <2>1 DEF RecordKeeps
<1> QED BY <1>6, <1>7, <1>8, <1>9, <1>10 DEF BuildInv

LEMMA TearsInv == ASSUME BuildInv, NEW w \in Writers, Tears(w) PROVE BuildInv'
<1>0. /\ UNCHANGED <<spec, snapshot, lock, writing, checking, approved, raced, owed>>
      /\ pending' = [pending EXCEPT ![w] = None] /\ ~Present(record') /\ checked' = None
  BY DEF Tears, Present
<1>1. pending \in [Writers -> Image \cup {None}]
  BY DEF BuildInv, ProcessTypes
<1>2. /\ \A v \in Writers : pending'[v] # None => pending'[v] = pending[v]
      /\ pending' \in [Writers -> Image \cup {None}]
  BY <1>0, <1>1
<1>3. TypeOK' /\ ProcessTypes' /\ Vetted'
  BY <1>0, <1>2 DEF BuildInv, TypeOK, ProcessTypes, Vetted, Vouchers, Present
<1>4. CheckIsOfRecord'
  BY <1>0, <1>2 DEF BuildInv, CheckIsOfRecord, Passing, Present
<1>5. RecordKeeps'
  BY <1>0, <1>2 DEF BuildInv, RecordKeeps, Present
<1> QED BY <1>3, <1>4, <1>5 DEF BuildInv

LEMMA WriteRecordInv == ASSUME BuildInv, NEW w \in Writers, WriteRecord(w) PROVE BuildInv'
BY WritesOverInv, TearsInv DEF WriteRecord

LEMMA SelfCheckReplacesInv ==
    ASSUME BuildInv, NEW w \in Writers, SelfCheckReplaces(w)
    PROVE  BuildInv'
BY WritesOverInv DEF SelfCheckReplaces
-----------------------------------------------------------------------------
(* record append *)

(* What is owed once a command that tells the record this is written alone. *)
With(told, disclosed) ==
    [conceded |-> (owed.conceded \ disclosed) \cup told.conceded,
     asked |-> owed.asked \/ told.asked, cheated |-> owed.cheated \/ told.cheated,
     regenerated |-> owed.regenerated + told.regenerated]

(* The record on file, and what it was told.                               *)
LEMMA OnFile ==
    ASSUME BuildInv, Present(record)
    PROVE  /\ record \in Record /\ NoSkips(record) /\ owed \in Owing /\ Keeps(record, owed)
           /\ checked \in Vouchers /\ Counted(record)
BY DEF BuildInv, TypeOK, NoSkips, ProcessTypes, RecordKeeps

LEMMA WithNothing ==
    ASSUME owed \in Owing, NEW r \in Record, Keeps(r, owed)
    PROVE  Keeps(r, With(Nothing, {}))
BY DEF With, Nothing, Keeps, Owing, Record

(* Whatever record append adds, if it is added to the record on file, and  *)
(* only an agent's word can make a stage of the self-check pass.           *)
LEMMA AppendInv ==
    ASSUME BuildInv, NEW w \in Writers, NEW r \in Record, NEW told \in Owing,
           NEW disclosed \in SUBSET Codes, NEW vouched \in Vouchers,
           AppendTo(w, r, told, disclosed, vouched), r.from = record.from, NoSkips(r),
           Keeps(r, With(told, disclosed)),
           \/ vouched = "agent"
           \/ vouched = checked /\ (AllPassed(r) => AllPassed(record))
    PROVE  BuildInv'
<1> DEFINE new == Recount(r)
           image == [by |-> "record append", record |-> new, vouched |-> vouched,
                     told |-> told, disclosed |-> disclosed]
<1>1. /\ UNCHANGED <<spec, files, writing, checking, approved, checked, raced, owed>>
      /\ Present(record) /\ Reads(w, image)
  BY DEF AppendTo
<1>2. /\ new \in Record /\ new.from = record.from /\ NoSkips(new) /\ Counted(new)
      /\ AllPassed(new) = AllPassed(r) /\ Keeps(new, With(told, disclosed))
  BY RecountIs DEF NoSkips, Keeps, AllPassed, Counted
<1> HIDE DEF new
<1>3. image \in Image
  BY <1>2 DEF Image
<1>4. Keeps(new, Told(owed, image, TRUE))
  BY <1>2 DEF Told, With, Keeps
<1>5. ~raced => Certified(new, vouched)
  BY <1>1, <1>2 DEF BuildInv, CheckIsOfRecord, Certified
<1>6. image.record = new /\ image.vouched = vouched
  OBVIOUS
<1> HIDE DEF image
<1> QED BY <1>1, <1>2, <1>3, <1>4, <1>5, <1>6, ReadsInv

LEMMA StageInv ==
    ASSUME BuildInv, NEW w \in Writers, NEW s \in Reported, NEW status \in Status, NEW r,
           SetsStage(r, record, s, status), Allowed(s, status),
           AppendTo(w, r, Nothing, {}, Vouched(s))
    PROVE  BuildInv'
<1>1. Present(record)
  BY DEF AppendTo
<1>2. r \in Record /\ r.from = record.from /\ Keeps(r, owed)
  BY <1>1, OnFile DEF SetsStage, Keeps
<1>3. NoSkips(r)
  BY <1>1, OnFile DEF SetsStage, NoSkips, Allowed
<1>4. Nothing \in Owing /\ {} \in SUBSET Codes /\ Keeps(r, With(Nothing, {}))
  BY <1>1, <1>2, OnFile, NothingOwed, WithNothing
<1>5. Vouched(s) \in Vouchers
  BY <1>1, OnFile DEF Vouched, Vouchers
<1>6. CASE s \in Checked
  BY <1>2, <1>3, <1>4, <1>5, <1>6, AppendInv DEF Vouched
<1>7. CASE s \notin Checked
  <2>1. AllPassed(r) => AllPassed(record)
    BY <1>7, StagesAre DEF AllPassed, SetsStage
  <2> QED BY <1>2, <1>3, <1>4, <1>5, <1>7, <2>1, AppendInv DEF Vouched
<1> QED BY <1>6, <1>7

LEMMA ReportInv ==
    ASSUME BuildInv, NEW w \in Writers, NEW s \in Reported, NEW errors \in SUBSET ErrorKind,
           NEW status \in {None, "passed"}, AppendReport(w, s, errors, status)
    PROVE  BuildInv'
<1> DEFINE all == record.errors[s] \cup errors
           st == IF status # None /\ Allowed(s, status) THEN status ELSE StatusFor(all)
<1>1. Present(record) /\ AppendTo(w, [record EXCEPT !.errors[s] = all, !.status[s] = st],
                                  Nothing, {}, Vouched(s))
  BY DEF AppendReport, AppendTo
<1>2. st \in {"passed", "failed"}
  BY DEF StatusFor
<1>3. st \in Status /\ Allowed(s, st)
  BY <1>2 DEF Status, Allowed
<1>4. all \in SUBSET ErrorKind
  BY <1>1, OnFile, ReportedAssumption DEF Record
<1>5. SetsStage([record EXCEPT !.errors[s] = all, !.status[s] = st], record, s, st)
  <2> HIDE DEF all, st
  <2> QED BY <1>1, <1>3, <1>4, OnFile, StageSet
<1> HIDE DEF all, st
<1> QED BY <1>1, <1>3, <1>5, StageInv

LEMMA StatusInv ==
    ASSUME BuildInv, NEW w \in Writers, NEW s \in Reported,
           NEW status \in Status \ {"not_reached"}, AppendStatus(w, s, status)
    PROVE  BuildInv'
<1>1. /\ AppendTo(w, [record EXCEPT !.status[s] = status], Nothing, {}, Vouched(s))
      /\ Present(record) /\ Allowed(s, status)
  BY DEF AppendStatus, AppendTo
<1>2. SetsStage([record EXCEPT !.status[s] = status], record, s, status)
  <2>1. {} \in SUBSET ErrorKind
    OBVIOUS
  <2> QED BY <1>1, <2>1, OnFile, StageSet
<1> QED BY <1>1, <1>2, StageInv

(* A record with other counters, flags or concessions, and the same stages *)
(* and the same plan.                                                      *)
LEMMA OthersInv ==
    ASSUME BuildInv, NEW w \in Writers, NEW r \in Record, NEW told \in Owing,
           NEW disclosed \in SUBSET Codes, AppendTo(w, r, told, disclosed, checked),
           r.from = record.from, r.status = record.status, Keeps(r, With(told, disclosed))
    PROVE  BuildInv'
<1>1. NoSkips(r) /\ checked \in Vouchers
  BY OnFile DEF AppendTo, NoSkips
<1>2. AllPassed(r) => AllPassed(record)
  BY DEF AllPassed
<1> QED BY <1>1, <1>2, AppendInv

LEMMA AttemptIs ==
    ASSUME NEW r \in Record
    PROVE  /\ LET q == [r EXCEPT !.regenerates = @ + 1]
              IN  /\ q \in Record /\ q.from = r.from /\ q.status = r.status
                  /\ q.blocked = r.blocked /\ q.concessions = r.concessions
                  /\ q.regenerates = r.regenerates + 1
           /\ LET q == [r EXCEPT !.moved = TRUE, !.blocked = TRUE]
              IN  /\ q \in Record /\ q.from = r.from /\ q.status = r.status
                  /\ q.blocked = TRUE /\ q.concessions = r.concessions
                  /\ q.regenerates = r.regenerates
           /\ LET q == [r EXCEPT !.blocked = TRUE]
              IN  /\ q \in Record /\ q.from = r.from /\ q.status = r.status
                  /\ q.blocked = TRUE /\ q.concessions = r.concessions
                  /\ q.regenerates = r.regenerates
<1>1. /\ r.regenerates + 1 \in Nat /\ TRUE \in BOOLEAN
  BY DEF Record
<1> QED BY <1>1 DEF Record

LEMMA AttemptInv ==
    ASSUME BuildInv, NEW w \in Writers, NEW kind \in Kinds, NEW edited \in BOOLEAN,
           AppendAttempt(w, kind, edited)
    PROVE  BuildInv'
<1> DEFINE told == [Nothing EXCEPT !.cheated = (kind = "heal" /\ edited),
                                   !.regenerated = IF kind = "regenerate" THEN 1 ELSE 0]
           r == Attempt(kind, edited)
<1>1. Present(record) /\ AppendTo(w, r, told, {}, checked)
  BY DEF AppendAttempt, AppendTo
<1>2. record \in Record /\ owed \in Owing /\ Keeps(record, owed)
  BY <1>1, OnFile
<1>3. /\ told.asked = FALSE /\ told.conceded = {}
      /\ told.cheated = (kind = "heal" /\ edited)
      /\ told.regenerated = IF kind = "regenerate" THEN 1 ELSE 0
  BY DEF Nothing
<1>4. told \in Owing
  BY DEF Nothing, Owing
<1>5. /\ r \in Record /\ r.from = record.from /\ r.status = record.status
      /\ r.concessions = record.concessions
      /\ kind = "regenerate" =>
           r.regenerates = record.regenerates + 1 /\ r.blocked = record.blocked
      /\ kind # "regenerate" =>
           r.regenerates = record.regenerates /\ r.blocked = (record.blocked \/ edited)
  BY <1>2, AttemptIs DEF Attempt, Record
<1> HIDE DEF told, r
<1>6. Keeps(r, With(told, {}))
  <2>1. (owed.asked \/ told.asked) \/ (owed.cheated \/ told.cheated) => r.blocked
    BY <1>2, <1>3, <1>5 DEF Kinds, Keeps
  <2>2. owed.regenerated + told.regenerated <= r.regenerates
    BY <1>2, <1>3, <1>5 DEF Keeps, Owing, Record, Kinds
  <2>3. \A code \in (owed.conceded \ {}) \cup told.conceded :
           \E c \in r.concessions : c.code = code /\ ~c.disclosed
    BY <1>2, <1>3, <1>5 DEF Keeps
  <2> QED BY <2>1, <2>2, <2>3 DEF Keeps, With
<1>7. {} \in SUBSET Codes
  OBVIOUS
<1> QED BY <1>1, <1>4, <1>5, <1>6, <1>7, OthersInv

LEMMA BlockerInv ==
    ASSUME BuildInv, NEW w \in Writers, AppendBlocker(w)
    PROVE  BuildInv'
<1> DEFINE told == [Nothing EXCEPT !.asked = TRUE]
           r == [record EXCEPT !.blocked = TRUE]
<1>1. Present(record) /\ AppendTo(w, r, told, {}, checked)
  BY DEF AppendBlocker, AppendTo
<1>2. record \in Record /\ owed \in Owing /\ Keeps(record, owed)
  BY <1>1, OnFile
<1>3. /\ told \in Owing /\ told.conceded = {} /\ told.regenerated = 0
      /\ {} \in SUBSET Codes
  BY DEF Owing, Nothing
<1>4. /\ r \in Record /\ r.from = record.from /\ r.status = record.status
      /\ r.blocked = TRUE /\ r.concessions = record.concessions
      /\ r.regenerates = record.regenerates
  BY <1>2, AttemptIs
<1> HIDE DEF told, r
<1>5. Keeps(r, With(told, {}))
  BY <1>2, <1>3, <1>4 DEF Keeps, With, Owing
<1> QED BY <1>1, <1>3, <1>4, <1>5, OthersInv

(* Other concessions, as long as those not disclosed are still there.      *)
LEMMA ConcessionsInv ==
    ASSUME BuildInv, NEW w \in Writers, NEW set \in SUBSET [code : Codes, disclosed : BOOLEAN],
           NEW codes \in SUBSET Codes, NEW disclosed \in SUBSET Codes,
           AppendTo(w, [record EXCEPT !.concessions = set],
                    [Nothing EXCEPT !.conceded = codes], disclosed, checked),
           \A code \in (owed.conceded \ disclosed) \cup codes :
              \E c \in set : c.code = code /\ ~c.disclosed
    PROVE  BuildInv'
<1> DEFINE r == [record EXCEPT !.concessions = set]
           told == [Nothing EXCEPT !.conceded = codes]
<1>1. record \in Record /\ owed \in Owing /\ Keeps(record, owed)
  BY OnFile DEF AppendTo
<1>2. /\ r \in Record /\ r.from = record.from /\ r.status = record.status
      /\ r.blocked = record.blocked /\ r.concessions = set
      /\ r.regenerates = record.regenerates
      /\ told \in Owing /\ told.conceded = codes /\ told.asked = FALSE
      /\ told.cheated = FALSE /\ told.regenerated = 0
  BY <1>1 DEF Record, Owing, Nothing
<1>3. AppendTo(w, r, told, disclosed, checked)
  OBVIOUS
<1> HIDE DEF r, told
<1>4. Keeps(r, With(told, disclosed))
  BY <1>1, <1>2 DEF Keeps, With, Owing
<1> QED BY <1>2, <1>3, <1>4, OthersInv

LEMMA ConcessionInv ==
    ASSUME BuildInv, NEW w \in Writers, NEW code \in Codes, NEW disclosed \in BOOLEAN,
           AppendConcession(w, code, disclosed)
    PROVE  BuildInv'
<1> DEFINE c0 == [code |-> code, disclosed |-> disclosed]
           set == record.concessions \cup {c0}
           codes == {c \in {code} : ~disclosed}
<1>1. record \in Record /\ owed \in Owing /\ Keeps(record, owed)
  BY OnFile DEF AppendConcession, AppendTo
<1>2. AppendTo(w, [record EXCEPT !.concessions = set], [Nothing EXCEPT !.conceded = codes],
               {}, checked)
  BY DEF AppendConcession
<1>3. /\ set \in SUBSET [code : Codes, disclosed : BOOLEAN] /\ codes \in SUBSET Codes
      /\ {} \in SUBSET Codes
  BY <1>1 DEF Record
<1>4. \A x \in (owed.conceded \ {}) \cup codes : \E c \in set : c.code = x /\ ~c.disclosed
  <2> TAKE x \in (owed.conceded \ {}) \cup codes
  <2>1. CASE x \in owed.conceded
    BY <1>1, <2>1 DEF Keeps
  <2>2. CASE x \notin owed.conceded
    <3>1. x = code /\ ~disclosed
      BY <2>2
    <3>2. c0 \in set /\ c0.code = x /\ ~c0.disclosed
      BY <3>1
    <3> QED BY <3>2
  <2> QED BY <2>1, <2>2
<1> HIDE DEF set, codes
<1> QED BY <1>2, <1>3, <1>4, ConcessionsInv

LEMMA DisclosureInv ==
    ASSUME BuildInv, NEW w \in Writers, NEW code \in Codes, AppendDisclosure(w, code)
    PROVE  BuildInv'
<1> DEFINE Disc(c) == [c EXCEPT !.disclosed = @ \/ c.code = code]
           set == {Disc(c) : c \in record.concessions}
<1>1. record \in Record /\ owed \in Owing /\ Keeps(record, owed)
  BY OnFile DEF AppendDisclosure, AppendTo
<1>2. AppendTo(w, [record EXCEPT !.concessions = set], [Nothing EXCEPT !.conceded = {}],
               {code}, checked)
  <2>1. [Nothing EXCEPT !.conceded = {}] = Nothing
    BY DEF Nothing
  <2> QED BY <2>1 DEF AppendDisclosure
<1>3. \A c \in [code : Codes, disclosed : BOOLEAN] :
         /\ Disc(c) \in [code : Codes, disclosed : BOOLEAN] /\ Disc(c).code = c.code
         /\ ~c.disclosed /\ c.code # code => ~Disc(c).disclosed
  <2> TAKE c \in [code : Codes, disclosed : BOOLEAN]
  <2>1. (c.disclosed \/ c.code = code) \in BOOLEAN
    OBVIOUS
  <2>2. \A b \in BOOLEAN : /\ [c EXCEPT !.disclosed = b] \in [code : Codes, disclosed : BOOLEAN]
                           /\ [c EXCEPT !.disclosed = b].code = c.code
                           /\ [c EXCEPT !.disclosed = b].disclosed = b
    OBVIOUS
  <2>3. Disc(c) = [c EXCEPT !.disclosed = (c.disclosed \/ c.code = code)]
    OBVIOUS
  <2> QED BY <2>1, <2>2, <2>3
<1>4. record.concessions \subseteq [code : Codes, disclosed : BOOLEAN]
  BY <1>1 DEF Record
<1> HIDE DEF Disc
<1>5. /\ set \in SUBSET [code : Codes, disclosed : BOOLEAN]
      /\ {code} \in SUBSET Codes /\ {} \in SUBSET Codes
  BY <1>1, <1>3, <1>4
<1>6. \A x \in (owed.conceded \ {code}) \cup {} : \E c \in set : c.code = x /\ ~c.disclosed
  <2> TAKE x \in (owed.conceded \ {code}) \cup {}
  <2>1. PICK c \in record.concessions : c.code = x /\ ~c.disclosed
    BY <1>1 DEF Keeps
  <2>2. Disc(c) \in set /\ Disc(c).code = x /\ ~Disc(c).disclosed
    BY <1>3, <1>4, <2>1
  <2> QED BY <2>2
<1> HIDE DEF set
<1> QED BY <1>2, <1>5, <1>6, ConcessionsInv
-----------------------------------------------------------------------------
(* record init and the self-check *)

LEMMA NewRecordIs ==
    ASSUME TypeOK, Present(lock), NEW status0 \in {"passed", "failed"}
    PROVE  LET new == NewRecord(status0)
           IN  /\ new \in Record /\ new.from = lock.hash /\ NoSkips(new)
               /\ ~AllPassed(new) /\ Keeps(new, Nothing) /\ new.regenerates = 0
<1> DEFINE st == [s \in Stages |-> IF s = "s0_spec" THEN status0 ELSE "not_reached"]
           er == [s \in Stages |-> IF s = "s0_spec" /\ status0 = "failed" THEN {"code"} ELSE {}]
           new == NewRecord(status0)
<1>1. lock.hash \in Plans
  BY DEF TypeOK
<1>2. st \in [Stages -> Status] /\ er \in [Stages -> SUBSET ErrorKind]
  BY DEF Status, ErrorKind
<1>3. /\ new.from = lock.hash /\ new.status = st /\ new.errors = er /\ new.regenerates = 0
      /\ new.concessions = {} /\ new.blocked = FALSE
  BY DEF NewRecord
<1>4. new \in Record
  BY <1>1, <1>2 DEF NewRecord, Record
<1>5. NoSkips(new)
  <2>1. \A s \in Stages : st[s] # "skipped"
    OBVIOUS
  <2> QED BY <1>3, <2>1 DEF NoSkips
<1>6. ~AllPassed(new)
  <2>1. "s1_structure" \in Stages /\ "s1_structure" \in Checked
    BY PhasesAre, StagesAre
  <2>2. st["s1_structure"] = "not_reached"
    BY <2>1
  <2> QED BY <1>3, <2>1, <2>2 DEF AllPassed
<1>7. Keeps(new, Nothing)
  BY <1>3 DEF Keeps, Nothing
<1> QED BY <1>3, <1>4, <1>5, <1>6, <1>7

LEMMA RecordInitInv ==
    ASSUME BuildInv, NEW w \in Writers, NEW status0 \in {"passed", "failed"},
           RecordInit(w, status0)
    PROVE  BuildInv'
<1> DEFINE new == NewRecord(status0)
           image == [by |-> "record init", record |-> new, vouched |-> None,
                     told |-> Nothing, disclosed |-> {}]
<1>1. /\ UNCHANGED <<spec, files, writing, checking, approved, checked, raced, owed>>
      /\ Present(lock) /\ Reads(w, image)
  BY DEF RecordInit
<1>2. /\ new \in Record /\ NoSkips(new) /\ ~AllPassed(new) /\ Keeps(new, Nothing)
      /\ new.regenerates = 0
  BY <1>1, NewRecordIs DEF BuildInv
<1> HIDE DEF new
<1>3. image \in Image
  BY <1>2, NothingOwed DEF Image, Vouchers
<1>4. Keeps(new, Told(owed, image, TRUE)) /\ Counted(new) /\ Certified(new, None)
  BY <1>2, CapAssumption DEF Told, Counted, Certified
<1>5. image.record = new /\ image.vouched = None
  OBVIOUS
<1> HIDE DEF image
<1> QED BY <1>1, <1>2, <1>3, <1>4, <1>5, ReadsInv

(* A self-check reads a plan that is the record's if Phase C passes.       *)
LEMMA SelfCheckReadsInv ==
    ASSUME BuildInv, NEW n \in 0 .. Len(Phases), SelfCheckReads(n)
    PROVE  BuildInv'
<1> DEFINE plan == IF snapshot = None THEN None ELSE snapshot.plan
           twofold == n = Len(Phases) /\ lock.bytes.plan # lock.hash
<1>0. /\ UNCHANGED <<spec, files, writing, pending, approved, checked, owed>>
      /\ checking' = [passed |-> n, plan |-> plan] /\ raced' = (raced \/ twofold)
      /\ n = Len(Phases) => ClosureIntact
  BY DEF SelfCheckReads
<1>1. plan \in Plans \cup {None} /\ twofold \in BOOLEAN
  BY DEF BuildInv, TypeOK, Text
<1>2. TypeOK' /\ Vetted'
  BY <1>0 DEF BuildInv, TypeOK, Vetted, files, Present
<1>3. ProcessTypes'
  BY <1>0, <1>1 DEF BuildInv, ProcessTypes
<1>4. CheckIsOfRecord'
  <2> SUFFICES ASSUME ~raced, ~twofold PROVE CheckIsOfRecord'
    BY <1>0 DEF CheckIsOfRecord
  <2>1. checking'.passed = n /\ checking'.plan = plan
    BY <1>0
  <2>2. n = Len(Phases) => record.from = plan
    <3> SUFFICES ASSUME n = Len(Phases) PROVE record.from = plan
      OBVIOUS
    <3>1. snapshot # None /\ snapshot = lock.bytes /\ record.from = lock.hash
      BY <1>0 DEF ClosureIntact
    <3> QED BY <3>1
  <2> HIDE DEF plan, twofold
  <2> QED BY <1>0, <2>1, <2>2 DEF BuildInv, CheckIsOfRecord, Passing, files, Present
<1>5. RecordKeeps'
  BY <1>0 DEF BuildInv, RecordKeeps, files, Present
<1> QED BY <1>2, <1>3, <1>4, <1>5 DEF BuildInv

(* What the self-check merges is all passed only if all its phases did.    *)
LEMMA MergedIs ==
    ASSUME BuildInv, Present(record), checking # None
    PROVE  LET q == Merged(record)
           IN  /\ q \in Record /\ NoSkips(q) /\ q.from = record.from /\ q.blocked = record.blocked
               /\ q.concessions = record.concessions /\ q.regenerates = record.regenerates
               /\ q.exhausted = record.exhausted
               /\ checking.passed # Len(Phases) => ~AllPassed(q)
<1> DEFINE Index(s) == CHOOSE i \in DOMAIN Phases : Phases[i] = s
           st == [s \in Stages |-> IF s \in Checked THEN PhaseStatus(Index(s))
                                   ELSE record.status[s]]
           er == [s \in Stages |->
                    IF s \notin Checked THEN record.errors[s]
                    ELSE {k \in {"code"} : checking.passed < Len(Phases)
                                           /\ s = Phases[checking.passed + 1]}]
           q == Merged(record)
<1>1. record \in Record /\ NoSkips(record) /\ checking.passed \in 0 .. 3
  BY OnFile, PhasesAre DEF BuildInv, ProcessTypes
<1>2. \A i : PhaseStatus(i) \in {"passed", "failed", "not_reached"}
  BY DEF PhaseStatus
<1>3. /\ st \in [Stages -> Status] /\ er \in [Stages -> SUBSET ErrorKind]
  <2>1. \A s \in Stages : st[s] \in Status
    BY <1>1, <1>2 DEF Status, Record
  <2>2. \A s \in Stages : er[s] \subseteq ErrorKind
    BY <1>1 DEF ErrorKind, Record
  <2> QED BY <2>1, <2>2
<1>4. q = [[record EXCEPT !.status = st] EXCEPT !.errors = er]
  BY DEF Merged
<1>5. \A f \in [Stages -> Status], g \in [Stages -> SUBSET ErrorKind] :
         LET p == [[record EXCEPT !.status = f] EXCEPT !.errors = g]
         IN  /\ p \in Record /\ p.status = f /\ p.from = record.from
             /\ p.blocked = record.blocked /\ p.concessions = record.concessions
             /\ p.regenerates = record.regenerates /\ p.exhausted = record.exhausted
  BY <1>1 DEF Record
<1>6. /\ q \in Record /\ q.status = st /\ q.from = record.from
      /\ q.blocked = record.blocked /\ q.concessions = record.concessions
      /\ q.regenerates = record.regenerates /\ q.exhausted = record.exhausted
  <2> HIDE DEF st, er, q
  <2> QED BY <1>3, <1>4, <1>5
<1>7. NoSkips(q)
  <2>1. \A s \in Stages \ SkippableStages : st[s] # "skipped"
    BY <1>1, <1>2 DEF NoSkips
  <2> HIDE DEF st, q
  <2> QED BY <1>6, <2>1 DEF NoSkips
<1>8. ASSUME checking.passed # Len(Phases) PROVE ~AllPassed(q)
  <2> DEFINE n == checking.passed + 1
             s == Phases[n]
  <2>1. n \in DOMAIN Phases /\ n \in 1 .. 3
    BY <1>1, <1>8, PhasesAre
  <2>2. s \in Checked /\ s \in Stages
    BY <2>1, StagesAre DEF Checked
  <2>3. \A i, j \in DOMAIN Phases : Phases[i] = Phases[j] => i = j
    <3>1. 1 .. 3 = {1, 2, 3}
      OBVIOUS
    <3> QED BY <3>1, PhasesAre
  <2>4. Index(s) = n
    BY <2>1, <2>3
  <2>5. PhaseStatus(n) = "failed"
    BY <1>1, <2>1 DEF PhaseStatus
  <2>6. st[s] = "failed"
    BY <2>2, <2>4, <2>5
  <2> HIDE DEF st, q, s
  <2> QED BY <1>6, <2>2, <2>6 DEF AllPassed
<1> QED BY <1>6, <1>7, <1>8

LEMMA SelfCheckMergesInv ==
    ASSUME BuildInv, NEW w \in Writers, SelfCheckMerges(w)
    PROVE  BuildInv'
<1> DEFINE q == Merged(record)
           vouched == IF Passing THEN checking.plan ELSE None
           image == [by |-> "self_check", record |-> q, vouched |-> vouched,
                     told |-> Nothing, disclosed |-> {}]
<1>1. /\ UNCHANGED <<spec, files, writing, approved, checked, raced, owed>>
      /\ checking # None /\ checking' = None
      /\ UNCHANGED pending \/ (Present(record) /\ Reads(w, image))
  BY DEF SelfCheckMerges
<1>2. CASE UNCHANGED pending
  <2>1. TypeOK' /\ ProcessTypes' /\ Vetted'
    BY <1>1, <1>2 DEF BuildInv, TypeOK, ProcessTypes, Vetted, files, Present
  <2>2. CheckIsOfRecord' /\ RecordKeeps'
    BY <1>1, <1>2 DEF BuildInv, CheckIsOfRecord, RecordKeeps, Passing, files, Present
  <2> QED BY <2>1, <2>2 DEF BuildInv
<1>3. CASE Present(record) /\ Reads(w, image)
  <2>1. /\ q \in Record /\ NoSkips(q) /\ q.from = record.from /\ q.blocked = record.blocked
        /\ q.concessions = record.concessions /\ q.regenerates = record.regenerates
        /\ q.exhausted = record.exhausted
        /\ checking.passed # Len(Phases) => ~AllPassed(q)
    BY <1>1, <1>3, MergedIs
  <2>2. owed \in Owing /\ Keeps(record, owed) /\ Counted(record)
    BY <1>3, OnFile
  <2> HIDE DEF q
  <2>3. vouched \in Vouchers
    BY <1>1 DEF BuildInv, ProcessTypes, Vouchers, Passing
  <2>4. ~raced => Certified(q, vouched)
    BY <1>1, <1>3, <2>1 DEF BuildInv, CheckIsOfRecord, Certified, Passing
  <2> HIDE DEF vouched
  <2>5. image \in Image
    BY <2>1, <2>3, NothingOwed DEF Image
  <2>6. Keeps(q, Told(owed, image, TRUE))
    <3>1. image.by # "record init" /\ image.told = Nothing /\ image.disclosed = {}
      OBVIOUS
    <3> HIDE DEF image
    <3> DEFINE less == Told(owed, image, TRUE)
    <3>2. /\ less \in Owing
          /\ less.conceded = (owed.conceded \ {}) \cup Nothing.conceded
          /\ less.regenerated = owed.regenerated + Nothing.regenerated
      BY <2>2, <2>5, <3>1, ToldFields
    <3>3. /\ less.asked => owed.asked \/ Nothing.asked
          /\ less.cheated => owed.cheated \/ Nothing.cheated
      BY <2>2, <2>5, <3>1, ToldFields
    <3>4. Keeps(q, owed)
      BY <2>1, <2>2 DEF Keeps
    <3> HIDE DEF less
    <3>5. less.conceded \subseteq owed.conceded /\ less.regenerated <= owed.regenerated
      BY <2>2, <3>2, NothingIs, OwedParts
    <3>6. (less.asked => owed.asked) /\ (less.cheated => owed.cheated)
      BY <3>3, NothingIs
    <3>7. Keeps(q, less)
      BY <2>1, <2>2, <3>2, <3>4, <3>5, <3>6, KeepsLess
    <3> QED BY <3>7 DEF less
  <2>7. Counted(q)
    BY <2>1, <2>2 DEF Counted
  <2>8. image.record = q /\ image.vouched = vouched
    OBVIOUS
  <2> HIDE DEF image
  <2> QED BY <1>1, <1>3, <2>1, <2>4, <2>5, <2>6, <2>7, <2>8, ReadsInv
<1> QED BY <1>1, <1>2, <1>3
-----------------------------------------------------------------------------
(* Edits, kills and lock write *)

LEMMA EditSpecInv == ASSUME BuildInv, NEW text \in Text, EditSpec(text) PROVE BuildInv'
<1>0. /\ UNCHANGED <<snapshot, lock, record, writing, checking, pending, checked,
                   raced, owed>>
      /\ spec' = text
      /\ approved' = approved \cup {p \in {text.plan} : text.status = "approved"}
  BY DEF EditSpec, files, processes
<1>1. Vetted'
  BY <1>0 DEF BuildInv, Vetted, Present
<1>2. TypeOK' /\ ProcessTypes'
  BY <1>0 DEF BuildInv, TypeOK, ProcessTypes, Present
<1>3. CheckIsOfRecord' /\ RecordKeeps'
  BY <1>0 DEF BuildInv, CheckIsOfRecord, RecordKeeps, Passing, Present
<1> QED BY <1>1, <1>2, <1>3 DEF BuildInv

LEMMA EditSnapshotInv ==
    ASSUME BuildInv, NEW text \in Tampered, EditSnapshot(text)
    PROVE  BuildInv'
<1>0. /\ UNCHANGED <<spec, lock, record, writing, checking, pending, approved, checked,
                   raced, owed>>
      /\ snapshot' = text
  BY DEF EditSnapshot, processes
<1>1. text \in Text \cup {None}
  BY DEF Tampered, Text
<1>2. TypeOK' /\ ProcessTypes'
  BY <1>0, <1>1 DEF BuildInv, TypeOK, ProcessTypes, Present
<1>3. Vetted' /\ CheckIsOfRecord' /\ RecordKeeps'
  BY <1>0 DEF BuildInv, Vetted, CheckIsOfRecord, RecordKeeps, Passing, Present
<1> QED BY <1>2, <1>3 DEF BuildInv

LEMMA KilledInv == ASSUME BuildInv, Killed PROVE BuildInv'
<1>0. /\ UNCHANGED <<spec, snapshot, lock, record, approved, checked, raced, owed>>
      /\ writing' \in {writing, None} /\ checking' \in {checking, None}
      /\ \/ pending' = pending
         \/ \E w \in Writers : pending' = [pending EXCEPT ![w] = None]
  BY DEF Killed, files
<1>1. pending \in [Writers -> Image \cup {None}]
  BY DEF BuildInv, ProcessTypes
<1>2. /\ pending' \in [Writers -> Image \cup {None}]
      /\ \A v \in Writers : pending'[v] # None => pending'[v] = pending[v]
  BY <1>0, <1>1
<1>3. TypeOK' /\ ProcessTypes' /\ Vetted'
  BY <1>0, <1>2 DEF BuildInv, TypeOK, ProcessTypes, Vetted, Present
<1>4. CheckIsOfRecord' /\ RecordKeeps'
  BY <1>0, <1>2 DEF BuildInv, CheckIsOfRecord, RecordKeeps, Passing, Present
<1> QED BY <1>3, <1>4 DEF BuildInv

LEMMA LockReadsInv == ASSUME BuildInv, LockReads PROVE BuildInv'
<1>0. /\ UNCHANGED <<spec, snapshot, lock, record, checking, pending, approved, checked,
                   raced, owed>>
      /\ writing' = [raw |-> spec, copied |-> FALSE] /\ spec.status = "approved"
  BY DEF LockReads, files
<1>1. writing' \in [raw : Text, copied : BOOLEAN] /\ writing'.raw.plan \in approved
  BY <1>0 DEF BuildInv, TypeOK, Vetted
<1>2. TypeOK' /\ ProcessTypes' /\ Vetted'
  BY <1>0, <1>1 DEF BuildInv, TypeOK, ProcessTypes, Vetted, Present
<1>3. CheckIsOfRecord' /\ RecordKeeps'
  BY <1>0 DEF BuildInv, CheckIsOfRecord, RecordKeeps, Passing, Present
<1> QED BY <1>2, <1>3 DEF BuildInv

LEMMA LockCopiesInv == ASSUME BuildInv, LockCopies PROVE BuildInv'
<1>0. /\ UNCHANGED <<spec, lock, record, checking, pending, approved, checked,
                   raced, owed>>
      /\ snapshot' = spec /\ writing # None /\ writing' = [writing EXCEPT !.copied = TRUE]
  BY DEF LockCopies
<1>1. writing' \in [raw : Text, copied : BOOLEAN] /\ writing'.raw = writing.raw
  BY <1>0 DEF BuildInv, ProcessTypes
<1>2. TypeOK' /\ ProcessTypes' /\ Vetted'
  BY <1>0, <1>1 DEF BuildInv, TypeOK, ProcessTypes, Vetted, Present
<1>3. CheckIsOfRecord' /\ RecordKeeps'
  BY <1>0 DEF BuildInv, CheckIsOfRecord, RecordKeeps, Passing, Present
<1> QED BY <1>2, <1>3 DEF BuildInv

LEMMA LockWritesInv == ASSUME BuildInv, LockWrites PROVE BuildInv'
<1> DEFINE new == [hash |-> writing.raw.plan, bytes |-> snapshot,
                   status |-> writing.raw.status]
<1>0. /\ UNCHANGED <<spec, snapshot, record, checking, pending, approved, checked,
                   raced, owed>>
      /\ writing # None /\ snapshot # None /\ writing' = None /\ lock' \in {new, Torn}
  BY DEF LockWrites
<1>1. Present(lock') => lock' = new
  BY <1>0 DEF Present
<1>2. /\ new.hash = writing.raw.plan /\ new.bytes = snapshot /\ writing.raw.plan \in approved
      /\ new \in [hash : Plans, bytes : Text, status : {"approved", "draft"}]
  BY <1>0 DEF BuildInv, TypeOK, ProcessTypes, Vetted, Text
<1> HIDE DEF new
<1>3. TypeOK'
  BY <1>0, <1>1, <1>2 DEF BuildInv, TypeOK, Present
<1>4. ProcessTypes'
  BY <1>0 DEF BuildInv, ProcessTypes
<1>5. Vetted'
  BY <1>0, <1>1, <1>2 DEF BuildInv, Vetted, Present
<1>6. CheckIsOfRecord'
  BY <1>0 DEF BuildInv, CheckIsOfRecord, Passing, Present
<1>7. RecordKeeps'
  BY <1>0 DEF BuildInv, RecordKeeps, Present
<1> QED BY <1>3, <1>4, <1>5, <1>6, <1>7 DEF BuildInv

LEMMA BuildInvStep == BuildInv /\ [Next]_vars => BuildInv'
<1> SUFFICES ASSUME BuildInv, [Next]_vars PROVE BuildInv'
  OBVIOUS
<1>1. ASSUME NEW w \in Writers, RecordAppend(w) PROVE BuildInv'
  BY <1>1, ReportInv, StatusInv, AttemptInv, ConcessionInv, BlockerInv, DisclosureInv
  DEF RecordAppend
<1>2. ASSUME NEW w \in Writers,
             \/ \E status0 \in {"passed", "failed"} : RecordInit(w, status0)
             \/ SelfCheckMerges(w) \/ WriteRecord(w) \/ SelfCheckReplaces(w)
      PROVE  BuildInv'
  BY <1>2, RecordInitInv, SelfCheckMergesInv, WriteRecordInv, SelfCheckReplacesInv
<1>3. ASSUME \/ \E text \in Text : EditSpec(text)
             \/ \E text \in Tampered : EditSnapshot(text)
             \/ Killed \/ LockReads \/ LockCopies \/ LockWrites
             \/ \E n \in 0 .. Len(Phases) : SelfCheckReads(n)
      PROVE  BuildInv'
  BY <1>3, EditSpecInv, EditSnapshotInv, KilledInv, LockReadsInv, LockCopiesInv,
     LockWritesInv, SelfCheckReadsInv
<1>5. CASE Next
  <2>1. CASE \E w \in Writers :
               \/ \E status0 \in {"passed", "failed"} : RecordInit(w, status0)
               \/ SelfCheckMerges(w) \/ RecordAppend(w)
               \/ WriteRecord(w) \/ SelfCheckReplaces(w)
    BY <1>1, <1>2, <2>1
  <2> QED BY <1>3, <1>5, <2>1 DEF Next
<1>4. CASE UNCHANGED vars
  <2>1. /\ UNCHANGED <<spec, snapshot, lock, record, writing, checking, pending, approved>>
        /\ UNCHANGED <<checked, raced, owed>>
    BY <1>4 DEF vars
  <2>2. TypeOK' /\ ProcessTypes' /\ Vetted'
    BY <2>1 DEF BuildInv, TypeOK, ProcessTypes, Vetted, Present
  <2>3. CheckIsOfRecord' /\ RecordKeeps'
    BY <2>1 DEF BuildInv, CheckIsOfRecord, RecordKeeps, Passing, Present
  <2> QED BY <2>2, <2>3 DEF BuildInv
<1> QED BY <1>4, <1>5
-----------------------------------------------------------------------------
(* What the files promise *)

LEMMA BuildInvImpliesApproved == BuildInv => VerifiedPlanWasApproved
BY DEF BuildInv, Vetted, VerifiedPlanWasApproved, LockIntact

LEMMA BuildInvImpliesChecked == BuildInv => GreenPlanWasChecked
<1> SUFFICES ASSUME BuildInv, ~raced, Present(record), LockVerifies,
                    Materialized(lock, spec.plan), checked # "agent"
             PROVE  checked = lock.hash
  BY DEF GreenPlanWasChecked
<1>1. Present(lock) /\ lock # None
  BY DEF LockVerifies, LockIntact, Present
<1>2. record.from = lock.hash
  BY <1>1 DEF Materialized
<1>3. AllPassed(record)
  BY DEF Materialized, AllPassed, OfflineStages, Green
<1> QED BY <1>2, <1>3 DEF BuildInv, CheckIsOfRecord, Certified

LEMMA BuildInvImpliesOwed == BuildInv => OwedToTheUser
<1> SUFFICES ASSUME BuildInv, Present(record) PROVE OwedToTheUser
  BY DEF OwedToTheUser
<1>1. /\ record \in Record /\ owed \in Owing /\ Keeps(record, owed)
      /\ record.regenerates >= RegenerateTotal => record.exhausted
  BY OnFile DEF Counted
<1>2. ASSUME owed.asked \/ owed.cheated, NEW l \in Locks, NEW live \in Lives
      PROVE  State(l, live) = "needs_user"
  <2>1. record.blocked
    BY <1>1, <1>2 DEF Keeps
  <2>2. ~Materialized(l, live)
    BY <2>1 DEF Materialized
  <2> QED BY <2>1, <2>2 DEF State
<1>3. ASSUME owed.conceded # {}, NEW l \in Locks, NEW live \in Lives
      PROVE  ~Materialized(l, live)
  <2>1. PICK code \in owed.conceded : TRUE
    BY <1>3
  <2>2. PICK c \in record.concessions : ~c.disclosed
    BY <1>1, <2>1 DEF Keeps
  <2>3. c \in Undisclosed
    BY <2>2 DEF Undisclosed
  <2> QED BY <2>3 DEF Materialized
<1>4. owed.regenerated >= RegenerateTotal => record.exhausted
  BY <1>1, CapAssumption DEF Keeps, Owing, Record
<1> QED BY <1>2, <1>3, <1>4 DEF OwedToTheUser
-----------------------------------------------------------------------------
LEMMA BuildInvariant == Spec => []BuildInv
BY BuildInvInit, BuildInvStep, PTL DEF Spec

(* Every file of a build is absent, torn or complete, and no stage that    *)
(* may not be skipped is recorded as skipped (BuildRecord.TypeOK).         *)
THEOREM BuildIsTyped == Spec => []TypeOK
<1>1. BuildInv => TypeOK
  BY DEF BuildInv
<1> QED BY <1>1, BuildInvariant, PTL

(* Whenever lock verify has nothing to report, both the lock and the plan  *)
(* beside it are of a plan that was approved, in whatever order the live   *)
(* specification, the snapshot and the lock were written and edited.       *)
THEOREM LocksAreOfApprovedPlans == Spec => []VerifiedPlanWasApproved
BY BuildInvariant, BuildInvImpliesApproved, PTL

(* A verified lock whose record reads materialized pins a plan that        *)
(* self_check.py passed in that record, unless the agent vouched for a     *)
(* stage of the self-check, the check passed on a lock of two texts, or    *)
(* another plan's record was written before it merged: with any number of  *)
(* processes between their reading and their writing of the record.        *)
THEOREM MaterializedWasChecked == Spec => []GreenPlanWasChecked
BY BuildInvariant, BuildInvImpliesChecked, PTL

(* A record holds an open question, an edited plan, an undisclosed         *)
(* concession or a counted regeneration that it was told while no other    *)
(* process was between its reading and its writing of it, whatever         *)
(* commands and self-checks come after it and however these overlap.       *)
THEOREM DebtsAreRemembered == Spec => []OwedToTheUser
BY BuildInvariant, BuildInvImpliesOwed, PTL
=============================================================================
