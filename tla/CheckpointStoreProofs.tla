---------------------- MODULE CheckpointStoreProofs ----------------------
(***************************************************************************)
(* Proofs about CheckpointStore for every script, content and bound.       *)
(***************************************************************************)
EXTENDS CheckpointStore, WellFoundedInduction, TLAPS

(* A non-empty set of journal positions has a last one, so the backward    *)
(* scan of the journal stops at a line that exists.                        *)
LEMMA LastPosition ==
    ASSUME NEW len \in Nat, NEW S \in SUBSET (1 .. len), S # {}
    PROVE  \E i \in S : \A j \in S : j <= i
<1> DEFINE T == {k \in Nat : len - k \in S}
<1>1. T \subseteq Nat /\ T # {}
  <2>1. PICK i \in S : TRUE
    OBVIOUS
  <2>2. len - i \in Nat /\ len - (len - i) = i
    BY <2>1
  <2> QED BY <2>1, <2>2
<1>2. PICK k \in T : \A m \in T : ~ (<<m, k>> \in OpToRel(<, Nat))
  BY <1>1, NatLessThanWellFounded, WFMin
<1>3. \A m \in T : k <= m
  <2> SUFFICES ASSUME NEW m \in T, ~ (k <= m)
               PROVE  FALSE
    OBVIOUS
  <2>1. m \in Nat /\ k \in Nat
    BY <1>1
  <2>2. <<m, k>> \in Nat \X Nat /\ m < k
    BY <2>1
  <2>3. <<m, k>> \in OpToRel(<, Nat)
    BY <2>2 DEF OpToRel
  <2> QED BY <2>3, <1>2
<1>4. \A j \in S : len - j \in T
  <2> TAKE j \in S
  <2>1. len - j \in Nat /\ len - (len - j) = j
    OBVIOUS
  <2> QED BY <2>1
<1>5. \A j \in S : j <= len - k
  <2> TAKE j \in S
  <2>1. k <= len - j
    BY <1>3, <1>4
  <2> QED BY <2>1, <1>1
<1> QED BY <1>5, <1>1

(* A table with one more file, one file, or one file fewer.                *)
LEMMA FileTables ==
    ASSUME NEW f, NEW n, NEW x
    PROVE  /\ DOMAIN With(f, n, x) = DOMAIN f \cup {n}
           /\ With(f, n, x)[n] = x
           /\ \A m \in DOMAIN f : m # n => With(f, n, x)[m] = f[m]
           /\ DOMAIN Only(n, x) = {n} /\ Only(n, x)[n] = x
           /\ DOMAIN Without(f, n) = DOMAIN f \ {n}
           /\ \A m \in DOMAIN f \ {n} : Without(f, n)[m] = f[m]
BY DEF With, Only, Without

LEMMA PrefixFilesWith ==
    ASSUME NEW f, PrefixFiles(f), NEW t \in Seq(Content), Len(t) \in Turn
    PROVE  PrefixFiles(With(f, Len(t), t))
BY DEF PrefixFiles, With

LEMMA StateFilesWith ==
    ASSUME NEW f, StateFiles(f), NEW s \in CheckpointState
    PROVE  /\ StateFiles(With(f, s.turn, s))
           /\ StateFiles(Only(s.turn, s))
BY DEF StateFiles, CheckpointState, With, Only

(* Whatever a reader finds, it is a checkpoint state whose payload covers  *)
(* exactly its turns, or no checkpoint at all.                             *)
LEMMA ValidChainType ==
    ASSUME TypeOK, NEW s \in CheckpointState, ValidChain(s)
    PROVE  Len(s.payload) = s.turn
BY DEF TypeOK, ValidChain, Continues, PrefixDigestMatches, PrefixFiles

(* The states on disk: those of the records and of the journal's lines.    *)
Stored == {records[n] : n \in DOMAIN records} \cup UNION {journal[i] : i \in DOMAIN journal}

LEMMA StoredType ==
    ASSUME TypeOK
    PROVE  Stored \subseteq CheckpointState
BY DEF TypeOK, Stored, StateFiles

LEMMA LatestIsStored ==
    ASSUME TypeOK
    PROVE  /\ Latest \in Stored \cup {EmptyPrefix}
           /\ Latest # EmptyPrefix => ValidChain(Latest)
<1>1. CASE PointerValid
  <2>1. PICK n \in DOMAIN pointer : n \in DOMAIN records /\ ValidChain(records[n])
    BY <1>1 DEF PointerValid
  <2>2. (CHOOSE m \in DOMAIN pointer : TRUE) = n
    BY <2>1 DEF TypeOK
  <2>3. Latest = records[n]
    BY <1>1, <2>2 DEF Latest
  <2> QED BY <2>1, <2>3 DEF Stored
<1>2. CASE ~PointerValid /\ JournalCandidates = {}
  BY <1>2 DEF Latest, RecoverFromJournal
<1>3. CASE ~PointerValid /\ JournalCandidates # {}
  <2>1. journal \in Seq(SUBSET CheckpointState)
    BY DEF TypeOK
  <2>2. Len(journal) \in Nat /\ JournalCandidates \in SUBSET (1 .. Len(journal))
    BY <2>1 DEF JournalCandidates
  <2>3. \E i \in JournalCandidates : \A j \in JournalCandidates : j <= i
    BY <2>2, <1>3, LastPosition
  <2>4. NewestCandidate \in JournalCandidates
    BY <2>3 DEF NewestCandidate
  <2>5. /\ NewestCandidate \in 1 .. Len(journal)
        /\ \E s \in journal[NewestCandidate] : ValidChain(s)
    BY <2>2, <2>4 DEF JournalCandidates
  <2>6. journal[NewestCandidate] \subseteq Stored
    BY <2>1, <2>5 DEF Stored
  <2>7. /\ RecoverFromJournal \in journal[NewestCandidate]
        /\ ValidChain(RecoverFromJournal)
    BY <1>3, <2>5 DEF RecoverFromJournal
  <2> QED BY <1>3, <2>6, <2>7 DEF Latest
<1> QED BY <1>1, <1>2, <1>3

LEMMA LatestType ==
    ASSUME TypeOK
    PROVE  /\ Latest \in CheckpointState \cup {EmptyPrefix}
           /\ Latest # EmptyPrefix => ValidChain(Latest)
BY LatestIsStored, StoredType

LEMMA SelectedType ==
    ASSUME TypeOK, NEW n \in 0 .. MaxTurn, Selected(n) # EmptyPrefix
    PROVE  /\ Selected(n) \in CheckpointState
           /\ Len(Selected(n).payload) = Selected(n).turn
<1>1. Selected(n) \in CheckpointState /\ ValidChain(Selected(n))
  BY LatestType DEF Selected, TypeOK, StateFiles
<1> QED BY <1>1, ValidChainType
-----------------------------------------------------------------------------
(* Type correctness *)

LEMMA TypeOKInit == Init => TypeOK
<1> SUFFICES ASSUME Init PROVE TypeOK
  OBVIOUS
<1>1. DOMAIN <<>> = {}
  OBVIOUS
<1>2. /\ PrefixFiles(payloads) /\ PrefixFiles(snapshots)
      /\ StateFiles(records) /\ StateFiles(pointer)
      /\ \A m, n \in DOMAIN pointer : m = n
  BY <1>1 DEF Init, PrefixFiles, StateFiles
<1>3. journal \in Seq(SUBSET CheckpointState) /\ unended = FALSE
  BY DEF Init
<1>4. turns \in Seq(Content) /\ Len(turns) = 0 /\ pc = "down"
  BY DEF Init
<1>5. /\ crashes \in 0 .. MaxCrash /\ losses \in 0 .. MaxLoss
      /\ damages \in 0 .. MaxDamage /\ skips \in 0 .. MaxSkip
      /\ acked \in 0 .. MaxTurn /\ clean \in BOOLEAN
      /\ Len(turns) \in 0 .. MaxTurn
      /\ identity \in SUBSET Identity
  BY <1>4, BoundsAssumption DEF Init
<1> QED BY <1>2, <1>3, <1>4, <1>5 DEF TypeOK, Persisting

(* The turn and the prefix a commit continues.                             *)
LEMMA LatestFields ==
    ASSUME TypeOK
    PROVE  Latest.turn \in 0 .. MaxTurn /\ Latest.prefix \in Seq(Seq(Content))
<1>1. CASE Latest = EmptyPrefix
  <2>1. EmptyPrefix.turn = 0 /\ EmptyPrefix.prefix = <<>>
    BY DEF EmptyPrefix
  <2> QED BY <1>1, <2>1, BoundsAssumption
<1>2. CASE Latest \in CheckpointState
  BY <1>2, BoundsAssumption DEF CheckpointState, Turn
<1> QED BY <1>1, <1>2, LatestType

(* The state a commit writes is a checkpoint state of the committed turn.  *)
LEMMA NewStateType ==
    ASSUME TypeOK, TurnNo \in Turn, NEW status \in Statuses
    PROVE  NewState(status) \in CheckpointState
<1>1. turns \in Seq(Content)
  BY DEF TypeOK
<1>2. Append(Latest.prefix, turns) \in Seq(Seq(Content))
  BY LatestFields, <1>1
<1> QED BY LatestFields, <1>1, <1>2 DEF NewState, CheckpointState

(* A line joins the journal, or replaces its unended last line.            *)
LEMMA AppendLineType ==
    ASSUME TypeOK, NEW line \in SUBSET CheckpointState
    PROVE  /\ AppendLine(line) \in Seq(SUBSET CheckpointState)
           /\ AppendLine(line) # <<>>
BY DEF TypeOK, AppendLine, Front

LEMMA TypeOKStep == TypeOK /\ [Next]_vars => TypeOK'
<1> SUFFICES ASSUME TypeOK, [Next]_vars
             PROVE  TypeOK'
  OBVIOUS
<1> USE BoundsAssumption DEF TypeOK, Persisting, Turn, files, history
<1>1. ASSUME NEW i \in Identity, StartFresh(i) PROVE TypeOK'
  BY <1>1 DEF StartFresh, PrefixFiles, StateFiles
<1>2. ASSUME NEW i \in Identity, NEW n \in 0 .. MaxTurn, Resume(i, n)
      PROVE  TypeOK'
  <2>1. Selected(n).payload \in Seq(Content) /\ Len(Selected(n).payload) \in 0 .. MaxTurn
    BY <1>2, SelectedType DEF Resume, AcceptsResume, CheckpointState
  <2> QED BY <1>2, <2>1 DEF Resume, PrefixFiles, StateFiles
<1>3. ASSUME NEW c \in Content, TurnCompletes(c) PROVE TypeOK'
  BY <1>3 DEF TurnCompletes, PrefixFiles, StateFiles, TurnNo
<1>4. ASSUME NEW c \in Content, TurnInFlight(c) PROVE TypeOK'
  BY <1>4 DEF TurnInFlight, PrefixFiles, StateFiles, TurnNo
<1>5. CASE SessionEnds
  BY <1>5 DEF SessionEnds, PrefixFiles, StateFiles
<1>6. CASE WritePayload
  <2>1. PrefixFiles(With(payloads, TurnNo, turns))
    BY <1>6, PrefixFilesWith DEF WritePayload, TurnNo
  <2> QED BY <1>6, <2>1 DEF WritePayload, PrefixFiles, StateFiles, TurnNo
<1>7. CASE WriteSnapshot
  <2>1. PrefixFiles(With(snapshots, TurnNo, turns))
    BY <1>7, PrefixFilesWith DEF WriteSnapshot, TurnNo
  <2> QED BY <1>7, <2>1 DEF WriteSnapshot, PrefixFiles, StateFiles, TurnNo
<1>8. CASE CommitRecord
  <2>1. PICK status \in Statuses : records' = With(records, TurnNo, NewState(status))
    BY <1>8 DEF CommitRecord
  <2>2. NewState(status) \in CheckpointState /\ NewState(status).turn = TurnNo
    BY <1>8, NewStateType DEF CommitRecord, NewState
  <2>3. StateFiles(records')
    BY <2>1, <2>2, StateFilesWith
  <2>4. DOMAIN records' = DOMAIN records \cup {TurnNo}
    BY <2>1 DEF With
  <2> QED BY <1>8, <2>3, <2>4 DEF CommitRecord, PrefixFiles, StateFiles, TurnNo
<1>9. CASE CommitJournal
  <2>1. AppendLine({records[TurnNo]}) \in Seq(SUBSET CheckpointState)
    BY <1>9, AppendLineType DEF CommitJournal, StateFiles
  <2> QED BY <1>9, <2>1 DEF CommitJournal, PrefixFiles, StateFiles, TurnNo
<1>10. CASE CommitPointer
  <2>0. records[TurnNo] \in CheckpointState /\ records[TurnNo].turn = TurnNo
    BY <1>10 DEF CommitPointer, StateFiles
  <2>1. StateFiles(Only(TurnNo, records[TurnNo]))
    <3>1. StateFiles(Only(records[TurnNo].turn, records[TurnNo]))
      BY <2>0, StateFilesWith
    <3> QED BY <2>0, <3>1
  <2>2. DOMAIN Only(TurnNo, records[TurnNo]) = {TurnNo}
    BY DEF Only
  <2> QED BY <1>10, <2>1, <2>2 DEF CommitPointer, PrefixFiles, StateFiles, TurnNo
<1>11. CASE PersistRefused
  BY <1>11 DEF PersistRefused, PrefixFiles, StateFiles
<1>12. ASSUME NEW tear \in Tears, CrashDuringAppend(tear) PROVE TypeOK'
  <2>1. (IF tear = "line" THEN {} ELSE {records[TurnNo]}) \in SUBSET CheckpointState
    BY <1>12 DEF CrashDuringAppend, StateFiles
  <2>2. journal' \in Seq(SUBSET CheckpointState) /\ journal' # <<>>
    BY <1>12, <2>1, AppendLineType DEF CrashDuringAppend
  <2>3. PrefixFiles(payloads') /\ PrefixFiles(snapshots')
        /\ StateFiles(records') /\ StateFiles(pointer')
        /\ \A m, n \in DOMAIN pointer' : m = n
    BY <1>12 DEF CrashDuringAppend, PrefixFiles, StateFiles
  <2>4. /\ turns' \in Seq(Content) /\ Len(turns') \in 0 .. MaxTurn
        /\ pc' = "down" /\ unended' = TRUE
        /\ crashes' \in 0 .. MaxCrash /\ clean' = FALSE
    BY <1>12 DEF CrashDuringAppend
  <2> QED BY <1>12, <2>2, <2>3, <2>4 DEF CrashDuringAppend, PrefixFiles, StateFiles
<1>13. CASE Crash
  BY <1>13 DEF Crash, PrefixFiles, StateFiles
<1>14. CASE LosePointer
  BY <1>14 DEF LosePointer, PrefixFiles, StateFiles, TurnNo
<1>15. ASSUME NEW n \in Turn, LoseRecord(n) PROVE TypeOK'
  <2>1. StateFiles(Without(records, n))
    BY DEF StateFiles, Without
  <2> QED BY <1>15, <2>1 DEF LoseRecord, PrefixFiles, StateFiles
<1>16. CASE UNCHANGED vars
  BY <1>16 DEF vars, PrefixFiles, StateFiles, TurnNo
<1> QED
  BY <1>1, <1>2, <1>3, <1>4, <1>5, <1>6, <1>7, <1>8, <1>9, <1>10, <1>11, <1>12,
     <1>13, <1>14, <1>15, <1>16 DEF Next

(* The files, the journal and the session keep their types for every       *)
(* script length, content and number of crashes and losses.                *)
THEOREM TypeCorrect == Spec => []TypeOK
<1>1. Init => TypeOK
  BY TypeOKInit
<1>2. TypeOK /\ [Next]_vars => TypeOK'
  BY TypeOKStep
<1> QED BY <1>1, <1>2, PTL DEF Spec
-----------------------------------------------------------------------------
(* Durability of acknowledged turns *)

\* The journal lines that decode: all, or all but an unended last one.
Lines == IF unended THEN Len(journal) - 1 ELSE Len(journal)

\* The i-th line is the commit of turn i, on disk with a valid link.
JournalIsChain ==
    \A i \in 1 .. Lines :
        i \in DOMAIN records /\ journal[i] = {records[i]} /\ Continues(records[i])

\* A torn line is last, and the record it was to announce keeps its turn
\* number taken, so no line is ever added behind it.
TornLineIsLast ==
    unended => Len(journal) \in DOMAIN records /\ journal[Len(journal)] = {}

\* latest.json, where present, is at or past the acknowledged turn and names a
\* journalled record.
PointerInJournal ==
    /\ acked <= Lines
    /\ \A n \in DOMAIN pointer :
          n \in 1 .. Lines /\ pointer[n] = records[n] /\ acked <= n

\* What a persist has already written.
PersistProgress ==
    /\ pc \in {"snapshot", "commit", "journal", "pointer"} =>
          TurnNo \in DOMAIN payloads /\ payloads[TurnNo] = turns
    /\ pc = "journal" =>
          ~unended /\ TurnNo = Len(journal) + 1 /\ Continues(records[TurnNo])
    /\ pc = "pointer" => ~unended /\ TurnNo = Len(journal)

\* No crash has left a line without only its newline.
LinesStayWhole == clean \/ "newline" \notin Tears

DurableInv ==
    losses = 0 /\ LinesStayWhole =>
        JournalIsChain /\ TornLineIsLast /\ PointerInJournal /\ PersistProgress

LEMMA LinesType ==
    ASSUME TypeOK
    PROVE  /\ Len(journal) \in Nat /\ Lines \in Nat
           /\ DOMAIN journal = 1 .. Len(journal)
           /\ Lines <= Len(journal)
<1>1. Len(journal) \in Nat /\ DOMAIN journal = 1 .. Len(journal)
  BY DEF TypeOK
<1>2. unended => Len(journal) > 0
  BY DEF TypeOK
<1>3. CASE unended
  <2>1. Lines = Len(journal) - 1
    BY <1>3 DEF Lines
  <2> QED BY <1>1, <1>2, <1>3, <2>1
<1>4. CASE ~unended
  <2>1. Lines = Len(journal)
    BY <1>4 DEF Lines
  <2> QED BY <1>1, <1>4, <2>1
<1> QED BY <1>3, <1>4

LEMMA JournalChainIsValid ==
    ASSUME TypeOK, JournalIsChain, NEW k \in 1 .. Lines
    PROVE  k \in DOMAIN records /\ records[k].turn = k /\ ValidChain(records[k])
<1>1. k \in DOMAIN records /\ Continues(records[k])
  BY DEF JournalIsChain
<1>2. records[k].turn = k
  BY <1>1 DEF TypeOK, StateFiles
<1>3. \A m \in 1 .. (k - 1) : m \in DOMAIN records /\ Continues(records[m])
  BY LinesType DEF JournalIsChain
<1> QED BY <1>1, <1>2, <1>3 DEF ValidChain

(* latest() returns what latest.json names, or else the record of the last *)
(* line that decodes.                                                      *)
LEMMA LatestIs ==
    ASSUME TypeOK, JournalIsChain, TornLineIsLast, PointerInJournal
    PROVE  /\ DOMAIN pointer = {} => Latest = Record(Lines)
           /\ \A n \in DOMAIN pointer : Latest = Record(n) /\ n \in 1 .. Lines
<1>0. acked \in Nat /\ Lines \in Nat /\ acked <= Lines
  BY LinesType DEF TypeOK, PointerInJournal
<1>1. ASSUME NEW n \in DOMAIN pointer
      PROVE  Latest = Record(n) /\ n \in 1 .. Lines
  <2>2. n \in 1 .. Lines /\ pointer[n] = records[n] /\ acked <= n
    BY <1>1 DEF PointerInJournal
  <2>3. n \in DOMAIN records /\ ValidChain(records[n])
    BY <2>2, JournalChainIsValid
  <2>4. PointerValid
    BY <1>1, <2>2, <2>3 DEF PointerValid
  <2>5. (CHOOSE m \in DOMAIN pointer : TRUE) = n
    BY <1>1 DEF TypeOK
  <2>6. Latest = records[n] /\ Record(n) = records[n]
    <3>1. Latest = records[n]
      BY <2>4, <2>5, Zenon DEF Latest
    <3>2. n # 0
      BY <1>0, <2>2
    <3> QED BY <3>1, <3>2 DEF Record
  <2> QED BY <2>2, <2>6
<1>2. CASE DOMAIN pointer = {}
  <2>1. Latest = RecoverFromJournal
    BY <1>2 DEF Latest, PointerValid
  <2>2. \A i \in JournalCandidates : i \in 1 .. Lines
    <3> TAKE i \in JournalCandidates
    <3>1. i \in 1 .. Len(journal) /\ journal[i] # {}
      BY LinesType DEF JournalCandidates
    <3>2. CASE unended
      BY <3>1, <3>2, LinesType DEF TornLineIsLast, Lines
    <3>3. CASE ~unended
      BY <3>1, <3>3, LinesType DEF Lines
    <3> QED BY <3>2, <3>3
  <2>3. \A i \in 1 .. Lines : i \in JournalCandidates
    BY LinesType, JournalChainIsValid DEF JournalCandidates, JournalIsChain
  <2>4. CASE Lines = 0
    <3>1. JournalCandidates = {}
      BY <2>2, <2>4
    <3>2. Latest = Record(0)
      BY <2>1, <3>1 DEF RecoverFromJournal, Record
    <3> QED BY <1>2, <2>4, <3>2
  <2>5. CASE Lines # 0
    <3>1. Lines \in JournalCandidates /\ \A j \in JournalCandidates : j <= Lines
      BY <1>0, <2>2, <2>3, <2>5
    <3>2. \A i \in JournalCandidates :
             (\A j \in JournalCandidates : j <= i) => i = Lines
      BY <1>0, <2>2, <3>1
    <3>3. NewestCandidate = Lines
      BY <3>1, <3>2 DEF NewestCandidate
    <3>4. journal[Lines] = {records[Lines]} /\ ValidChain(records[Lines])
      BY <1>0, <2>5, JournalChainIsValid DEF JournalIsChain
    <3>5. RecoverFromJournal = records[Lines]
      BY <3>1, <3>3, <3>4 DEF RecoverFromJournal
    <3> QED BY <1>0, <1>2, <2>1, <2>5, <3>5 DEF Record
  <2> QED BY <2>4, <2>5
<1> QED BY <1>1, <1>2

(* So the turn it returns is at or past every acknowledged turn.           *)
LEMMA LatestValue ==
    ASSUME TypeOK, JournalIsChain, TornLineIsLast, PointerInJournal
    PROVE  \E k \in acked .. Lines : Latest = Record(k)
<1>1. acked \in Nat /\ Lines \in Nat /\ acked <= Lines
  BY LinesType DEF TypeOK, PointerInJournal
<1>2. CASE DOMAIN pointer = {}
  BY <1>1, <1>2, LatestIs
<1>3. CASE DOMAIN pointer # {}
  <2>1. PICK n \in DOMAIN pointer : TRUE
    BY <1>3
  <2>2. Latest = Record(n) /\ n \in 1 .. Lines /\ acked <= n
    BY <2>1, LatestIs DEF PointerInJournal
  <2>3. n \in acked .. Lines
    BY <1>1, <2>2
  <2> QED BY <2>2, <2>3
<1> QED BY <1>2, <1>3

LEMMA DurableInvImpliesAcked ==
    ASSUME "newline" \notin Tears
    PROVE  TypeOK /\ DurableInv => AckedDurable
<1> SUFFICES ASSUME TypeOK, DurableInv, losses = 0
             PROVE  acked <= Latest.turn
  BY DEF AckedDurable
<1>0. JournalIsChain /\ TornLineIsLast /\ PointerInJournal
  BY DEF DurableInv, LinesStayWhole
<1>1. PICK k \in acked .. Lines : Latest = Record(k)
  BY <1>0, LatestValue
<1>2. acked \in Nat /\ Lines \in Nat
  BY LinesType DEF TypeOK
<1>3. Record(k).turn = k
  <2>1. CASE k = 0
    BY <2>1 DEF Record, EmptyPrefix
  <2>2. CASE k # 0
    BY <1>0, <1>1, <1>2, <2>2, JournalChainIsValid DEF Record
  <2> QED BY <2>1, <2>2
<1> QED BY <1>1, <1>2, <1>3

\* No payload or record that exists is changed or removed.
FilesKept ==
    /\ \A n \in DOMAIN payloads :
          n \in DOMAIN payloads' /\ payloads'[n] = payloads[n]
    /\ \A n \in DOMAIN records :
          n \in DOMAIN records' /\ records'[n] = records[n]

(* A link of the chain survives every step that keeps the files.           *)
LEMMA LinkKept ==
    ASSUME TypeOK, FilesKept, NEW i \in DOMAIN records, Continues(records[i])
    PROVE  Continues(records[i])'
<1>1. records'[i] = records[i]
  BY DEF FilesKept
<1>2. records[i].parent # 0 =>
         /\ records[i].parent \in DOMAIN records'
         /\ records'[records[i].parent] = records[records[i].parent]
  BY DEF Continues, HasRecord, FilesKept
<1>3. /\ HasRecord(records[i].parent)'
      /\ Record(records[i].parent)' = Record(records[i].parent)
  BY <1>1, <1>2 DEF HasRecord, Record
<1>4. PrefixDigestMatches(records[i], Record(records[i].parent).prefix)'
  BY <1>1, <1>3 DEF Continues, PrefixDigestMatches, FilesKept
<1> QED BY <1>1, <1>3, <1>4 DEF Continues

(* With the journal unchanged, the chain survives.                         *)
LEMMA ChainKept ==
    ASSUME TypeOK, FilesKept, JournalIsChain, TornLineIsLast,
           UNCHANGED <<journal, unended>>
    PROVE  JournalIsChain' /\ TornLineIsLast' /\ Lines' = Lines
<1>1. Lines' = Lines
  BY DEF Lines
<1>2. ASSUME NEW i \in 1 .. Lines
      PROVE  i \in DOMAIN records' /\ journal'[i] = {records'[i]} /\ Continues(records[i])'
  <2>1. i \in DOMAIN records /\ journal[i] = {records[i]} /\ Continues(records[i])
    BY DEF JournalIsChain
  <2>2. Continues(records[i])'
    BY <2>1, LinkKept
  <2> QED BY <2>1, <2>2 DEF FilesKept
<1>3. JournalIsChain'
  BY <1>1, <1>2 DEF JournalIsChain
<1>4. TornLineIsLast'
  BY DEF TornLineIsLast, FilesKept
<1> QED BY <1>1, <1>3, <1>4

(* A step that changes no payload, record, journal line or pointer keeps   *)
(* everything but the progress of a persist.                               *)
LEMMA ReadersUnaffected ==
    ASSUME TypeOK, JournalIsChain, TornLineIsLast, PointerInJournal,
           UNCHANGED <<payloads, records, journal, unended, pointer, acked>>
    PROVE  FilesKept /\ JournalIsChain' /\ TornLineIsLast' /\ PointerInJournal'
<1>1. FilesKept
  BY DEF FilesKept
<1>2. JournalIsChain' /\ TornLineIsLast' /\ Lines' = Lines
  BY <1>1, ChainKept
<1> QED BY <1>1, <1>2 DEF PointerInJournal

(* A persist that is allowed to commit stands right behind the journal:    *)
(* latest() is its last line, that line is not torn, and the new state     *)
(* continues it.                                                           *)
LEMMA CommitBehindJournal ==
    ASSUME TypeOK, JournalIsChain, TornLineIsLast, PointerInJournal,
           TurnNo \in Turn, CommitAllowed
    PROVE  ~unended /\ TurnNo = Len(journal) + 1 /\ Latest = Record(TurnNo - 1)
<1>1. PICK k \in acked .. Lines : Latest = Record(k)
  BY LatestValue
<1>2. acked \in Nat /\ Lines \in Nat /\ k \in 0 .. Lines
  BY <1>1, LinesType DEF TypeOK
<1>3. Record(k).turn = k
  <2>1. CASE k = 0
    BY <2>1 DEF Record, EmptyPrefix
  <2>2. CASE k # 0
    BY <1>2, <2>2, JournalChainIsValid DEF Record
  <2> QED BY <2>1, <2>2
<1>4. TurnNo = k + 1 /\ TurnNo \notin DOMAIN records
  BY <1>1, <1>3 DEF CommitAllowed
<1>5. k = Lines
  <2>1. ~ (k < Lines)
    BY <1>2, <1>4 DEF JournalIsChain
  <2> QED BY <1>2, <2>1
<1>6. ~unended
  <2> SUFFICES ASSUME unended PROVE FALSE
    OBVIOUS
  <2>1. Lines = Len(journal) - 1 /\ Len(journal) \in DOMAIN records
    BY DEF Lines, TornLineIsLast
  <2> QED BY <1>2, <1>4, <1>5, <2>1, LinesType
<1>7. Lines = Len(journal)
  BY <1>6 DEF Lines
<1>8. TurnNo - 1 = k
  BY <1>2, <1>4
<1> QED BY <1>1, <1>4, <1>5, <1>6, <1>7, <1>8

LEMMA DurableInvInit == Init => DurableInv
<1> SUFFICES ASSUME Init PROVE DurableInv
  OBVIOUS
<1>1. Lines = 0 /\ DOMAIN pointer = {} /\ acked = 0 /\ ~unended /\ pc = "down"
  BY DEF Init, Lines
<1>2. JournalIsChain /\ TornLineIsLast /\ PointerInJournal /\ PersistProgress
  BY <1>1 DEF JournalIsChain, TornLineIsLast, PointerInJournal, PersistProgress
<1> QED BY <1>2 DEF DurableInv

LEMMA DurableInvStep == TypeOK /\ DurableInv /\ [Next]_vars => DurableInv'
<1> SUFFICES ASSUME TypeOK, DurableInv, [Next]_vars, losses' = 0, LinesStayWhole'
             PROVE  (JournalIsChain /\ TornLineIsLast /\ PointerInJournal /\ PersistProgress)'
  BY DEF DurableInv
<1>0. losses = 0
  <2>1. losses \in Nat /\ (losses' = losses \/ losses' = losses + 1)
    BY BoundsAssumption
       DEF TypeOK, Next, vars, history, files, StartFresh, Resume, TurnCompletes,
           TurnInFlight, SessionEnds, WritePayload, WriteSnapshot, CommitRecord,
           CommitJournal, CommitPointer, PersistRefused, CrashDuringAppend, Crash,
           LosePointer, LoseRecord
  <2> QED BY <2>1
<1>b. LinesStayWhole
  <2>1. clean' => clean
    BY DEF Next, vars, history, files, StartFresh, Resume, TurnCompletes, TurnInFlight,
           SessionEnds, WritePayload, WriteSnapshot, CommitRecord, CommitJournal,
           CommitPointer, PersistRefused, CrashDuringAppend, Crash, LosePointer,
           LoseRecord
  <2> QED BY <2>1 DEF LinesStayWhole
<1>a. JournalIsChain /\ TornLineIsLast /\ PointerInJournal /\ PersistProgress
  BY <1>0, <1>b DEF DurableInv
<1> USE <1>a
<1>1. ASSUME NEW i \in Identity, StartFresh(i)
      PROVE  (JournalIsChain /\ TornLineIsLast /\ PointerInJournal /\ PersistProgress)'
  <2>1. (JournalIsChain /\ TornLineIsLast /\ PointerInJournal)'
    BY <1>1, ReadersUnaffected DEF StartFresh, history
  <2> QED BY <1>1, <2>1 DEF StartFresh, PersistProgress
<1>2. ASSUME NEW i \in Identity, NEW n \in 0 .. MaxTurn, Resume(i, n)
      PROVE  (JournalIsChain /\ TornLineIsLast /\ PointerInJournal /\ PersistProgress)'
  <2>1. (JournalIsChain /\ TornLineIsLast /\ PointerInJournal)'
    BY <1>2, ReadersUnaffected DEF Resume, files, history
  <2> QED BY <1>2, <2>1 DEF Resume, PersistProgress
<1>3. ASSUME NEW c \in Content, TurnCompletes(c) \/ TurnInFlight(c)
      PROVE  (JournalIsChain /\ TornLineIsLast /\ PointerInJournal /\ PersistProgress)'
  <2>1. (JournalIsChain /\ TornLineIsLast /\ PointerInJournal)'
    BY <1>3, ReadersUnaffected DEF TurnCompletes, TurnInFlight, files, history
  <2> QED BY <1>3, <2>1 DEF TurnCompletes, TurnInFlight, PersistProgress
<1>4. CASE SessionEnds \/ PersistRefused \/ Crash
  <2>1. (JournalIsChain /\ TornLineIsLast /\ PointerInJournal)'
    BY <1>4, ReadersUnaffected DEF SessionEnds, PersistRefused, Crash, files, history
  <2>2. pc' = "down"
    BY <1>4 DEF SessionEnds, PersistRefused, Crash
  <2> QED BY <2>1, <2>2 DEF PersistProgress
<1>5. CASE WritePayload
  <2>1. FilesKept
    BY <1>5 DEF WritePayload, FilesKept, With
  <2>2. JournalIsChain' /\ TornLineIsLast' /\ Lines' = Lines
    BY <1>5, <2>1, ChainKept DEF WritePayload
  <2>3. PointerInJournal'
    BY <1>5, <2>2 DEF WritePayload, PointerInJournal, history
  <2>4. /\ TurnNo' = TurnNo /\ turns' = turns
        /\ TurnNo \in DOMAIN payloads' /\ payloads'[TurnNo] = turns
        /\ pc' \in {"snapshot", "commit"}
    BY <1>5 DEF WritePayload, With, TurnNo
  <2> QED BY <2>2, <2>3, <2>4 DEF PersistProgress
<1>6. CASE WriteSnapshot
  <2>1. (JournalIsChain /\ TornLineIsLast /\ PointerInJournal)'
    BY <1>6, ReadersUnaffected DEF WriteSnapshot, history
  <2> QED BY <1>6, <2>1 DEF WriteSnapshot, PersistProgress, TurnNo
<1>7. CASE CommitRecord
  <2>1. PICK status \in Statuses : records' = With(records, TurnNo, NewState(status))
    BY <1>7 DEF CommitRecord
  <2>2. TurnNo \in Turn /\ TurnNo \notin DOMAIN records /\ CommitAllowed
    BY <1>7 DEF CommitRecord, CommitAllowed, TypeOK, Persisting
  <2>3. ~unended /\ TurnNo = Len(journal) + 1 /\ Latest = Record(TurnNo - 1)
    BY <2>2, CommitBehindJournal
  <2>4. FilesKept
    BY <1>7, <2>1, <2>2 DEF CommitRecord, FilesKept, With
  <2>5. JournalIsChain' /\ TornLineIsLast' /\ Lines' = Lines
    BY <1>7, <2>4, ChainKept DEF CommitRecord
  <2>6. PointerInJournal'
    <3>1. UNCHANGED <<pointer, acked>>
      BY <1>7 DEF CommitRecord, history
    <3>2. \A n \in 1 .. Lines : records'[n] = records[n]
      BY <2>4 DEF JournalIsChain, FilesKept
    <3> QED BY <2>5, <3>1, <3>2 DEF PointerInJournal
  <2>7. /\ TurnNo' = TurnNo /\ turns' = turns /\ payloads' = payloads
        /\ records'[TurnNo] = NewState(status) /\ pc' = "journal"
        /\ UNCHANGED <<journal, unended>>
    BY <1>7, <2>1 DEF CommitRecord, With, TurnNo
  <2>8. Continues(records[TurnNo])'
    <3>1. Latest.turn = TurnNo - 1 /\ Latest.status = "complete"
      BY <2>2, LatestFields, BoundsAssumption DEF CommitAllowed, Turn
    <3>2. NewState(status).parent = TurnNo - 1 /\ NewState(status).turn = TurnNo
          /\ NewState(status).payload = turns
          /\ NewState(status).prefix = Append(Latest.prefix, turns)
      BY <3>1 DEF NewState
    <3>3. TurnNo - 1 # 0 => TurnNo - 1 \in 1 .. Lines
      BY <2>2, <2>3, LinesType DEF Lines, Turn
    <3>4. HasRecord(TurnNo - 1)' /\ Record(TurnNo - 1)' = Record(TurnNo - 1)
      BY <2>4, <2>7, <3>3 DEF HasRecord, Record, JournalIsChain, FilesKept
    <3>5. TurnNo \in DOMAIN payloads /\ payloads[TurnNo] = turns
      BY <1>7 DEF PersistProgress, CommitRecord
    <3>6. TurnNo = (TurnNo - 1) + 1
      BY <2>2 DEF Turn
    <3> QED
      BY <2>3, <2>7, <3>1, <3>2, <3>4, <3>5, <3>6 DEF Continues, PrefixDigestMatches
  <2> QED BY <1>7, <2>3, <2>5, <2>6, <2>7, <2>8 DEF CommitRecord, PersistProgress
<1>8. CASE CommitJournal
  <2>1. ~unended /\ TurnNo = Len(journal) + 1 /\ Continues(records[TurnNo])
        /\ TurnNo \in DOMAIN records
    BY <1>8 DEF CommitJournal, PersistProgress, TypeOK
  <2>2. journal' = Append(journal, {records[TurnNo]}) /\ ~unended' /\ pc' = "pointer"
    BY <1>8, <2>1 DEF CommitJournal, AppendLine
  <2>3. /\ Len(journal') = Len(journal) + 1 /\ journal'[TurnNo] = {records[TurnNo]}
        /\ \A i \in 1 .. Len(journal) : journal'[i] = journal[i]
    BY <2>1, <2>2 DEF TypeOK
  <2>4. Lines = Len(journal) /\ Lines' = Len(journal) + 1
    BY <2>1, <2>2, <2>3 DEF Lines
  <2>5. FilesKept /\ UNCHANGED <<payloads, records, pointer, acked, turns>>
    BY <1>8 DEF CommitJournal, FilesKept, history
  <2>6. JournalIsChain'
    <3>1. ASSUME NEW i \in 1 .. Lines'
          PROVE  i \in DOMAIN records /\ journal'[i] = {records[i]} /\ Continues(records[i])
      BY <2>1, <2>3, <2>4, LinesType DEF JournalIsChain
    <3>2. \A i \in 1 .. Lines' : Continues(records[i])'
      BY <2>5, <3>1, LinkKept
    <3> QED BY <2>5, <3>1, <3>2 DEF JournalIsChain
  <2>7. TornLineIsLast' /\ PointerInJournal'
    BY <2>2, <2>4, <2>5, LinesType DEF TornLineIsLast, PointerInJournal, TypeOK
  <2>8. TurnNo' = TurnNo /\ Len(journal') = TurnNo' /\ ~unended'
    BY <2>1, <2>2, <2>3, <2>5 DEF TurnNo
  <2>9. /\ TurnNo' \in DOMAIN payloads' /\ payloads'[TurnNo'] = turns'
    BY <1>8, <2>5, <2>8 DEF CommitJournal, PersistProgress
  <2> QED BY <2>2, <2>6, <2>7, <2>8, <2>9 DEF PersistProgress
<1>9. CASE CommitPointer
  <2>1. ~unended /\ TurnNo = Len(journal) /\ TurnNo \in Turn
    BY <1>9 DEF CommitPointer, PersistProgress, TypeOK, Persisting
  <2>2. FilesKept /\ UNCHANGED <<payloads, records, journal, unended, turns>>
    BY <1>9 DEF CommitPointer, FilesKept
  <2>3. JournalIsChain' /\ TornLineIsLast' /\ Lines' = Lines
    BY <2>2, ChainKept
  <2>4. Lines = TurnNo /\ TurnNo \in 1 .. Lines
    BY <2>1 DEF Lines, Turn
  <2>5. acked' = TurnNo /\ pc' = "ready" /\ pointer' = Only(TurnNo, records[TurnNo])
    BY <1>9 DEF CommitPointer
  <2>6. PointerInJournal'
    BY <2>2, <2>3, <2>4, <2>5 DEF PointerInJournal, Only
  <2> QED BY <2>3, <2>5, <2>6 DEF PersistProgress
<1>10. ASSUME NEW tear \in Tears, CrashDuringAppend(tear)
       PROVE  (JournalIsChain /\ TornLineIsLast /\ PointerInJournal /\ PersistProgress)'
  <2>1. ~unended /\ TurnNo = Len(journal) + 1 /\ TurnNo \in DOMAIN records
    BY <1>10 DEF CrashDuringAppend, PersistProgress, TypeOK
  <2>2. tear = "line"
    BY <1>10, ModesAssumption DEF CrashDuringAppend, LinesStayWhole
  <2>3. journal' = Append(journal, {}) /\ unended' = TRUE /\ pc' = "down"
    BY <1>10, <2>1, <2>2 DEF CrashDuringAppend, AppendLine
  <2>4. /\ Len(journal') = Len(journal) + 1 /\ journal'[Len(journal')] = {}
        /\ \A i \in 1 .. Len(journal) : journal'[i] = journal[i]
    BY <2>3 DEF TypeOK
  <2>5. Lines = Len(journal) /\ Lines' = Len(journal)
    BY <2>1, <2>3, <2>4, LinesType DEF Lines
  <2>6. FilesKept /\ UNCHANGED <<payloads, records, pointer, acked>>
    BY <1>10 DEF CrashDuringAppend, FilesKept
  <2>7. JournalIsChain'
    <3>1. \A i \in 1 .. Lines' : Continues(records[i])'
      BY <2>5, <2>6, LinkKept DEF JournalIsChain
    <3> QED BY <2>4, <2>5, <2>6, <3>1 DEF JournalIsChain
  <2>8. TornLineIsLast' /\ PointerInJournal'
    BY <2>1, <2>4, <2>5, <2>6 DEF TornLineIsLast, PointerInJournal
  <2> QED BY <2>3, <2>7, <2>8 DEF PersistProgress
<1>11. CASE LosePointer
  <2>1. FilesKept /\ UNCHANGED <<payloads, records, journal, unended, acked, turns, pc>>
    BY <1>11 DEF LosePointer, FilesKept
  <2>2. JournalIsChain' /\ TornLineIsLast' /\ Lines' = Lines
    BY <2>1, ChainKept
  <2>3. DOMAIN pointer' = {}
    BY <1>11 DEF LosePointer
  <2>4. PointerInJournal'
    BY <2>1, <2>2, <2>3 DEF PointerInJournal
  <2>5. PersistProgress'
    BY <2>1 DEF PersistProgress, TurnNo, Continues, HasRecord, Record,
                PrefixDigestMatches
  <2> QED BY <2>2, <2>4, <2>5
<1>12. ASSUME NEW n \in Turn, LoseRecord(n)
       PROVE  FALSE
  BY <1>0, <1>12 DEF LoseRecord
<1>13. CASE UNCHANGED vars
  <2>1. (JournalIsChain /\ TornLineIsLast /\ PointerInJournal)'
    BY <1>13, ReadersUnaffected DEF vars
  <2>2. PersistProgress'
    BY <1>13 DEF vars, PersistProgress, TurnNo, Continues, HasRecord, Record,
                 PrefixDigestMatches
  <2> QED BY <2>1, <2>2
<1> QED
  BY <1>1, <1>2, <1>3, <1>4, <1>5, <1>6, <1>7, <1>8, <1>9, <1>10, <1>11, <1>12,
     <1>13 DEF Next

(* Where a crash inside the journal append cannot leave a complete line    *)
(* without its newline, a turn whose commit returned is never lost to      *)
(* readers by crashes, a lost latest.json, reruns or resumes of any        *)
(* checkpoint, in any number and order.                                    *)
THEOREM AcknowledgedTurnsStayReadable ==
    ASSUME "newline" \notin Tears
    PROVE  Spec => []AckedDurable
<1>1. Init => TypeOK /\ DurableInv
  BY TypeOKInit, DurableInvInit
<1>2. TypeOK /\ DurableInv /\ [Next]_vars => TypeOK' /\ DurableInv'
  BY TypeOKStep, DurableInvStep
<1>3. TypeOK /\ DurableInv => AckedDurable
  BY DurableInvImpliesAcked
<1> QED BY <1>1, <1>2, <1>3, PTL DEF Spec
-----------------------------------------------------------------------------
(* The history that readers are shown: readable checkpoints agree, they    *)
(* can be resumed, an undisturbed store refuses nothing, and what readers  *)
(* may resume is the append-only log of CommittedPrefix.                   *)


(* No payload is lost or replaced, so the payload of every state on disk   *)
(* is still there, and so is that of a persist that has written it.        *)
PayloadsStay ==
    /\ \A s \in Stored : s.turn \in DOMAIN payloads /\ payloads[s.turn] = s.payload
    /\ pc \in {"snapshot", "commit", "journal", "pointer"} =>
         TurnNo \in DOMAIN payloads /\ payloads[TurnNo] = turns

(* Elementwise, the first m turns of t.                                    *)
Begins(m, t) ==
    m \in DOMAIN payloads /\ \A i \in 1 .. m : payloads[m][i] = t[i]

(* A payload is written on top of those of all earlier turns.              *)
PayloadsNest == \A n \in DOMAIN payloads : \A m \in 1 .. n : Begins(m, payloads[n])
SessionNests ==
    /\ pc \in {"ready", "snapshot", "commit", "journal", "pointer"} =>
         \A m \in 1 .. Len(turns) : Begins(m, turns)
    /\ pc = "payload" => \A m \in 1 .. (Len(turns) - 1) : Begins(m, turns)

ForkInv ==
    PayloadsStay /\ (skips = 0 => PayloadsNest /\ SessionNests)

(* A store that nobody initialized has no process and no states.           *)
Founded ==
    /\ identity = {} => pc = "down" /\ Stored = {}
    /\ \A i, j \in identity : i = j

(* Snapshots are of payloads, and come before the states of a native run.  *)
SnapshotsMatch ==
    \A n \in DOMAIN snapshots : n \in DOMAIN payloads /\ snapshots[n] = payloads[n]
SnapshotsFirst ==
    Native =>
        /\ \A s \in Stored : s.turn \in DOMAIN snapshots
        /\ pc \in {"commit", "journal", "pointer"} => TurnNo \in DOMAIN snapshots

(* Without a lost record, the records are of the turns 1 to n, all but the *)
(* last complete, and the journal announces nothing else.                  *)
RecordsInOrder ==
    losses = 0 =>
        /\ \A s \in Stored : s.turn \in DOMAIN records /\ s = records[s.turn]
        /\ \A n \in DOMAIN records : \A m \in 1 .. (n - 1) :
             m \in DOMAIN records /\ records[m].status = "complete"

HistoryInv == ForkInv /\ Founded /\ SnapshotsMatch /\ SnapshotsFirst /\ RecordsInOrder

(* latest.json is never more than one line behind the journal.             *)
PointerIsNear ==
    losses = 0 /\ LinesStayWhole =>
        \A n \in DOMAIN pointer : n \in {Lines - 1, Lines} /\ (pc = "journal" => n = Lines)

(* Between two undisturbed persists the files are those of the journal.    *)
FilesInStep ==
    clean /\ losses = 0 =>
        /\ ~unended
        /\ \A n \in DOMAIN records : n <= Lines \/ (pc = "journal" /\ n = TurnNo)
        /\ pc # "pointer" => \A n \in DOMAIN pointer : n = Lines
        /\ skips = 0 =>
             /\ pc = "ready" => Len(turns) <= Lines
             /\ pc \in {"payload", "snapshot", "commit"} => TurnNo <= Lines + 1
             /\ Record(Lines).status = "complete" => \A n \in DOMAIN payloads :
                  n <= Lines \/ (n = TurnNo /\ pc \in {"snapshot", "commit", "journal"})

StoreInv == TypeOK /\ DurableInv /\ HistoryInv /\ PointerIsNear /\ FilesInStep
-----------------------------------------------------------------------------
(* What a step does to the files *)

LEMMA FilesStay ==
    ASSUME TypeOK, [Next]_vars
    PROVE  /\ \A n \in DOMAIN payloads : n \in DOMAIN payloads' /\ payloads'[n] = payloads[n]
           /\ \A n \in DOMAIN snapshots : n \in DOMAIN snapshots' /\ snapshots'[n] = snapshots[n]
<1>1. CASE WritePayload
  BY <1>1 DEF WritePayload, With
<1>2. CASE WriteSnapshot
  BY <1>2 DEF WriteSnapshot, With
<1>3. CASE ~WritePayload /\ ~WriteSnapshot
  BY <1>3 DEF Next, vars, files, StartFresh, Resume, TurnCompletes, TurnInFlight,
              SessionEnds, CommitRecord, CommitJournal, CommitPointer, PersistRefused,
              CrashDuringAppend, Crash, LosePointer, LoseRecord
<1> QED BY <1>1, <1>2, <1>3

LEMMA LinesOfAppend ==
    ASSUME TypeOK, NEW line \in SUBSET CheckpointState
    PROVE  \A i \in DOMAIN AppendLine(line) :
              \/ AppendLine(line)[i] \in {line, {}}
              \/ i \in DOMAIN journal /\ AppendLine(line)[i] = journal[i]
<1>0. journal \in Seq(SUBSET CheckpointState) /\ {} \in SUBSET CheckpointState
  BY DEF TypeOK
<1>1. CASE unended
  <2>1. journal # <<>>
    BY <1>1 DEF TypeOK
  <2>2. /\ Front(journal) \in Seq(SUBSET CheckpointState)
        /\ Len(Front(journal)) = Len(journal) - 1
        /\ \A i \in 1 .. (Len(journal) - 1) : Front(journal)[i] = journal[i]
    <3>1. Len(journal) \in Nat \ {0}
      BY <1>0, <2>1
    <3>2. Front(journal) = [i \in 1 .. (Len(journal) - 1) |-> journal[i]]
      BY <1>0, <3>1 DEF Front
    <3>3. \A i \in 1 .. (Len(journal) - 1) : journal[i] \in SUBSET CheckpointState
      BY <1>0, <3>1
    <3> QED BY <3>1, <3>2, <3>3
  <2>3. AppendLine(line) = Append(Front(journal), {})
    BY <1>1 DEF AppendLine
  <2> QED BY <1>0, <2>1, <2>2, <2>3
<1>2. CASE ~unended
  <2>1. AppendLine(line) = Append(journal, line)
    BY <1>2 DEF AppendLine
  <2> QED BY <1>0, <2>1
<1> QED BY <1>1, <1>2

(* Only a commit puts a new state on disk.                                 *)
LEMMA StoredStep ==
    ASSUME TypeOK, [Next]_vars
    PROVE  \/ Stored' \subseteq Stored
           \/ CommitRecord /\ \E status \in Statuses : Stored' \subseteq Stored \cup {NewState(status)}
<1>1. CASE CommitRecord
  <2>1. PICK status \in Statuses : records' = With(records, TurnNo, NewState(status))
    BY <1>1 DEF CommitRecord
  <2>2. \A n \in DOMAIN records' :
           \/ records'[n] = NewState(status)
           \/ n \in DOMAIN records /\ records'[n] = records[n]
    BY <2>1 DEF With
  <2>3. journal' = journal
    BY <1>1 DEF CommitRecord
  <2> QED BY <1>1, <2>2, <2>3 DEF Stored
<1>2. CASE CommitJournal \/ \E tear \in Tears : CrashDuringAppend(tear)
  <2>1. PICK line \in {{}, {records[TurnNo]}} : journal' = AppendLine(line)
    BY <1>2 DEF CommitJournal, CrashDuringAppend
  <2>2. TurnNo \in DOMAIN records /\ records' = records
    BY <1>2 DEF CommitJournal, CrashDuringAppend, TypeOK
  <2>3. line \in SUBSET CheckpointState /\ line \subseteq Stored
    BY <2>1, <2>2, StoredType DEF Stored
  <2>4. \A i \in DOMAIN journal' : journal'[i] \subseteq Stored
    BY <2>1, <2>3, LinesOfAppend DEF Stored
  <2> QED BY <2>2, <2>4 DEF Stored
<1>3. ASSUME NEW n \in Turn, LoseRecord(n) PROVE Stored' \subseteq Stored
  BY <1>3 DEF LoseRecord, Without, Stored
<1>4. CASE ~CommitRecord /\ UNCHANGED <<records, journal>>
  BY <1>4 DEF Stored
<1> QED
  BY <1>1, <1>2, <1>3, <1>4
  DEF Next, vars, files, StartFresh, Resume, TurnCompletes, TurnInFlight,
      SessionEnds, WritePayload, WriteSnapshot, CommitPointer, PersistRefused,
      Crash, LosePointer
-----------------------------------------------------------------------------
(* Readable checkpoints agree *)

LEMMA PayloadsStayStep ==
    ASSUME TypeOK, PayloadsStay, [Next]_vars
    PROVE  PayloadsStay'
<1>1. ASSUME NEW s \in Stored'
      PROVE  s.turn \in DOMAIN payloads' /\ payloads'[s.turn] = s.payload
  <2>1. CASE s \in Stored
    BY <2>1, FilesStay DEF PayloadsStay
  <2>2. CASE s \notin Stored
    <3>1. CommitRecord /\ \E status \in Statuses : s = NewState(status)
      BY <1>1, <2>2, StoredStep
    <3>2. s.turn = TurnNo /\ s.payload = turns
      BY <3>1 DEF NewState
    <3>3. TurnNo \in DOMAIN payloads /\ payloads[TurnNo] = turns
      BY <3>1 DEF CommitRecord, PayloadsStay
    <3> QED BY <3>2, <3>3, FilesStay
  <2> QED BY <2>1, <2>2
<1>2. ASSUME pc' \in {"snapshot", "commit", "journal", "pointer"}
      PROVE  TurnNo' \in DOMAIN payloads' /\ payloads'[TurnNo'] = turns'
  <2>1. CASE WritePayload
    BY <2>1 DEF WritePayload, With, TurnNo
  <2>2. CASE ~WritePayload
    <3>1. turns' = turns /\ pc \in {"snapshot", "commit", "journal", "pointer"}
      BY <1>2, <2>2
      DEF Next, vars, files, history, StartFresh, Resume, TurnCompletes, TurnInFlight,
          SessionEnds, WriteSnapshot, CommitRecord, CommitJournal, CommitPointer,
          PersistRefused, CrashDuringAppend, Crash, LosePointer, LoseRecord
    <3> QED BY <3>1, FilesStay DEF PayloadsStay, TurnNo
  <2> QED BY <2>1, <2>2
<1> QED BY <1>1, <1>2 DEF PayloadsStay

(* What begins a payload or a session still does, whatever a step writes.  *)
LEMMA BeginsStays ==
    ASSUME TypeOK, [Next]_vars, NEW m, NEW t, Begins(m, t)
    PROVE  m \in DOMAIN payloads' /\ \A i \in 1 .. m : payloads'[m][i] = t[i]
BY FilesStay DEF Begins

(* A checkpoint that a resume may select has its payload, and with it those *)
(* of the turns before.                                                    *)
LEMMA SelectedNests ==
    ASSUME TypeOK, PayloadsStay, NEW n \in 0 .. MaxTurn, Selected(n) # EmptyPrefix
    PROVE  /\ Selected(n) \in Stored
           /\ Selected(n).turn \in DOMAIN payloads
           /\ payloads[Selected(n).turn] = Selected(n).payload
           /\ Len(Selected(n).payload) = Selected(n).turn
<1>1. Selected(n) \in Stored
  BY LatestIsStored DEF Selected, Stored
<1> QED BY <1>1, SelectedType DEF PayloadsStay

LEMMA NestStep ==
    ASSUME TypeOK, PayloadsStay, [Next]_vars, skips = 0, skips' = 0, PayloadsNest, SessionNests
    PROVE  PayloadsNest' /\ SessionNests'
<1>0. turns \in Seq(Content) /\ Len(turns) \in Nat
  BY DEF TypeOK
<1>1. CASE WritePayload
  <2>1. /\ turns' = turns /\ pc = "payload" /\ pc' \in {"snapshot", "commit"}
        /\ DOMAIN payloads' = DOMAIN payloads \cup {TurnNo} /\ payloads'[TurnNo] = turns
        /\ TurnNo \in Turn
    BY <1>1 DEF WritePayload, With, TypeOK, Persisting
  <2>2. \A m \in 1 .. TurnNo : Begins(m, turns)'
    <3> TAKE m \in 1 .. TurnNo
    <3>1. CASE m = TurnNo
      BY <3>1, <2>1 DEF Begins
    <3>2. CASE m # TurnNo
      <4>1. m \in 1 .. (Len(turns) - 1)
        BY <3>2, <2>1, <1>0 DEF TurnNo
      <4>2. Begins(m, turns)
        BY <4>1, <2>1 DEF SessionNests
      <4> QED BY <4>2, <2>1, BeginsStays DEF Begins
    <3> QED BY <3>1, <3>2
  <2>3. ASSUME NEW n \in DOMAIN payloads', NEW m \in 1 .. n
        PROVE  Begins(m, payloads[n])'
    <3>1. CASE n = TurnNo
      BY <3>1, <2>1, <2>2 DEF Begins
    <3>2. CASE n # TurnNo
      <4>1. n \in DOMAIN payloads /\ payloads'[n] = payloads[n]
        BY <3>2, <2>1, FilesStay
      <4>2. Begins(m, payloads[n])
        BY <4>1 DEF PayloadsNest
      <4> QED BY <4>1, <4>2, BeginsStays DEF Begins
    <3> QED BY <3>1, <3>2
  <2> QED BY <2>1, <2>2, <2>3 DEF PayloadsNest, SessionNests, TurnNo
<1>2. CASE ~WritePayload
  <2>1. payloads' = payloads
    BY <1>2 DEF Next, vars, files, StartFresh, Resume, TurnCompletes, TurnInFlight,
                SessionEnds, WriteSnapshot, CommitRecord, CommitJournal, CommitPointer,
                PersistRefused, CrashDuringAppend, Crash, LosePointer, LoseRecord
  <2>2. PayloadsNest'
    BY <2>1 DEF PayloadsNest, Begins
  <2>3. ASSUME NEW i \in Identity, NEW n \in 0 .. MaxTurn, Resume(i, n)
        PROVE  SessionNests'
    <3>1. /\ Selected(n) # EmptyPrefix /\ turns' = Selected(n).payload /\ pc' = "ready"
      BY <2>3 DEF Resume, AcceptsResume
    <3>2. \A m \in 1 .. Len(turns') : Begins(m, turns')
      BY <3>1, SelectedNests DEF PayloadsNest
    <3> QED BY <2>1, <3>1, <3>2 DEF SessionNests, Begins
  <2>4. ASSUME NEW c \in Content, TurnCompletes(c) PROVE SessionNests'
    <3>1. pc = "ready" /\ pc' = "payload" /\ turns' = Append(turns, c)
      BY <2>4 DEF TurnCompletes
    <3>2. /\ Len(turns') - 1 = Len(turns)
          /\ \A j \in 1 .. Len(turns) : turns'[j] = turns[j]
      BY <3>1, <1>0
    <3>3. \A m \in 1 .. Len(turns) : Begins(m, turns')
      BY <1>0, <3>1, <3>2 DEF SessionNests, Begins
    <3> QED BY <2>1, <3>1, <3>2, <3>3 DEF SessionNests, Begins
  <2>5. ASSUME NEW i \in Identity, StartFresh(i) PROVE SessionNests'
    <3>1. turns' = <<>> /\ Len(turns') = 0 /\ pc' = "ready"
      BY <2>5 DEF StartFresh
    <3> QED BY <3>1 DEF SessionNests
  <2>6. ASSUME NEW c \in Content, TurnInFlight(c) PROVE FALSE
    BY <2>6 DEF TurnInFlight
  <2>7. CASE pc' = "down"
    BY <2>2, <2>7 DEF SessionNests
  <2>8. CASE /\ turns' = turns /\ pc' # "payload"
             /\ pc \in {"ready", "snapshot", "commit", "journal", "pointer"}
    BY <2>1, <2>2, <2>8 DEF SessionNests, Begins
  <2>9. CASE UNCHANGED <<turns, pc>>
    BY <2>1, <2>2, <2>9 DEF SessionNests, Begins
  <2>10. \/ \E i \in Identity : StartFresh(i) \/ \E n \in 0 .. MaxTurn : Resume(i, n)
         \/ \E c \in Content : TurnCompletes(c) \/ TurnInFlight(c)
         \/ pc' = "down"
         \/ /\ turns' = turns /\ pc' # "payload"
            /\ pc \in {"ready", "snapshot", "commit", "journal", "pointer"}
         \/ UNCHANGED <<turns, pc>>
    BY <1>2
    DEF Next, vars, SessionEnds, WriteSnapshot, CommitRecord, CommitJournal,
        CommitPointer, PersistRefused, CrashDuringAppend, Crash, LosePointer, LoseRecord
  <2> QED BY <2>2, <2>3, <2>4, <2>5, <2>6, <2>7, <2>8, <2>9, <2>10
<1> QED BY <1>1, <1>2

LEMMA SkipsGrow == TypeOK /\ [Next]_vars /\ skips' = 0 => skips = 0
<1> SUFFICES ASSUME TypeOK, [Next]_vars, skips' = 0 PROVE skips = 0
  OBVIOUS
<1>1. skips \in Nat /\ (skips' = skips \/ skips' = skips + 1)
  BY BoundsAssumption
     DEF TypeOK, Next, vars, history, files, StartFresh, Resume, TurnCompletes,
         TurnInFlight, SessionEnds, WritePayload, WriteSnapshot, CommitRecord,
         CommitJournal, CommitPointer, PersistRefused, CrashDuringAppend, Crash,
         LosePointer, LoseRecord
<1> QED BY <1>1

LEMMA ForkInvStep == TypeOK /\ ForkInv /\ [Next]_vars => ForkInv'
BY PayloadsStayStep, NestStep, SkipsGrow DEF ForkInv

(* A visible checkpoint is a stored one, or the empty prefix.              *)
LEMMA VisibleIsStored ==
    ASSUME TypeOK
    PROVE  Visible \subseteq Stored \cup {EmptyPrefix}
BY LatestIsStored DEF Visible, Stored

LEMMA ForkInvImpliesNoFork == TypeOK /\ ForkInv => NoFork
<1> SUFFICES ASSUME TypeOK, ForkInv, skips = 0,
                    NEW s \in Visible, NEW t \in Visible, s.turn <= t.turn
             PROVE  IsPrefix(s.payload, t.payload)
  BY DEF NoFork, CommitContinuesPrefix
<1>1. \A v \in Visible : \/ v = EmptyPrefix
                         \/ /\ v.turn \in DOMAIN payloads /\ v.payload = payloads[v.turn]
                            /\ v.turn \in Turn
                            /\ v.payload \in Seq(Content) /\ Len(v.payload) = v.turn
  BY VisibleIsStored, StoredType DEF ForkInv, PayloadsStay, TypeOK, PrefixFiles
<1>2. \A v \in Visible : v.payload \in Seq(Content) /\ Len(v.payload) = v.turn /\ v.turn \in Nat
  <2>1. EmptyPrefix.payload = <<>> /\ EmptyPrefix.turn = 0
    BY DEF EmptyPrefix
  <2>2. <<>> \in Seq(Content) /\ Len(<<>>) = 0
    OBVIOUS
  <2> TAKE v \in Visible
  <2>3. CASE v = EmptyPrefix
    <3>1. v.payload = <<>> /\ v.turn = 0
      BY <2>1, <2>3
    <3>2. v.payload \in Seq(Content)
      BY <2>2, <3>1
    <3>3. Len(v.payload) = 0
      BY <3>1
    <3> QED BY <3>1, <3>2, <3>3
  <2>4. CASE v # EmptyPrefix
    BY <1>1, <2>4 DEF Turn
  <2> QED BY <2>3, <2>4
<1>3. \A i \in 1 .. Len(s.payload) : s.payload[i] = t.payload[i]
  <2>1. CASE s = EmptyPrefix
    BY <2>1 DEF EmptyPrefix
  <2>2. CASE s # EmptyPrefix /\ t # EmptyPrefix
    <3>1. s.turn \in 1 .. t.turn
      BY <1>1, <1>2, <2>2 DEF Turn
    <3>2. Begins(s.turn, payloads[t.turn])
      BY <1>1, <2>2, <3>1 DEF ForkInv, PayloadsNest
    <3> QED BY <1>1, <2>2, <3>2 DEF Begins
  <2>3. CASE s # EmptyPrefix /\ t = EmptyPrefix
    BY <1>1, <2>3 DEF EmptyPrefix, Turn
  <2> QED BY <2>1, <2>2, <2>3
<1>4. s.payload = SubSeq(t.payload, 1, Len(s.payload))
  BY <1>2, <1>3
<1> QED BY <1>2, <1>4 DEF IsPrefix
-----------------------------------------------------------------------------
(* Readable checkpoints can be resumed *)

LEMMA FoundedStep == TypeOK /\ Founded /\ [Next]_vars => Founded'
<1> SUFFICES ASSUME TypeOK, Founded, [Next]_vars PROVE Founded'
  OBVIOUS
<1>1. CASE \E i \in Identity : StartFresh(i)
  BY <1>1 DEF StartFresh, Founded
<1>2. CASE ~\E i \in Identity : StartFresh(i)
  <2>1. identity' = identity
    BY <1>2 DEF Next, vars, files, Resume, TurnCompletes, TurnInFlight, SessionEnds,
                WritePayload, WriteSnapshot, CommitRecord, CommitJournal, CommitPointer,
                PersistRefused, CrashDuringAppend, Crash, LosePointer, LoseRecord
  <2>2. ASSUME identity = {} PROVE pc' = "down" /\ Stored' = {}
    <3>1. pc = "down" /\ Stored = {}
      BY <2>2 DEF Founded
    <3>2. pc' = "down" /\ ~CommitRecord
      BY <1>2, <2>2, <3>1
      DEF Next, vars, Resume, AcceptsResume, TurnCompletes, TurnInFlight, SessionEnds,
          WritePayload, WriteSnapshot, CommitRecord, CommitJournal, CommitPointer,
          PersistRefused, CrashDuringAppend, Crash, LosePointer, LoseRecord
    <3> QED BY <3>1, <3>2, StoredStep
  <2> QED BY <2>1, <2>2 DEF Founded
<1> QED BY <1>1, <1>2

LEMMA SnapshotsMatchStep ==
    TypeOK /\ PayloadsStay /\ SnapshotsMatch /\ [Next]_vars => SnapshotsMatch'
<1> SUFFICES ASSUME TypeOK, PayloadsStay, SnapshotsMatch, [Next]_vars,
                    NEW n \in DOMAIN snapshots'
             PROVE  n \in DOMAIN payloads' /\ snapshots'[n] = payloads'[n]
  BY DEF SnapshotsMatch
<1>1. CASE n \in DOMAIN snapshots
  BY <1>1, FilesStay DEF SnapshotsMatch
<1>2. CASE n \notin DOMAIN snapshots
  <2>1. WriteSnapshot
    BY <1>2 DEF Next, vars, files, StartFresh, Resume, TurnCompletes, TurnInFlight,
                SessionEnds, WritePayload, CommitRecord, CommitJournal, CommitPointer,
                PersistRefused, CrashDuringAppend, Crash, LosePointer, LoseRecord
  <2>2. n = TurnNo /\ snapshots'[n] = turns
    BY <1>2, <2>1 DEF WriteSnapshot, With
  <2>3. TurnNo \in DOMAIN payloads /\ payloads[TurnNo] = turns
    BY <2>1 DEF WriteSnapshot, PayloadsStay
  <2> QED BY <2>2, <2>3, FilesStay
<1> QED BY <1>1, <1>2

LEMMA SnapshotsFirstStep ==
    TypeOK /\ Founded /\ SnapshotsFirst /\ [Next]_vars => SnapshotsFirst'
<1> SUFFICES ASSUME TypeOK, Founded, SnapshotsFirst, [Next]_vars, Native'
             PROVE  /\ \A s \in Stored' : s.turn \in DOMAIN snapshots'
                    /\ pc' \in {"commit", "journal", "pointer"} => TurnNo' \in DOMAIN snapshots'
  BY DEF SnapshotsFirst
<1>1. CASE ~Native
  <2>1. PICK i \in Identity : StartFresh(i)
    BY <1>1 DEF Native, Next, vars, files, Resume, TurnCompletes, TurnInFlight, SessionEnds,
                WritePayload, WriteSnapshot, CommitRecord, CommitJournal, CommitPointer,
                PersistRefused, CrashDuringAppend, Crash, LosePointer, LoseRecord
  <2>2. identity = {}
    BY <1>1, <2>1 DEF Native, StartFresh
  <2>3. Stored' = {} /\ pc' = "ready"
    BY <2>1, <2>2 DEF Founded, StartFresh, Stored
  <2> QED BY <2>3
<1>2. CASE Native
  <2>1. ASSUME NEW s \in Stored' PROVE s.turn \in DOMAIN snapshots'
    <3>1. CASE s \in Stored
      BY <1>2, <3>1, FilesStay DEF SnapshotsFirst
    <3>2. CASE s \notin Stored
      <4>1. pc = "commit" /\ s.turn = TurnNo
        BY <2>1, <3>2, StoredStep DEF CommitRecord, NewState
      <4> QED BY <1>2, <4>1, FilesStay DEF SnapshotsFirst
    <3> QED BY <3>1, <3>2
  <2>2. ASSUME pc' \in {"commit", "journal", "pointer"} PROVE TurnNo' \in DOMAIN snapshots'
    <3>1. CASE WriteSnapshot
      BY <3>1 DEF WriteSnapshot, With, TurnNo
    <3>2. CASE ~WriteSnapshot
      <4>1. turns' = turns /\ pc \in {"commit", "journal", "pointer"}
        BY <1>2, <2>2, <3>2
        DEF Next, vars, files, history, StartFresh, Resume, TurnCompletes, TurnInFlight,
            SessionEnds, WritePayload, CommitRecord, CommitJournal, CommitPointer,
            PersistRefused, CrashDuringAppend, Crash, LosePointer, LoseRecord
      <4> QED BY <1>2, <4>1, FilesStay DEF SnapshotsFirst, TurnNo
    <3> QED BY <3>1, <3>2
  <2> QED BY <2>1, <2>2
<1> QED BY <1>1, <1>2

(* The walk to the root passes complete records only.                      *)
LEMMA ChainIsComplete ==
    ASSUME TypeOK, NEW s \in CheckpointState, ValidChain(s)
    PROVE  \A m \in 1 .. (s.turn - 1) : m \in DOMAIN records /\ records[m].status = "complete"
<1> TAKE m \in 1 .. (s.turn - 1)
<1>0. s.turn \in Nat /\ m \in Nat /\ m # 0 /\ m + 1 <= s.turn
  BY DEF CheckpointState, Turn
<1>1. PICK c \in CheckpointState : Continues(c) /\ c.turn = m + 1
  <2>1. CASE m + 1 = s.turn
    BY <2>1 DEF ValidChain
  <2>2. CASE m + 1 # s.turn
    <3>1. m + 1 \in 1 .. (s.turn - 1)
      BY <1>0, <2>2
    <3>2. m + 1 \in DOMAIN records /\ Continues(records[m + 1])
      BY <3>1 DEF ValidChain
    <3> QED BY <3>2 DEF TypeOK, StateFiles
  <2> QED BY <2>1, <2>2
<1>2. /\ HasRecord(c.parent) /\ Record(c.parent).status = "complete"
      /\ m + 1 = Record(c.parent).turn + 1
  BY <1>1 DEF Continues
<1>3. CASE c.parent = 0
  <2>1. Record(c.parent).turn = 0
    BY <1>3 DEF Record, EmptyPrefix
  <2> QED BY <1>0, <1>2, <2>1
<1>4. CASE c.parent # 0
  <2>1. c.parent \in DOMAIN records /\ Record(c.parent) = records[c.parent]
    BY <1>2, <1>4 DEF HasRecord, Record
  <2>2. records[c.parent].turn = c.parent /\ c.parent \in Nat
    BY <2>1 DEF TypeOK, StateFiles, Turn
  <2>3. c.parent = m
    BY <1>0, <1>2, <2>1, <2>2
  <2> QED BY <1>2, <2>1, <2>3
<1> QED BY <1>3, <1>4

LEMMA LossesGrow == TypeOK /\ [Next]_vars /\ losses' = 0 => losses = 0
<1> SUFFICES ASSUME TypeOK, [Next]_vars, losses' = 0 PROVE losses = 0
  OBVIOUS
<1>1. losses \in Nat /\ (losses' = losses \/ losses' = losses + 1)
  BY BoundsAssumption
     DEF TypeOK, Next, vars, history, files, StartFresh, Resume, TurnCompletes,
         TurnInFlight, SessionEnds, WritePayload, WriteSnapshot, CommitRecord,
         CommitJournal, CommitPointer, PersistRefused, CrashDuringAppend, Crash,
         LosePointer, LoseRecord
<1> QED BY <1>1

LEMMA RecordsInOrderStep == TypeOK /\ RecordsInOrder /\ [Next]_vars => RecordsInOrder'
<1> SUFFICES ASSUME TypeOK, RecordsInOrder, [Next]_vars, losses' = 0
             PROVE  /\ \A s \in Stored' : s.turn \in DOMAIN records' /\ s = records'[s.turn]
                    /\ \A n \in DOMAIN records' : \A m \in 1 .. (n - 1) :
                         m \in DOMAIN records' /\ records'[m].status = "complete"
  BY DEF RecordsInOrder
<1>0. losses = 0 /\ TypeOK'
  BY LossesGrow, TypeOKStep
<1>1. CASE CommitRecord
  <2>1. PICK status \in Statuses : records' = With(records, TurnNo, NewState(status))
    BY <1>1 DEF CommitRecord
  <2>2. TurnNo \notin DOMAIN records /\ Latest.status = "complete" /\ TurnNo = Latest.turn + 1
    BY <1>1 DEF CommitRecord, CommitAllowed
  <2>3. /\ DOMAIN records' = DOMAIN records \cup {TurnNo}
        /\ \A m \in DOMAIN records : records'[m] = records[m]
    BY <2>1, <2>2 DEF With
  <2>4. ASSUME NEW s \in Stored' PROVE s.turn \in DOMAIN records' /\ s = records'[s.turn]
    <3>1. CASE s \in Stored
      BY <1>0, <2>3, <3>1 DEF RecordsInOrder
    <3>2. CASE \E n \in DOMAIN records' : s = records'[n]
      BY <1>0, <3>2 DEF TypeOK, StateFiles
    <3>3. journal' = journal
      BY <1>1 DEF CommitRecord
    <3> QED BY <3>1, <3>2, <3>3 DEF Stored
  <2>5. ASSUME NEW m \in 1 .. (TurnNo - 1)
        PROVE  m \in DOMAIN records /\ records[m].status = "complete"
    <3>1. CASE Latest = EmptyPrefix
      <4>1. TurnNo = 1
        BY <2>2, <3>1 DEF EmptyPrefix
      <4> QED BY <4>1
    <3>2. CASE Latest # EmptyPrefix
      <4>1. Latest \in Stored /\ Latest \in CheckpointState /\ ValidChain(Latest)
        BY <3>2, LatestIsStored, StoredType
      <4>2. CASE m = Latest.turn
        BY <1>0, <2>2, <4>1, <4>2 DEF RecordsInOrder
      <4>3. CASE m # Latest.turn
        <5>1. Latest.turn \in Nat
          BY <4>1 DEF CheckpointState, Turn
        <5>2. m \in 1 .. (Latest.turn - 1)
          BY <2>2, <4>3, <5>1
        <5> QED BY <4>1, <5>2, ChainIsComplete
      <4> QED BY <4>2, <4>3
    <3> QED BY <3>1, <3>2
  <2>6. ASSUME NEW n \in DOMAIN records', NEW m \in 1 .. (n - 1)
        PROVE  m \in DOMAIN records' /\ records'[m].status = "complete"
    BY <1>0, <2>3, <2>5 DEF RecordsInOrder
  <2> QED BY <2>4, <2>6
<1>2. CASE ~CommitRecord
  <2>1. Stored' \subseteq Stored
    BY <1>2, StoredStep
  <2>2. records' = records
    BY <1>0, <1>2
    DEF Next, vars, files, StartFresh, Resume, TurnCompletes, TurnInFlight,
        SessionEnds, WritePayload, WriteSnapshot, CommitJournal, CommitPointer,
        PersistRefused, CrashDuringAppend, Crash, LosePointer, LoseRecord
  <2> QED BY <1>0, <2>1, <2>2 DEF RecordsInOrder
<1> QED BY <1>1, <1>2

LEMMA HistoryInvInit == Init => HistoryInv
<1> SUFFICES ASSUME Init PROVE HistoryInv
  OBVIOUS
<1>1. Stored = {} /\ DOMAIN payloads = {} /\ DOMAIN snapshots = {} /\ DOMAIN records = {}
  BY DEF Init, Stored
<1>2. ForkInv /\ Founded /\ SnapshotsMatch
  BY <1>1 DEF Init, ForkInv, PayloadsStay, PayloadsNest, SessionNests, Founded, SnapshotsMatch
<1>3. SnapshotsFirst /\ RecordsInOrder
  BY <1>1 DEF Init, SnapshotsFirst, Native, RecordsInOrder
<1> QED BY <1>2, <1>3 DEF HistoryInv

LEMMA HistoryInvStep == TypeOK /\ HistoryInv /\ [Next]_vars => HistoryInv'
BY ForkInvStep, FoundedStep, SnapshotsMatchStep, SnapshotsFirstStep, RecordsInOrderStep
   DEF HistoryInv, ForkInv

LEMMA HistoryInvImpliesResumable == TypeOK /\ HistoryInv => HistoryIsResumable
<1> SUFFICES ASSUME TypeOK, HistoryInv PROVE HistoryIsResumable
  OBVIOUS
<1>1. SnapshotBacked
  BY VisibleIsStored
  DEF SnapshotBacked, HistoryInv, SnapshotsFirst, SnapshotsMatch, ForkInv, PayloadsStay
<1>2. ASSUME losses = 0, NEW s \in Visible, NEW t \in Visible, s.status = "incomplete"
      PROVE  t.turn <= s.turn
  <2>1. s \in Stored /\ s = records[s.turn] /\ s.turn \in Turn
    BY <1>2, VisibleIsStored, StoredType
    DEF EmptyPrefix, HistoryInv, RecordsInOrder, CheckpointState
  <2>2. CASE t = EmptyPrefix
    BY <2>1, <2>2 DEF EmptyPrefix, Turn
  <2>3. CASE t # EmptyPrefix
    <3>1. t.turn \in DOMAIN records /\ t.turn \in Turn
      BY <1>2, <2>3, VisibleIsStored, StoredType
      DEF HistoryInv, RecordsInOrder, CheckpointState
    <3>2. s.turn \notin 1 .. (t.turn - 1)
      BY <1>2, <2>1, <3>1 DEF HistoryInv, RecordsInOrder
    <3> QED BY <2>1, <3>1, <3>2 DEF Turn
  <2> QED BY <2>2, <2>3
<1> QED BY <1>1, <1>2 DEF HistoryIsResumable, IncompleteIsLast
-----------------------------------------------------------------------------
(* The journal and latest.json move together *)

(* The turn of the checkpoint that latest() returns.                       *)
Newest == IF DOMAIN pointer = {} THEN Lines ELSE CHOOSE n \in DOMAIN pointer : TRUE
Durable == JournalIsChain /\ TornLineIsLast /\ PointerInJournal /\ PersistProgress

LEMMA NewestIs ==
    ASSUME TypeOK, Durable
    PROVE  /\ Lines \in Nat /\ Newest \in 0 .. Lines
           /\ Latest = Record(Newest) /\ Latest.turn = Newest
           /\ \A n \in DOMAIN pointer : Newest = n
           /\ DOMAIN pointer = {} => Newest = Lines
           /\ \A k \in 1 .. Lines : k \in DOMAIN records /\ Record(k) = records[k]
<1> USE DEF Durable
<1>1. Lines \in Nat
  BY LinesType
<1>2. \A n \in DOMAIN pointer : Newest = n /\ Latest = Record(n) /\ n \in 1 .. Lines
  <2> TAKE n \in DOMAIN pointer
  <2>1. (CHOOSE m \in DOMAIN pointer : TRUE) = n
    BY DEF TypeOK
  <2> QED BY <2>1, LatestIs DEF Newest
<1>3. DOMAIN pointer = {} => Newest = Lines /\ Latest = Record(Lines)
  BY LatestIs DEF Newest
<1>4. Latest = Record(Newest) /\ Newest \in 0 .. Lines
  BY <1>1, <1>2, <1>3
<1>5. Record(Newest).turn = Newest
  <2>1. CASE Newest = 0
    BY <2>1 DEF Record, EmptyPrefix
  <2>2. CASE Newest # 0
    BY <1>1, <1>4, <2>2, JournalChainIsValid DEF Record
  <2> QED BY <2>1, <2>2
<1>6. \A k \in 1 .. Lines : k \in DOMAIN records /\ Record(k) = records[k]
  BY <1>1 DEF JournalIsChain, Record
<1> QED BY <1>1, <1>2, <1>3, <1>4, <1>5, <1>6

LEMMA LinesStep ==
    ASSUME TypeOK, Durable, [Next]_vars, LinesStayWhole'
    PROVE  \/ CommitJournal /\ Lines' = Lines + 1 /\ TurnNo = Lines'
           \/ ~CommitJournal /\ Lines' = Lines
<1> USE DEF Durable
<1>0. Len(journal) \in Nat /\ journal \in Seq(SUBSET CheckpointState)
  BY DEF TypeOK
<1>1. CASE CommitJournal
  <2>1. ~unended /\ TurnNo = Len(journal) + 1
    BY <1>1 DEF CommitJournal, PersistProgress
  <2>2. journal' = Append(journal, {records[TurnNo]}) /\ ~unended'
    BY <1>1, <2>1 DEF CommitJournal, AppendLine
  <2>3. Len(journal') = Len(journal) + 1
    BY <1>0, <2>2
  <2> QED BY <1>1, <2>1, <2>2, <2>3 DEF Lines
<1>2. ASSUME NEW tear \in Tears, CrashDuringAppend(tear) PROVE Lines' = Lines
  <2>1. ~unended /\ tear = "line"
    BY <1>2, ModesAssumption DEF CrashDuringAppend, PersistProgress, LinesStayWhole
  <2>2. journal' = Append(journal, {}) /\ unended' = TRUE
    BY <1>2, <2>1 DEF CrashDuringAppend, AppendLine
  <2>3. Len(journal') = Len(journal) + 1
    BY <1>0, <2>2
  <2> QED BY <1>0, <2>1, <2>2, <2>3 DEF Lines
<1>3. CASE ~CommitJournal /\ UNCHANGED <<journal, unended>>
  BY <1>3 DEF Lines
<1>4. CASE \E tear \in Tears : CrashDuringAppend(tear)
  BY <1>2, <1>4 DEF CrashDuringAppend, CommitJournal
<1> QED
  BY <1>1, <1>2, <1>3, <1>4
  DEF Next, vars, files, StartFresh, Resume, TurnCompletes, TurnInFlight, SessionEnds,
      WritePayload, WriteSnapshot, CommitRecord, CommitPointer, PersistRefused, Crash,
      LosePointer, LoseRecord

LEMMA CleanBefore == [Next]_vars /\ clean' => clean
BY DEF Next, vars, history, files, StartFresh, Resume, TurnCompletes, TurnInFlight,
       SessionEnds, WritePayload, WriteSnapshot, CommitRecord, CommitJournal,
       CommitPointer, PersistRefused, CrashDuringAppend, Crash, LosePointer, LoseRecord

LEMMA WholeBefore == LinesStayWhole' /\ [Next]_vars => LinesStayWhole
BY CleanBefore DEF LinesStayWhole

(* A commit is of the turn after the last line, and latest.json, if there, *)
(* is at that line.                                                        *)
LEMMA CommitIsNext ==
    ASSUME TypeOK, Durable, CommitRecord
    PROVE  /\ TurnNo = Lines + 1 /\ Newest = Lines /\ Record(Lines).status = "complete"
           /\ Record(Lines)' = Record(Lines)
           /\ DOMAIN records' = DOMAIN records \cup {TurnNo}
<1> USE DEF Durable
<1>1. CommitAllowed /\ TurnNo \in Turn /\ TurnNo \notin DOMAIN records
  BY DEF CommitRecord, CommitAllowed, TypeOK, Persisting
<1>2. ~unended /\ TurnNo = Len(journal) + 1
  BY <1>1, CommitBehindJournal
<1>3. TurnNo = Lines + 1
  BY <1>2 DEF Lines
<1>4. Newest = Lines /\ Record(Lines).status = "complete"
  BY <1>1, <1>3, NewestIs DEF CommitAllowed
<1>5. /\ DOMAIN records' = DOMAIN records \cup {TurnNo}
      /\ \A m \in DOMAIN records : records'[m] = records[m]
  BY <1>1 DEF CommitRecord, With
<1>6. Lines' = Lines
  BY DEF CommitRecord, Lines
<1>7. Record(Lines)' = Record(Lines)
  BY <1>5, <1>6, NewestIs DEF Record
<1> QED BY <1>3, <1>4, <1>5, <1>7

LEMMA PointerIsNearStep ==
    TypeOK /\ DurableInv /\ PointerIsNear /\ [Next]_vars => PointerIsNear'
<1> SUFFICES ASSUME TypeOK, DurableInv, PointerIsNear, [Next]_vars, losses' = 0,
                    LinesStayWhole', NEW n \in DOMAIN pointer'
             PROVE  n \in {Lines' - 1, Lines'} /\ (pc' = "journal" => n = Lines')
  BY DEF PointerIsNear
<1>0. losses = 0 /\ LinesStayWhole
  BY LossesGrow, WholeBefore
<1>1. Durable /\ Lines \in Nat
  BY <1>0, NewestIs DEF DurableInv, Durable
<1>2. \A m \in DOMAIN pointer : m \in {Lines - 1, Lines} /\ (pc = "journal" => m = Lines)
  BY <1>0 DEF PointerIsNear
<1>3. CASE CommitPointer
  <2>1. ~unended /\ TurnNo = Len(journal) /\ n = TurnNo /\ pc' = "ready"
    BY <1>1, <1>3 DEF CommitPointer, Durable, PersistProgress, Only
  <2>2. n = Lines /\ Lines' = Lines
    BY <1>3, <2>1 DEF CommitPointer, Lines
  <2> QED BY <2>1, <2>2
<1>4. CASE CommitJournal
  <2>1. n \in DOMAIN pointer /\ pc = "journal" /\ pc' = "pointer"
    BY <1>4 DEF CommitJournal
  <2>2. Lines' = Lines + 1
    BY <1>1, <1>4, LinesStep
  <2> QED BY <1>1, <1>2, <2>1, <2>2
<1>5. CASE CommitRecord
  <2>1. n \in DOMAIN pointer /\ Lines' = Lines
    BY <1>5 DEF CommitRecord, Lines
  <2> QED BY <1>1, <1>5, <2>1, CommitIsNext, NewestIs
<1>6. CASE ~CommitPointer /\ ~CommitJournal /\ ~CommitRecord
  <2>1. n \in DOMAIN pointer /\ (pc' = "journal" => pc = "journal")
    BY <1>6
    DEF Next, vars, files, StartFresh, Resume, TurnCompletes, TurnInFlight, SessionEnds,
        WritePayload, WriteSnapshot, PersistRefused, CrashDuringAppend, Crash,
        LosePointer, LoseRecord
  <2>2. Lines' = Lines
    BY <1>1, <1>6, LinesStep
  <2> QED BY <1>2, <2>1, <2>2
<1> QED BY <1>3, <1>4, <1>5, <1>6
-----------------------------------------------------------------------------
(* An undisturbed store refuses nothing *)

InStep == ~unended /\ \A n \in DOMAIN records : n <= Lines \/ (pc = "journal" /\ n = TurnNo)
PointerInStep == pc # "pointer" => \A n \in DOMAIN pointer : n = Lines
TurnsInStep ==
    /\ pc = "ready" => Len(turns) <= Lines
    /\ pc \in {"payload", "snapshot", "commit"} => TurnNo <= Lines + 1
PayloadsInStep ==
    Record(Lines).status = "complete" => \A n \in DOMAIN payloads :
        n <= Lines \/ (n = TurnNo /\ pc \in {"snapshot", "commit", "journal"})

LEMMA FilesInStepIs ==
    FilesInStep <=> (clean /\ losses = 0 =>
                       InStep /\ PointerInStep /\ (skips = 0 => TurnsInStep /\ PayloadsInStep))
BY DEF FilesInStep, InStep, PointerInStep, TurnsInStep, PayloadsInStep

(* A step that keeps the journal keeps the state of its last line.         *)
LEMMA LastRecordKept ==
    ASSUME TypeOK, Durable, [Next]_vars, LinesStayWhole', ~CommitJournal, losses' = losses
    PROVE  Record(Lines)' = Record(Lines) /\ Lines' = Lines
<1>1. Lines' = Lines
  BY LinesStep
<1>2. CASE CommitRecord
  BY <1>1, <1>2, CommitIsNext
<1>3. CASE ~CommitRecord
  <2>1. losses \in Nat
    BY BoundsAssumption DEF TypeOK
  <2>2. records' = records
    BY <1>3, <2>1
    DEF Next, vars, files, StartFresh, Resume, TurnCompletes, TurnInFlight, SessionEnds,
        WritePayload, WriteSnapshot, CommitJournal, CommitPointer, PersistRefused,
        CrashDuringAppend, Crash, LosePointer, LoseRecord
  <2> QED BY <1>1, <2>2 DEF Record
<1> QED BY <1>2, <1>3

LEMMA InStepStep ==
    ASSUME TypeOK, Durable, [Next]_vars, clean', losses' = losses, InStep, PointerInStep
    PROVE  InStep' /\ PointerInStep'
<1>0. LinesStayWhole' /\ losses \in Nat /\ Lines \in Nat
  BY BoundsAssumption, LinesType DEF TypeOK, LinesStayWhole
<1>1. CASE CommitRecord
  <2>1. TurnNo = Lines + 1 /\ DOMAIN records' = DOMAIN records \cup {TurnNo}
    BY <1>1, CommitIsNext
  <2>2. Lines' = Lines /\ pc' = "journal" /\ pc = "commit"
        /\ UNCHANGED <<pointer, unended, turns>>
    BY <1>1 DEF CommitRecord, Lines
  <2> QED BY <2>1, <2>2 DEF InStep, PointerInStep, TurnNo
<1>2. CASE CommitJournal
  <2>1. Lines' = Lines + 1 /\ TurnNo = Lines'
    BY <1>0, <1>2, LinesStep
  <2>2. ~unended' /\ pc' = "pointer" /\ UNCHANGED <<records, turns>>
    BY <1>2 DEF CommitJournal
  <2>3. \A n \in DOMAIN records : n <= Lines \/ n = TurnNo
    BY DEF InStep
  <2>4. DOMAIN records \subseteq Nat
    BY DEF TypeOK, StateFiles, Turn
  <2> QED BY <1>0, <2>1, <2>2, <2>3, <2>4 DEF InStep, PointerInStep
<1>3. CASE CommitPointer
  <2>1. ~unended /\ TurnNo = Len(journal)
    BY <1>3 DEF CommitPointer, Durable, PersistProgress
  <2>2. Lines' = Lines /\ TurnNo = Lines
    BY <1>3, <2>1 DEF CommitPointer, Lines
  <2>3. DOMAIN pointer' = {TurnNo} /\ UNCHANGED <<records, unended>> /\ pc = "pointer"
    BY <1>3 DEF CommitPointer, Only
  <2> QED BY <2>2, <2>3 DEF InStep, PointerInStep
<1>4. CASE ~CommitRecord /\ ~CommitJournal /\ ~CommitPointer
  <2>1. Lines' = Lines
    BY <1>0, <1>4, LinesStep
  <2>2. ~(\E n \in Turn : LoseRecord(n)) /\ ~(\E tear \in Tears : CrashDuringAppend(tear))
    <3>1. ~(\E n \in Turn : LoseRecord(n))
      <4>1. \A n \in Turn : LoseRecord(n) => losses' = losses + 1
        BY DEF LoseRecord
      <4>2. losses + 1 # losses
        BY <1>0
      <4> QED BY <4>1, <4>2
    <3>2. ~(\E tear \in Tears : CrashDuringAppend(tear))
      <4>1. \A tear \in Tears : ~CrashDuringAppend(tear)
        BY DEF CrashDuringAppend
      <4> QED BY <4>1
    <3> QED BY <3>1, <3>2
  <2>3. /\ records' = records /\ unended' = unended
        /\ pc = "journal" => pc' = "journal" /\ turns' = turns
        /\ pc' # "pointer" => pc # "pointer"
    BY <1>4, <2>2
    DEF Next, vars, files, StartFresh, Resume, TurnCompletes, TurnInFlight, SessionEnds,
        WritePayload, WriteSnapshot, PersistRefused, Crash, LosePointer
  <2>4. pointer' = pointer \/ pointer' = <<>>
    BY <1>4, <2>2
    DEF Next, vars, files, StartFresh, Resume, TurnCompletes, TurnInFlight, SessionEnds,
        WritePayload, WriteSnapshot, PersistRefused, Crash, LosePointer
  <2>5. DOMAIN pointer' \subseteq DOMAIN pointer
    BY <2>4
  <2> QED BY <2>1, <2>3, <2>5 DEF InStep, PointerInStep, TurnNo
<1> QED BY <1>1, <1>2, <1>3, <1>4

(* A refusal leaves nothing behind: the only file a persist finds missing  *)
(* is of the turn after the journal, and that one is not refused.          *)
LEMMA RefusalLeavesNothing ==
    ASSUME TypeOK, Durable, PayloadsStay, SnapshotsMatch, InStep, PointerInStep,
           Record(Lines).status = "complete", PersistRefused, TurnNo <= Lines + 1
    PROVE  pc = "payload" \/ TurnNo <= Lines
<1>0. pc \in {"payload", "snapshot", "commit"} /\ TurnNo \in Nat
  BY DEF PersistRefused, TypeOK, TurnNo
<1>1. CASE pc = "snapshot"
  <2>1. payloads[TurnNo] = turns
    BY <1>1 DEF PayloadsStay
  <2>2. TurnNo \in DOMAIN snapshots /\ snapshots[TurnNo] # turns
    BY <1>1 DEF PersistRefused
  <2> QED BY <2>1, <2>2 DEF SnapshotsMatch
<1>2. CASE pc = "commit" /\ TurnNo = Lines + 1
  <2>1. payloads[TurnNo] = turns /\ ~CommitAllowed
    BY <1>2 DEF PayloadsStay, PersistRefused
  <2>2. Newest = Lines
    BY <1>2, NewestIs DEF PointerInStep
  <2>3. Latest.status = "complete" /\ TurnNo = Latest.turn + 1
    BY <1>2, <2>2, NewestIs
  <2>4. TurnNo \notin DOMAIN records
    BY <1>2, NewestIs DEF InStep
  <2> QED BY <2>1, <2>3, <2>4 DEF CommitAllowed
<1> QED BY <1>0, <1>1, <1>2, NewestIs

(* No session is ahead of the journal by more than the turn it persists.   *)
LEMMA TurnsInStepStep ==
    ASSUME TypeOK, Durable, RecordsInOrder, losses = 0, losses' = losses, skips' = skips,
           [Next]_vars, clean', InStep, TurnsInStep
    PROVE  TurnsInStep'
<1>0. LinesStayWhole' /\ Lines \in Nat /\ skips \in Nat /\ turns \in Seq(Content)
      /\ Len(turns) \in Nat
  BY BoundsAssumption, LinesType DEF TypeOK, LinesStayWhole
<1>1. CASE CommitJournal
  BY <1>1 DEF CommitJournal, TurnsInStep
<1>2. CASE ~CommitJournal
  <2>1. Lines' = Lines
    BY <1>0, <1>2, LinesStep
  <2>2. ASSUME NEW i \in Identity, StartFresh(i) PROVE TurnsInStep'
    <3>1. turns' = <<>> /\ Len(turns') = 0 /\ pc' = "ready"
      BY <2>2 DEF StartFresh
    <3> QED BY <1>0, <2>1, <3>1 DEF TurnsInStep
  <2>3. ASSUME NEW i \in Identity, NEW n \in 0 .. MaxTurn, Resume(i, n)
        PROVE  TurnsInStep'
    <3>1. /\ Selected(n) # EmptyPrefix /\ turns' = Selected(n).payload
          /\ pc = "down" /\ pc' = "ready"
      BY <2>3 DEF Resume, AcceptsResume
    <3>2. Selected(n) \in Stored
      BY <3>1, LatestIsStored DEF Selected, Stored
    <3>3. Selected(n).turn \in DOMAIN records /\ Len(turns') = Selected(n).turn
      BY <3>1, <3>2, SelectedType DEF RecordsInOrder
    <3> QED BY <2>1, <3>1, <3>3 DEF InStep, TurnsInStep
  <2>4. ASSUME NEW c \in Content, TurnCompletes(c) PROVE TurnsInStep'
    <3>1. pc = "ready" /\ pc' = "payload" /\ Len(turns') = Len(turns) + 1
      BY <1>0, <2>4 DEF TurnCompletes
    <3> QED BY <1>0, <2>1, <3>1 DEF TurnsInStep, TurnNo
  <2>5. ASSUME NEW c \in Content, TurnInFlight(c) PROVE FALSE
    BY <1>0, <2>5 DEF TurnInFlight
  <2>6. CASE CommitPointer
    <3>1. ~unended /\ TurnNo = Len(journal) /\ pc' = "ready" /\ turns' = turns
      BY <2>6 DEF CommitPointer, Durable, PersistProgress
    <3>2. TurnNo = Lines
      BY <3>1 DEF Lines
    <3> QED BY <1>0, <2>1, <3>1, <3>2 DEF TurnsInStep, TurnNo
  <2>7. CASE WritePayload \/ WriteSnapshot \/ CommitRecord
    <3>1. turns' = turns /\ pc \in {"payload", "snapshot", "commit"} /\ pc' # "ready"
      BY <2>7 DEF WritePayload, WriteSnapshot, CommitRecord
    <3> QED BY <2>1, <3>1 DEF TurnsInStep, TurnNo
  <2>8. CASE pc' = "down" \/ UNCHANGED <<turns, pc>>
    BY <2>1, <2>8 DEF TurnsInStep, TurnNo
  <2>9. CASE SessionEnds \/ PersistRefused \/ Crash \/ LosePointer
             \/ (\E tear \in Tears : CrashDuringAppend(tear))
             \/ (\E n \in Turn : LoseRecord(n)) \/ UNCHANGED vars
    BY <2>8, <2>9 DEF SessionEnds, PersistRefused, Crash, LosePointer, CrashDuringAppend,
                      LoseRecord, vars
  <2> QED BY <1>2, <2>2, <2>3, <2>4, <2>5, <2>6, <2>7, <2>9 DEF Next
<1> QED BY <1>1, <1>2

(* A record that continues its parent follows a complete turn.             *)
LEMMA ContinuesComplete ==
    ASSUME TypeOK, NEW n \in DOMAIN records, Continues(records[n])
    PROVE  Record(n - 1).status = "complete"
<1> DEFINE p == records[n].parent
<1>1. Record(p).status = "complete" /\ records[n].turn = Record(p).turn + 1 /\ HasRecord(p)
  BY DEF Continues
<1>2. Record(p).turn = p
  BY <1>1 DEF TypeOK, StateFiles, Record, HasRecord, EmptyPrefix
<1>3. records[n].turn = n /\ p \in Nat
  BY BoundsAssumption DEF TypeOK, StateFiles, CheckpointState
<1>4. p = n - 1
  BY <1>1, <1>2, <1>3
<1> QED BY <1>1, <1>4

LEMMA CommitContinuesLastLine ==
    ASSUME TypeOK, Durable, CommitJournal
    PROVE  Record(Lines).status = "complete"
<1>1. /\ ~unended /\ TurnNo = Len(journal) + 1 /\ Continues(records[TurnNo])
      /\ TurnNo \in DOMAIN records
  BY DEF CommitJournal, Durable, PersistProgress, TypeOK
<1>2. Lines = TurnNo - 1
  BY <1>1, LinesType DEF Lines
<1> QED BY <1>1, <1>2, ContinuesComplete

(* The only payload ahead of the journal is of the turn being persisted.   *)
LEMMA PayloadsInStepStep ==
    ASSUME TypeOK, Durable, PayloadsStay, SnapshotsMatch, losses = 0, losses' = losses,
           [Next]_vars, clean', InStep, PointerInStep, TurnsInStep, PayloadsInStep
    PROVE  PayloadsInStep'
<1>0. LinesStayWhole' /\ Lines \in Nat /\ DOMAIN payloads \subseteq Nat
  BY LinesType DEF TypeOK, LinesStayWhole, PrefixFiles, Turn
<1>1. CASE CommitJournal
  <2>1. Lines' = Lines + 1 /\ TurnNo = Lines'
    BY <1>0, <1>1, LinesStep
  <2>2. \A n \in DOMAIN payloads : n <= Lines \/ n = TurnNo
    BY <1>1, CommitContinuesLastLine DEF PayloadsInStep
  <2>3. payloads' = payloads
    BY <1>1 DEF CommitJournal
  <2> QED BY <1>0, <2>1, <2>2, <2>3 DEF PayloadsInStep
<1>2. CASE ~CommitJournal
  <2> SUFFICES ASSUME Record(Lines).status = "complete", Lines' = Lines,
                      NEW n \in DOMAIN payloads'
               PROVE  n <= Lines \/ (n = TurnNo' /\ pc' \in {"snapshot", "commit", "journal"})
    BY <1>0, <1>2, LastRecordKept DEF PayloadsInStep
  <2>1. \A m \in DOMAIN payloads :
           m <= Lines \/ (m = TurnNo /\ pc \in {"snapshot", "commit", "journal"})
    BY DEF PayloadsInStep
  <2>2. CASE WritePayload
    <3>1. /\ pc = "payload" /\ pc' \in {"snapshot", "commit"} /\ TurnNo' = TurnNo
          /\ (n \in DOMAIN payloads \/ n = TurnNo)
      BY <2>2 DEF WritePayload, With, TurnNo
    <3> QED BY <2>1, <3>1
  <2>3. CASE PersistRefused
    <3>1. n \in DOMAIN payloads /\ pc \in {"payload", "snapshot", "commit"}
      BY <2>3 DEF PersistRefused, files
    <3>2. TurnNo <= Lines + 1
      BY <3>1 DEF TurnsInStep
    <3>3. pc = "payload" \/ TurnNo <= Lines
      BY <2>3, <3>2, RefusalLeavesNothing
    <3> QED BY <2>1, <3>1, <3>3
  <2>4. CASE ~WritePayload /\ ~PersistRefused
    <3>1. ~(\E tear \in Tears : CrashDuringAppend(tear)) /\ (Crash => pc = "ready")
      <4>1. \A tear \in Tears : ~CrashDuringAppend(tear)
        BY DEF CrashDuringAppend
      <4> QED BY <4>1 DEF Crash
    <3>2. /\ n \in DOMAIN payloads
          /\ \/ pc \notin {"snapshot", "commit", "journal"}
             \/ turns' = turns /\ pc' \in {"snapshot", "commit", "journal"}
      BY <1>2, <2>4, <3>1
      DEF Next, vars, files, StartFresh, Resume, TurnCompletes, TurnInFlight, SessionEnds,
          WriteSnapshot, CommitRecord, CommitPointer, Crash, LosePointer, LoseRecord
    <3> QED BY <2>1, <3>2 DEF TurnNo
  <2> QED BY <2>2, <2>3, <2>4
<1> QED BY <1>1, <1>2

LEMMA FilesInStepStep ==
    TypeOK /\ DurableInv /\ HistoryInv /\ FilesInStep /\ [Next]_vars => FilesInStep'
<1> SUFFICES ASSUME TypeOK, DurableInv, HistoryInv, FilesInStep, [Next]_vars, clean',
                    losses' = 0
             PROVE  InStep' /\ PointerInStep' /\ (skips' = 0 => TurnsInStep' /\ PayloadsInStep')
  BY FilesInStepIs DEF FilesInStep, InStep, PointerInStep, TurnsInStep, PayloadsInStep
<1>1. losses = 0 /\ clean /\ Durable
  BY LossesGrow, CleanBefore DEF DurableInv, Durable, LinesStayWhole
<1>2. InStep /\ PointerInStep /\ (skips = 0 => TurnsInStep /\ PayloadsInStep)
  BY <1>1, FilesInStepIs
<1>3. InStep' /\ PointerInStep'
  BY <1>1, <1>2, InStepStep
<1>4. ASSUME skips' = 0 PROVE TurnsInStep' /\ PayloadsInStep'
  <2>1. skips = 0
    BY <1>4, SkipsGrow
  <2> QED
    BY <1>1, <1>2, <1>4, <2>1, TurnsInStepStep, PayloadsInStepStep
    DEF HistoryInv, ForkInv
<1> QED BY <1>3, <1>4

LEMMA JournalInvsInit == Init => PointerIsNear /\ FilesInStep
<1> SUFFICES ASSUME Init PROVE PointerIsNear /\ FilesInStep
  OBVIOUS
<1>1. DOMAIN payloads = {} /\ DOMAIN records = {} /\ DOMAIN pointer = {}
  BY DEF Init
<1> QED BY <1>1 DEF Init, PointerIsNear, FilesInStep

LEMMA FilesInStepImpliesNoRefusal ==
    TypeOK /\ DurableInv /\ FilesInStep => NoSpuriousRefusal
<1> SUFFICES ASSUME TypeOK, DurableInv, FilesInStep, clean, skips = 0, losses = 0,
                    pc \in {"down", "ready"}, Latest.status = "complete"
             PROVE  Latest.turn + 1 \notin DOMAIN payloads /\ Latest.turn + 1 \notin DOMAIN records
  BY DEF NoSpuriousRefusal
<1>1. Durable /\ InStep /\ PointerInStep /\ PayloadsInStep
  BY FilesInStepIs DEF DurableInv, Durable, LinesStayWhole
<1>2. Newest = Lines /\ Latest = Record(Lines) /\ Latest.turn = Lines /\ Lines \in Nat
  BY <1>1, NewestIs DEF PointerInStep
<1> QED BY <1>1, <1>2 DEF InStep, PayloadsInStep

LEMMA StoreInvInit == Init => StoreInv
BY TypeOKInit, DurableInvInit, HistoryInvInit, JournalInvsInit DEF StoreInv

LEMMA StoreInvStep == StoreInv /\ [Next]_vars => StoreInv'
BY TypeOKStep, DurableInvStep, HistoryInvStep, PointerIsNearStep, FilesInStepStep DEF StoreInv
-----------------------------------------------------------------------------
(* What readers may resume grows by one turn, or not at all *)

(* The number of turns in the prefix that readers may resume.              *)
Done == IF Latest.status = "complete" THEN Latest.turn ELSE Latest.turn - 1

LEMMA CompleteIs ==
    TypeOK /\ PayloadsStay /\ PayloadsNest =>
        \/ Done = 0 /\ Complete = <<>>
        \/ Done \in DOMAIN payloads /\ Complete = payloads[Done]
<1> SUFFICES ASSUME TypeOK, PayloadsStay, PayloadsNest
             PROVE  \/ Done = 0 /\ Complete = <<>>
                    \/ Done \in DOMAIN payloads /\ Complete = payloads[Done]
  OBVIOUS
<1>1. CASE Latest = EmptyPrefix
  <2>1. Latest.status = "complete" /\ Latest.turn = 0 /\ Latest.payload = <<>>
    BY <1>1 DEF EmptyPrefix
  <2> QED BY <2>1 DEF Done, Complete
<1>2. CASE Latest # EmptyPrefix
  <2> DEFINE k == Latest.turn
             f == payloads[k]
  <2>1. /\ k \in DOMAIN payloads /\ Latest.payload = f
        /\ k \in Nat \ {0} /\ f \in Seq(Content) /\ Len(f) = k
    BY <1>2, LatestIsStored DEF PayloadsStay, TypeOK, PrefixFiles, Turn
  <2>2. CASE Latest.status = "complete"
    BY <2>1, <2>2 DEF Done, Complete
  <2>3. CASE Latest.status # "complete"
    <3>1. Done = k - 1 /\ Complete = [i \in 1 .. (k - 1) |-> f[i]]
      BY <2>1, <2>3 DEF Done, Complete, Front
    <3>2. CASE k = 1
      <4>1. Complete = [i \in 1 .. 0 |-> f[i]]
        BY <3>1, <3>2
      <4>2. [i \in 1 .. 0 |-> f[i]] = <<>>
        OBVIOUS
      <4> QED BY <3>1, <3>2, <4>1, <4>2
    <3>3. CASE k # 1
      <4>1. k - 1 \in 1 .. k
        BY <2>1, <3>3
      <4>2. Begins(k - 1, f)
        BY <2>1, <4>1 DEF PayloadsNest
      <4>3. k - 1 \in DOMAIN payloads /\ \A i \in 1 .. (k - 1) : payloads[k - 1][i] = f[i]
        BY <4>2 DEF Begins
      <4>4. payloads[k - 1] \in Seq(Content) /\ Len(payloads[k - 1]) = k - 1
        BY <4>3 DEF TypeOK, PrefixFiles
      <4>5. payloads[k - 1] = [i \in 1 .. (k - 1) |-> f[i]]
        BY <4>3, <4>4
      <4> QED BY <3>1, <4>3, <4>5
    <3> QED BY <3>2, <3>3
  <2> QED BY <2>2, <2>3
<1> QED BY <1>1, <1>2

LEMMA NewestFacts ==
    TypeOK /\ Durable => Latest = Record(Newest) /\ Latest.turn = Newest /\ Newest \in Nat
BY NewestIs

LEMMA RecordsStay ==
    ASSUME TypeOK, [Next]_vars, losses' = losses
    PROVE  \A n \in DOMAIN records : n \in DOMAIN records' /\ records'[n] = records[n]
<1>1. CASE CommitRecord
  BY <1>1 DEF CommitRecord, CommitAllowed, With
<1>2. CASE ~CommitRecord
  <2>1. losses \in Nat
    BY BoundsAssumption DEF TypeOK
  <2>2. records' = records
    BY <1>2, <2>1
    DEF Next, vars, files, StartFresh, Resume, TurnCompletes, TurnInFlight, SessionEnds,
        WritePayload, WriteSnapshot, CommitJournal, CommitPointer, PersistRefused,
        CrashDuringAppend, Crash, LosePointer, LoseRecord
  <2> QED BY <2>2
<1> QED BY <1>1, <1>2

(* latest() moves to the next turn, from a complete one, or stays.         *)
LEMMA NewestStep ==
    ASSUME TypeOK, Durable, PointerIsNear, losses = 0, losses' = 0, [Next]_vars, LinesStayWhole'
    PROVE  \/ Newest' = Newest
           \/ Newest' = Newest + 1 /\ Record(Newest).status = "complete"
<1>0. /\ Lines \in Nat /\ LinesStayWhole
      /\ \A n \in DOMAIN pointer : n \in {Lines - 1, Lines} /\ Newest = n
      /\ DOMAIN pointer = {} => Newest = Lines
  BY WholeBefore, NewestIs DEF PointerIsNear
<1>1. Newest \in {Lines - 1, Lines}
  <2>1. CASE DOMAIN pointer = {}
    BY <1>0, <2>1
  <2>2. CASE DOMAIN pointer # {}
    BY <1>0, <2>2
  <2> QED BY <2>1, <2>2
<1>2. Newest = Lines - 1 => Record(Newest).status = "complete"
  <2> SUFFICES ASSUME Newest = Lines - 1 PROVE Record(Newest).status = "complete"
    OBVIOUS
  <2>1. Lines \in 1 .. Lines
    BY <1>0, NewestIs
  <2>2. Lines \in DOMAIN records /\ Continues(records[Lines])
    BY <2>1 DEF Durable, JournalIsChain
  <2> QED BY <2>2, ContinuesComplete
<1>3. CASE CommitJournal
  <2>1. Lines' = Lines + 1 /\ pointer' = pointer
    BY <1>3, LinesStep DEF CommitJournal
  <2>2. CASE DOMAIN pointer = {}
    <3>1. Newest' = Lines + 1 /\ Newest = Lines
      BY <1>0, <2>1, <2>2 DEF Newest
    <3> QED BY <1>3, <3>1, CommitContinuesLastLine
  <2>3. CASE DOMAIN pointer # {}
    BY <2>1, <2>3 DEF Newest
  <2> QED BY <2>2, <2>3
<1>4. CASE CommitPointer
  <2>1. ~unended /\ TurnNo = Len(journal)
    BY <1>4 DEF CommitPointer, Durable, PersistProgress
  <2>2. TurnNo = Lines
    BY <2>1 DEF Lines
  <2>3. DOMAIN pointer' = {Lines}
    BY <1>4, <2>2 DEF CommitPointer, Only
  <2>4. Newest' = Lines
    BY <2>3 DEF Newest
  <2> QED BY <1>0, <1>1, <1>2, <2>4
<1>5. CASE LosePointer
  <2>1. DOMAIN pointer' = {} /\ Lines' = Lines
    BY <1>5 DEF LosePointer, Lines
  <2>2. Newest' = Lines
    BY <2>1 DEF Newest
  <2> QED BY <1>0, <1>1, <1>2, <2>2
<1>6. CASE ~CommitJournal /\ ~CommitPointer /\ ~LosePointer
  <2>1. pointer' = pointer
    BY <1>6
    DEF Next, vars, files, StartFresh, Resume, TurnCompletes, TurnInFlight, SessionEnds,
        WritePayload, WriteSnapshot, CommitRecord, PersistRefused, CrashDuringAppend,
        Crash, LoseRecord
  <2>2. Lines' = Lines
    BY <1>6, LinesStep
  <2> QED BY <2>1, <2>2 DEF Newest
<1> QED BY <1>3, <1>4, <1>5, <1>6

LEMMA DoneStep ==
    ASSUME TypeOK, Durable, TypeOK', Durable', PointerIsNear, losses = 0, losses' = 0,
           [Next]_vars, LinesStayWhole'
    PROVE  Done' \in {Done, Done + 1}
<1>1. (TypeOK /\ Durable => Latest = Record(Newest) /\ Latest.turn = Newest /\ Newest \in Nat)'
  BY NewestFacts, PTL
<1>2. /\ Latest = Record(Newest) /\ Latest.turn = Newest /\ Newest \in Nat
      /\ (Latest = Record(Newest) /\ Latest.turn = Newest)'
  BY <1>1, NewestFacts
<1>3. CASE Newest' = Newest
  <2>1. Newest = 0 \/ Newest \in DOMAIN records
    BY NewestIs
  <2>2. Record(Newest)' = Record(Newest)
    BY <1>3, <2>1, RecordsStay DEF Record
  <2>3. Latest' = Latest
    BY <1>2, <2>2
  <2> QED BY <2>3 DEF Done
<1>4. CASE Newest' = Newest + 1 /\ Record(Newest).status = "complete"
  <2>1. Done = Newest
    BY <1>2, <1>4 DEF Done
  <2>2. Done' \in {Newest', Newest' - 1}
    BY <1>2 DEF Done
  <2> QED BY <1>2, <1>4, <2>1, <2>2
<1> QED BY <1>3, <1>4, NewestStep

(* A step of the store is a step of the log, or one that readers miss.     *)
LEMMA LogStep ==
    ASSUME "newline" \notin Tears, StoreInv, StoreInv', [Next]_vars, losses' = 0, skips' = 0
    PROVE  Log!Next \/ UNCHANGED Complete
<1> USE DEF StoreInv
<1>1. losses = 0 /\ skips = 0 /\ LinesStayWhole /\ LinesStayWhole'
  BY LossesGrow, SkipsGrow DEF LinesStayWhole
<1>2. Durable /\ Durable' /\ PayloadsStay /\ PayloadsNest /\ PayloadsStay' /\ PayloadsNest'
  BY <1>1 DEF DurableInv, Durable, HistoryInv, ForkInv
<1>3. \/ Done = 0 /\ Complete = <<>>
      \/ Done \in DOMAIN payloads /\ Complete = payloads[Done]
  BY <1>2, CompleteIs
<1>4. (TypeOK /\ PayloadsStay /\ PayloadsNest =>
          \/ Done = 0 /\ Complete = <<>>
          \/ Done \in DOMAIN payloads /\ Complete = payloads[Done])'
  BY CompleteIs, PTL
<1>5. \/ Done' = 0 /\ Complete' = <<>>
      \/ Done' \in DOMAIN payloads' /\ Complete' = payloads'[Done']
  BY <1>2, <1>4
<1>6. /\ 0 \notin DOMAIN payloads /\ 0 \notin DOMAIN payloads'
      /\ DOMAIN payloads \subseteq Nat /\ DOMAIN payloads' \subseteq 1 .. MaxTurn
  BY DEF TypeOK, PrefixFiles, Turn
<1>7. CASE Done' = Done
  BY <1>3, <1>5, <1>6, <1>7, FilesStay
<1>8. CASE Done' = Done + 1
  <2> DEFINE k == Done + 1
             t == payloads'[Done + 1]
  <2>1. Done \in Nat /\ k # 0
    BY <1>3, <1>6
  <2>2. k \in DOMAIN payloads' /\ Complete' = t
    BY <1>5, <1>8, <2>1
  <2>3. t \in Seq(Content) /\ Len(t) = k
    BY <2>2 DEF TypeOK, PrefixFiles
  <2>4. k <= MaxTurn /\ MaxTurn \in Nat
    BY <1>6, <2>2, BoundsAssumption
  <2>5. /\ Complete \in Seq(Content) /\ Len(Complete) = Done
        /\ \A i \in 1 .. Done : Complete[i] = t[i]
    <3>1. CASE Done = 0
      <4>1. Complete = <<>>
        BY <1>3, <1>6, <3>1
      <4> QED BY <3>1, <4>1
    <3>2. CASE Done # 0
      <4>1. Done \in DOMAIN payloads /\ Complete = payloads[Done]
        BY <1>3, <3>2
      <4>2. Done \in DOMAIN payloads' /\ payloads'[Done] = Complete
        BY <4>1, FilesStay
      <4>3. Done \in 1 .. k
        BY <2>1, <3>2
      <4>4. \A n \in DOMAIN payloads' : \A m \in 1 .. n :
               \A i \in 1 .. m : payloads'[m][i] = payloads'[n][i]
        BY <1>2 DEF PayloadsNest, Begins
      <4>5. \A i \in 1 .. Done : payloads'[Done][i] = t[i]
        BY <2>2, <4>3, <4>4
      <4> QED BY <4>1, <4>2, <4>5 DEF TypeOK, PrefixFiles
    <3> QED BY <3>1, <3>2
  <2>6. t[k] \in Content
    BY <2>1, <2>3
  <2>7. t = Append(Complete, t[k])
    BY <2>1, <2>3, <2>5, <2>6
  <2>8. Len(Complete) < MaxTurn
    BY <2>1, <2>4, <2>5
  <2>9. Complete' = Append(Complete, t[k])
    BY <2>2, <2>7
  <2> QED BY <2>6, <2>8, <2>9 DEF Log!Next, Log!Extend
<1>9. Done' \in {Done, Done + 1}
  BY <1>1, <1>2, DoneStep
<1> QED BY <1>7, <1>8, <1>9

LEMMA LogInit == Init => Log!Init
<1> SUFFICES ASSUME Init PROVE Complete = <<>>
  BY DEF Log!Init
<1>1. DOMAIN <<>> = {}
  OBVIOUS
<1>2. DOMAIN pointer = {} /\ DOMAIN journal = {}
  BY <1>1 DEF Init
<1>3. JournalCandidates = {} /\ ~PointerValid
  BY <1>2 DEF JournalCandidates, PointerValid
<1>4. Latest = EmptyPrefix
  BY <1>3 DEF Latest, RecoverFromJournal
<1> QED BY <1>4 DEF Complete, EmptyPrefix
-----------------------------------------------------------------------------
LEMMA StoreInvariant == Spec => []StoreInv
BY StoreInvInit, StoreInvStep, PTL DEF Spec

(* Whatever was resumed, rerun, crashed or lost, two readable checkpoints  *)
(* never tell different stories of the same turns, unless a turn ended on  *)
(* an unanswered call.                                                     *)
THEOREM ReadersNeverFork == Spec => []NoFork
<1>1. StoreInv => NoFork
  BY ForkInvImpliesNoFork DEF StoreInv, HistoryInv
<1> QED BY <1>1, StoreInvariant, PTL

(* Every checkpoint readers may be shown, now or after damage to other     *)
(* files, has the source snapshot a native resume replays it with, and no  *)
(* turn was committed on an incomplete one.                                *)
THEOREM ReadableCanBeResumed == Spec => []HistoryIsResumable
<1>1. StoreInv => HistoryIsResumable
  BY HistoryInvImpliesResumable DEF StoreInv
<1> QED BY <1>1, StoreInvariant, PTL

(* As long as no persist was interrupted, no turn ended in flight and no   *)
(* record was lost, a commit never meets the files of an earlier attempt,  *)
(* whatever was refused or resumed before.                                 *)
THEOREM UndisturbedIsNotRefused == Spec => []NoSpuriousRefusal
<1>1. StoreInv => NoSpuriousRefusal
  BY FilesInStepImpliesNoRefusal DEF StoreInv
<1> QED BY <1>1, StoreInvariant, PTL

(* The prefix readers may resume is the append-only log of CommittedPrefix *)
(* through crashes, a lost latest.json, reruns and resumes, while no       *)
(* record is lost, no turn ends in flight, and a crash cannot leave a      *)
(* whole journal line without its newline.                                 *)
THEOREM StoreKeepsTheLog ==
    ASSUME "newline" \notin Tears
    PROVE  Spec => AppendOnly
<1>1. Init => Log!Init
  BY LogInit
<1>2. StoreInv /\ StoreInv' /\ [Next]_vars =>
        [losses' = 0 /\ skips' = 0 => Log!Next]_Complete
  BY LogStep
<1> QED BY <1>1, <1>2, StoreInvariant, PTL DEF Spec, AppendOnly
=============================================================================
