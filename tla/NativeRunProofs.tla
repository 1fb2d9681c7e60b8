-------------------------- MODULE NativeRunProofs --------------------------
(***************************************************************************)
(* Proofs about NativeRun for every script length, every number of source  *)
(* requests in a turn, and any number of messages, processes and crashes.  *)
(***************************************************************************)
EXTENDS NativeRun, FiniteSetTheorems, TLAPS

Sending == {"discard calls", "discard queries", "deliver"}
Sent == {"turn", "calls", "queries", "commit", "calls of timeout",
         "queries of timeout", "timeout"}

(* What a step of a process can rely on: a turn in hand is the next one    *)
(* and within the script; the rows are those of the recording; no message  *)
(* has more source requests than a turn may make.                          *)
Quota(n) == MaxCalls * n
Stage ==
    /\ ~prepared => pc = "down" /\ committed = <<>>
    /\ pc \in Sending \cup Sent => Len(rows) = Len(turns) /\ Len(turns) < LastTurn
    /\ pc = "save" => Len(turns) = Len(rows) + 1
    /\ pc \in {"rows", "close"} => Len(rows) = Len(turns)
    /\ pc \notin {"rows", "close"} => written = 0
Metered ==
    /\ pc \in Sending => Len(conversation) < MaxSent /\ begun = counted
    /\ pc \in Sent => /\ Len(conversation) > 0
                      /\ begun <= Quota(Len(conversation) - 1)
                      /\ counted <= begun + MaxCalls
    /\ saved <= Quota(Len(conversation)) /\ counted <= Quota(Len(conversation))
OneHistory == \A g, h \in memory : g = h

(* The type invariant in parts. *)
FileTypes ==
    /\ prepared \in BOOLEAN
    /\ conversation \in Seq(Turn) /\ Len(conversation) <= MaxSent
    /\ committed \in Seq([by : Execution, counted : Count])
    /\ Len(committed) <= LastTurn
    /\ saved \in Count
HistoryTypes ==
    /\ calls \in [last : 0 .. LastTurn, rows : SUBSET Row]
    /\ queries \in SUBSET Row
    /\ memory \in SUBSET Histories
RowTypes ==
    /\ turns \in Seq(Execution) /\ Len(turns) <= LastTurn
    /\ rows \in Seq(Row) /\ Len(rows) <= Len(turns)
    /\ written \in 0 .. Len(rows)
    /\ ledger \in Seq(Row)
ProcessTypes ==
    /\ pc \in Steps
    /\ counted \in Count /\ begun \in Count
    /\ crashes \in 0 .. MaxCrash
    /\ rewound \in BOOLEAN /\ cutSave \in BOOLEAN /\ cutDiscard \in BOOLEAN
Typed == FileTypes /\ HistoryTypes /\ RowTypes /\ ProcessTypes

RunInv == Typed /\ Stage /\ Metered /\ OneHistory
-----------------------------------------------------------------------------
(* Lemmas about the operators *)

LEMMA QuotaGrows ==
    /\ \A n \in Nat : Quota(n) \in Nat /\ Quota(n + 1) = Quota(n) + MaxCalls
    /\ \A n \in 0 .. MaxSent : Quota(n) <= Quota(MaxSent) /\ Quota(n) \in Count
<1>1. MaxCalls \in Nat /\ MaxSent \in Nat
  BY BoundsAssumption
<1>2. \A n \in Nat : Quota(n) \in Nat /\ Quota(n + 1) = Quota(n) + MaxCalls
  BY <1>1 DEF Quota
<1>3. ASSUME NEW n \in 0 .. MaxSent
      PROVE  Quota(n) <= Quota(MaxSent) /\ Quota(n) \in Count
  <2>1. PICK d \in Nat : MaxSent = n + d
    <3>1. MaxSent - n \in Nat /\ MaxSent = n + (MaxSent - n)
      BY <1>1
    <3> QED BY <3>1
  <2>2. MaxCalls * MaxSent = MaxCalls * n + MaxCalls * d /\ MaxCalls * d \in Nat
    BY <1>1, <2>1
  <2>3. Quota(n) \in Nat /\ Quota(n) <= MaxCalls * MaxSent
    BY <1>1, <2>2 DEF Quota
  <2> QED BY <2>3 DEF Quota, Count
<1> QED BY <1>2, <1>3

LEMMA ElementOf ==
    ASSUME NEW S, NEW s \in Seq(S), NEW i \in 1 .. Len(s)
    PROVE  s[i] \in S
OBVIOUS

LEMMA AppendType ==
    ASSUME NEW S, NEW s \in Seq(S), NEW e \in S
    PROVE  /\ Append(s, e) \in Seq(S) /\ Len(s) \in Nat
           /\ Len(Append(s, e)) = Len(s) + 1 /\ Append(s, e)[Len(s) + 1] = e
           /\ \A i \in 1 .. Len(s) : Append(s, e)[i] = s[i]
OBVIOUS

LEMMA EmptyIsSeq == \A S : <<>> \in Seq(S) /\ Len(<<>>) = 0
OBVIOUS

LEMMA NothingMetered ==
    ASSUME pc' \notin Sending \cup Sent, saved' = 0, counted' = 0,
           conversation' = conversation, Len(conversation) \in Nat
    PROVE  Metered'
BY QuotaGrows DEF Metered

LEMMA AtMostOne ==
    ASSUME NEW S, \A g, h \in S : g = h
    PROVE  Cardinality(S) <= 1
<1>1. CASE S = {}
  BY <1>1, FS_EmptySet
<1>2. CASE S # {}
  <2>1. PICK h : S = {h}
    BY <1>2
  <2> QED BY <2>1, FS_Singleton
<1> QED BY <1>1, <1>2

LEMMA TypedIsTypeOK == Typed /\ OneHistory => TypeOK
<1>1. OneHistory => Cardinality(memory) <= 1
  BY AtMostOne DEF OneHistory
<1> QED BY <1>1 DEF TypeOK, Typed, FileTypes, HistoryTypes, RowTypes, ProcessTypes

LEMMA LoadedType ==
    ASSUME RunInv
    PROVE  Loaded \in SUBSET Histories /\ \A g, h \in Loaded : g = h
<1>1. Files \in Histories
  BY DEF RunInv, Typed, HistoryTypes, Files, Histories
<1> QED BY <1>1 DEF RunInv, Typed, HistoryTypes, OneHistory, Loaded

LEMMA DiscardedType ==
    ASSUME NEW h \in Histories, NEW t \in Turn
    PROVE  Discarded(h, t) \in Histories
<1>1. t - 1 \in 0 .. LastTurn
  BY BoundsAssumption DEF Turn
<1> QED BY <1>1 DEF Discarded, Before, Histories

LEMMA ObservedType ==
    ASSUME NEW h \in Histories, NEW r \in Row
    PROVE  Observed(h, r) \in Histories
<1>1. r.turn \in 0 .. LastTurn
  BY BoundsAssumption DEF Row, Turn
<1> QED BY <1>1 DEF Observed, Histories

LEMMA ThisType ==
    ASSUME RunInv, pc \in Sent
    PROVE  /\ NextTurn \in Turn /\ Len(conversation) \in Execution
           /\ This \in Row
<1>1. NextTurn \in Turn
  BY BoundsAssumption DEF RunInv, Typed, RowTypes, Stage, NextTurn, Turn
<1>2. Len(conversation) \in Execution
  BY BoundsAssumption DEF RunInv, Typed, FileTypes, Metered, Execution
<1> QED BY <1>1, <1>2 DEF This, Row
-----------------------------------------------------------------------------
(* Type correctness *)

LEMMA RunInvInit == Init => RunInv
<1> SUFFICES ASSUME Init PROVE RunInv
  OBVIOUS
<1>1. Stage /\ OneHistory
  BY DEF Init, Stage, OneHistory, Sending, Sent
<1>2. Metered
  BY QuotaGrows DEF Init, Metered, Sending, Sent
<1>3. 0 \in Count /\ 0 \in 0 .. LastTurn /\ 0 \in 0 .. MaxCrash
  BY BoundsAssumption, QuotaGrows DEF Count, Quota
<1>4. FileTypes
  <2>1. prepared = FALSE /\ conversation = <<>> /\ committed = <<>> /\ saved = 0
    BY DEF Init
  <2>2. conversation \in Seq(Turn) /\ Len(conversation) = 0
    BY <2>1, EmptyIsSeq
  <2>3. committed \in Seq([by : Execution, counted : Count]) /\ Len(committed) = 0
    BY <2>1, EmptyIsSeq
  <2>4. Len(conversation) <= MaxSent /\ Len(committed) <= LastTurn
    BY <2>2, <2>3, BoundsAssumption
  <2>5. prepared \in BOOLEAN /\ saved \in Count
    BY <1>3, <2>1
  <2> QED BY <2>2, <2>3, <2>4, <2>5 DEF FileTypes
<1>5. HistoryTypes
  BY <1>3 DEF Init, HistoryTypes
<1>6. RowTypes
  BY BoundsAssumption DEF Init, RowTypes
<1>7. ProcessTypes
  BY <1>3 DEF Init, ProcessTypes, Steps
<1> QED BY <1>1, <1>2, <1>4, <1>5, <1>6, <1>7 DEF RunInv, Typed

(* Starting a process. *)
LEMMA RunInvStarts ==
    ASSUME RunInv, StartFresh \/ \E n \in Turn : Resume(n)
    PROVE  RunInv'
<1> USE DEF RunInv, Typed
<1>0. /\ saved \in Count /\ 0 \in Count
      /\ Len(conversation) \in Nat /\ Quota(Len(conversation)) \in Nat
  BY BoundsAssumption, QuotaGrows DEF FileTypes, Count
<1>1. CASE StartFresh
  <2>1. /\ prepared' /\ pc' = "idle" /\ turns' = <<>> /\ rows' = <<>> /\ written' = 0
        /\ saved' = 0 /\ counted' = 0 /\ begun' = 0 /\ memory' = {}
        /\ UNCHANGED <<conversation, committed, calls, queries, ledger>>
        /\ UNCHANGED history
    BY <1>1 DEF StartFresh
  <2>2. Stage' /\ OneHistory'
    BY <2>1 DEF Stage, OneHistory, Sending, Sent
  <2>3. Metered'
    BY <2>1, <1>0, NothingMetered DEF Sending, Sent
  <2>4. FileTypes' /\ HistoryTypes'
    BY <2>1, <1>0 DEF FileTypes, HistoryTypes
  <2>5. RowTypes'
    <3>1. turns' = <<>> /\ rows' = <<>> /\ written' = 0 /\ ledger' = ledger
      BY <2>1
    <3> QED BY <3>1, BoundsAssumption DEF RowTypes
  <2>6. ProcessTypes'
    BY <2>1, <1>0 DEF ProcessTypes, Steps, history
  <2> QED BY <2>2, <2>3, <2>4, <2>5, <2>6
<1>2. ASSUME NEW n \in Turn, Resume(n) PROVE RunInv'
  <2>1. /\ prepared /\ pc' = "idle" /\ turns' = [t \in 1 .. n |-> committed[t].by]
        /\ rows' = <<>> /\ written' = 0
        /\ counted' = saved /\ begun' = saved /\ memory' = {}
        /\ rewound' \in BOOLEAN
        /\ UNCHANGED <<root, crashes, cutSave, cutDiscard>>
    BY <1>2 DEF Resume, ProcessTypes
  <2>2. Stage' /\ OneHistory'
    BY <2>1 DEF Stage, OneHistory, Sending, Sent, root
  <2>3. Metered'
    BY <2>1, <1>0 DEF Metered, Sending, Sent, root
  <2>4. turns' \in Seq(Execution) /\ Len(turns') = n /\ n <= LastTurn
    <3>1. n \in 1 .. Len(committed) /\ n \in Nat /\ n <= LastTurn
      BY <1>2, BoundsAssumption DEF Resume, FileTypes, Turn
    <3>2. ASSUME NEW t \in 1 .. n PROVE committed[t].by \in Execution
      <4>1. t \in 1 .. Len(committed) /\ committed \in Seq([by : Execution, counted : Count])
        BY <3>1 DEF FileTypes
      <4>2. committed[t] \in [by : Execution, counted : Count]
        BY <4>1, ElementOf
      <4> QED BY <4>2
    <3> QED BY <2>1, <3>1, <3>2
  <2>5. FileTypes' /\ HistoryTypes' 
    BY <2>1 DEF FileTypes, HistoryTypes, root
  <2>6. RowTypes'
    <3>1. /\ Len(turns') <= LastTurn /\ rows' = <<>> /\ written' = 0 /\ ledger' = ledger
          /\ n \in Nat
      BY <2>1, <2>4 DEF root, Turn
    <3> QED BY <2>4, <3>1 DEF RowTypes
  <2>7. ProcessTypes'
    BY <2>1, <1>0 DEF ProcessTypes, Steps, root
  <2> QED BY <2>2, <2>3, <2>5, <2>6, <2>7
<1> QED BY <1>1, <1>2

LEMMA RunInvReplays == ASSUME RunInv, ReplayTurn PROVE RunInv'
<1> USE DEF RunInv, Typed
<1>1. /\ pc = "idle" /\ Len(rows) < Len(turns) /\ turns' = turns
      /\ rows' = Append(rows, [turn |-> Len(rows) + 1, by |-> turns[Len(rows) + 1]])
      /\ UNCHANGED <<root, history, pc, written, counted, begun, memory>>
  BY DEF ReplayTurn, RowOf
<1>2. Len(rows) + 1 \in Turn /\ turns[Len(rows) + 1] \in Execution
  BY <1>1, BoundsAssumption DEF RowTypes, Turn
<1>3. rows' \in Seq(Row) /\ Len(rows') = Len(rows) + 1
  BY <1>1, <1>2 DEF RowTypes, Row
<1>4. Stage' /\ Metered' /\ OneHistory'
  BY <1>1 DEF Stage, Metered, OneHistory, Sending, Sent, root
<1>5. FileTypes' /\ HistoryTypes' /\ ProcessTypes'
  BY <1>1 DEF FileTypes, HistoryTypes, ProcessTypes, root, history
<1>6. RowTypes'
  BY <1>1, <1>3 DEF RowTypes, root
<1> QED BY <1>4, <1>5, <1>6

(* A turn: the history of an aborted execution is discarded, ... *)
LEMMA RunInvSends == ASSUME RunInv, SendTurn PROVE RunInv'
<1> USE DEF RunInv, Typed
<1>1. /\ pc = "idle" /\ Len(rows) = Len(turns) /\ NextTurn \in Turn
      /\ Len(conversation) < MaxSent /\ begun' = counted
      /\ UNCHANGED <<root, history, turns, rows, written, counted>>
      /\ \/ memory' = {Discarded(h, NextTurn) : h \in Loaded} /\ pc' = "discard calls"
         \/ memory' = memory /\ pc' = "deliver"
  BY DEF SendTurn
<1>2. /\ memory' \in SUBSET Histories
      /\ \A g, h \in memory' : g = h
  BY <1>1, LoadedType, DiscardedType DEF HistoryTypes, OneHistory
<1>3. Stage' /\ Metered' /\ OneHistory'
  <2>1. Len(turns) < LastTurn
    <3>1. Len(turns) + 1 \in 1 .. LastTurn
      BY <1>1 DEF NextTurn, Turn
    <3> QED BY <3>1, BoundsAssumption DEF RowTypes
  <2> QED BY <1>1, <1>2, <2>1 DEF Stage, Metered, OneHistory, Sending, Sent, root
<1>4. FileTypes' /\ HistoryTypes'
  BY <1>1, <1>2 DEF FileTypes, HistoryTypes, root
<1>5. RowTypes' /\ ProcessTypes'
  BY <1>1 DEF RowTypes, ProcessTypes, Steps, root, history
<1> QED BY <1>3, <1>4, <1>5

(* ... in the files too, and the history of the turn is written there. *)
LEMMA RunInvWrites == ASSUME RunInv, DiscardWrites \/ HistoryWrites PROVE RunInv'
<1> USE DEF RunInv, Typed
<1>1. /\ \/ pc = "discard calls" /\ pc' = "discard queries"
         \/ pc = "discard queries" /\ pc' = "deliver"
         \/ pc = "calls" /\ pc' = "queries"
         \/ pc = "calls of timeout" /\ pc' = "queries of timeout"
         \/ pc = "queries" /\ pc' = "commit"
         \/ pc = "queries of timeout" /\ pc' = "timeout"
      /\ UNCHANGED <<prepared, conversation, committed, saved, ledger>>
      /\ UNCHANGED <<turns, rows, written, counted, begun, memory>>
      /\ UNCHANGED history
  BY DEF DiscardWrites, HistoryWrites, WriteCalls, WriteQueries
<1>2. /\ calls' = calls \/ \E h \in memory : calls' = [last |-> h.last, rows |-> h.rows]
      /\ queries' = queries \/ \E h \in memory : queries' = h.queries
  BY DEF DiscardWrites, HistoryWrites, WriteCalls, WriteQueries
<1>3. HistoryTypes'
  <2>1. memory' = memory /\ memory \in SUBSET Histories
    BY <1>1 DEF HistoryTypes
  <2>2. calls' \in [last : 0 .. LastTurn, rows : SUBSET Row]
    BY <1>2 DEF HistoryTypes, Histories
  <2>3. queries' \in SUBSET Row
    BY <1>2 DEF HistoryTypes, Histories
  <2> QED BY <2>1, <2>2, <2>3 DEF HistoryTypes
<1>4. Stage' /\ Metered' /\ OneHistory'
  BY <1>1 DEF Stage, Metered, OneHistory, Sending, Sent
<1>5. FileTypes'
  BY <1>1 DEF FileTypes
<1>6. RowTypes' /\ ProcessTypes'
  BY <1>1 DEF RowTypes, ProcessTypes, Steps, history
<1> QED BY <1>3, <1>4, <1>5, <1>6

LEMMA RunInvDelivers == ASSUME RunInv, Deliver PROVE RunInv'
<1> USE DEF RunInv, Typed
<1>1. /\ pc = "deliver" /\ pc' = "turn"
      /\ conversation' = Append(conversation, NextTurn)
      /\ UNCHANGED <<prepared, committed, saved, calls, queries, ledger>>
      /\ UNCHANGED <<turns, rows, written, counted, begun, memory>>
      /\ UNCHANGED history
  BY DEF Deliver
<1>2. NextTurn \in Turn
  BY <1>1, BoundsAssumption DEF RowTypes, Stage, Sending, NextTurn, Turn
<1>3. /\ conversation' \in Seq(Turn) /\ Len(conversation') = Len(conversation) + 1
      /\ Len(conversation) \in Nat /\ Len(conversation') <= MaxSent
  BY <1>1, <1>2, BoundsAssumption DEF FileTypes, Metered, Sending
<1>4. FileTypes' /\ HistoryTypes'
  BY <1>1, <1>3 DEF FileTypes, HistoryTypes
<1>5. RowTypes' /\ ProcessTypes'
  BY <1>1 DEF RowTypes, ProcessTypes, Steps, history
<1>6. Stage' /\ OneHistory'
  BY <1>1 DEF Stage, OneHistory, Sending, Sent
<1>7. Metered'
  <2>1. /\ begun' = counted /\ counted' = counted /\ saved' = saved
        /\ counted <= Quota(Len(conversation)) /\ saved <= Quota(Len(conversation))
    BY <1>1 DEF Metered, Sending
  <2>2. /\ counted \in Nat /\ saved \in Nat /\ MaxCalls \in Nat
    BY BoundsAssumption, QuotaGrows DEF FileTypes, ProcessTypes, Count
  <2>3. /\ Len(conversation)' - 1 = Len(conversation) /\ Len(conversation)' > 0
        /\ Quota(Len(conversation))' = Quota(Len(conversation)) + MaxCalls
        /\ Quota(Len(conversation)) \in Nat
    BY <1>3, QuotaGrows
  <2>4. /\ begun' <= Quota(Len(conversation)' - 1) /\ counted' <= begun' + MaxCalls
        /\ saved' <= Quota(Len(conversation))' /\ counted' <= Quota(Len(conversation))'
    BY <2>1, <2>2, <2>3
  <2> QED BY <1>1, <2>3, <2>4 DEF Metered, Sending
<1> QED BY <1>4, <1>5, <1>6, <1>7

LEMMA RunInvRequests == ASSUME RunInv, SourceRequest PROVE RunInv'
<1> USE DEF RunInv, Typed
<1>1. /\ pc = "turn" /\ counted < begun + MaxCalls /\ counted' = counted + 1
      /\ UNCHANGED <<root, pc, turns, rows, written, begun, memory>>
      /\ UNCHANGED history
  BY DEF SourceRequest
<1>2. /\ Len(conversation) - 1 \in Nat /\ Len(conversation) \in 0 .. MaxSent
      /\ begun <= Quota(Len(conversation) - 1)
  BY <1>1, BoundsAssumption DEF FileTypes, Metered, Sent
<1>3. /\ counted \in Nat /\ begun \in Nat /\ MaxCalls \in Nat
  BY BoundsAssumption, QuotaGrows DEF FileTypes, ProcessTypes, Count
<1>4. Quota(Len(conversation)) = Quota(Len(conversation) - 1) + MaxCalls
  <2>1. Quota((Len(conversation) - 1) + 1) = Quota(Len(conversation) - 1) + MaxCalls
    BY <1>2, QuotaGrows
  <2>2. (Len(conversation) - 1) + 1 = Len(conversation)
    BY <1>2
  <2> QED BY <2>1, <2>2
<1>5. counted' <= Quota(Len(conversation)) /\ counted' <= begun + MaxCalls
  <2>1. Quota(Len(conversation) - 1) \in Nat
    BY <1>2, QuotaGrows
  <2> QED BY <1>1, <1>2, <1>3, <1>4, <2>1
<1>6. counted' \in Count
  <2>1. Quota(Len(conversation)) \in Count /\ MaxCalls * MaxSent \in Nat
    BY <1>2, QuotaGrows, BoundsAssumption
  <2> QED BY <1>1, <1>3, <1>5, <2>1 DEF Count
<1>7. Metered'
  BY <1>1, <1>5 DEF Metered, Sending, Sent, root
<1>8. FileTypes' /\ HistoryTypes' /\ RowTypes'
  BY <1>1 DEF FileTypes, HistoryTypes, RowTypes, root
<1>9. ProcessTypes' /\ Stage' /\ OneHistory'
  BY <1>1, <1>6 DEF ProcessTypes, Stage, OneHistory, root, history
<1> QED BY <1>7, <1>8, <1>9

LEMMA RunInvEndsTurn ==
    ASSUME RunInv, NEW result \in {"complete", "timeout"}, TurnEnds(result)
    PROVE  RunInv'
<1> USE DEF RunInv, Typed
<1>1. /\ pc = "turn" /\ pc' \in {"calls", "calls of timeout"}
      /\ memory' = {Observed(h, This) : h \in Loaded}
      /\ UNCHANGED <<root, turns, rows, written, counted, begun>>
      /\ UNCHANGED history
  BY DEF TurnEnds
<1>2. memory' \in SUBSET Histories /\ \A g, h \in memory' : g = h
  <2>1. This \in Row
    BY <1>1, ThisType DEF Sent
  <2> QED BY <1>1, <2>1, LoadedType, ObservedType
<1>3. FileTypes' /\ HistoryTypes'
  BY <1>1, <1>2 DEF FileTypes, HistoryTypes, root
<1>4. RowTypes' /\ ProcessTypes'
  BY <1>1 DEF RowTypes, ProcessTypes, Steps, root, history
<1>5. Stage' /\ Metered'
  BY <1>1 DEF Stage, Metered, Sending, Sent, root
<1> QED BY <1>2, <1>3, <1>4, <1>5 DEF OneHistory

(* The result of a turn. *)
LEMMA RunInvCommits == ASSUME RunInv, Commit PROVE RunInv'
<1> USE DEF RunInv, Typed
<1>1. /\ pc = "commit" /\ pc' = "save" /\ Len(committed) < LastTurn
      /\ committed' = Append(committed, [by |-> Len(conversation), counted |-> counted])
      /\ turns' = Append(turns, Len(conversation))
      /\ UNCHANGED <<prepared, conversation, saved, calls, queries, ledger, rows>>
      /\ UNCHANGED <<written, counted, begun, memory>>
      /\ UNCHANGED history
  BY DEF Commit, Prefix!Extend
<1>2. Len(conversation) \in Execution
  BY <1>1, ThisType DEF Sent
<1>3. /\ committed' \in Seq([by : Execution, counted : Count])
      /\ Len(committed') = Len(committed) + 1 /\ Len(committed) \in Nat
  <2>1. [by |-> Len(conversation), counted |-> counted] \in [by : Execution, counted : Count]
    BY <1>2 DEF ProcessTypes
  <2>2. committed \in Seq([by : Execution, counted : Count])
    BY DEF FileTypes
  <2> QED BY <1>1, <2>1, <2>2, AppendType
<1>4. turns' \in Seq(Execution) /\ Len(turns') = Len(turns) + 1 /\ Len(turns) \in Nat
  BY <1>1, <1>2, AppendType DEF RowTypes
<1>5. /\ Len(rows) = Len(turns) /\ Len(turns) < LastTurn /\ LastTurn \in Nat
  BY <1>1, BoundsAssumption DEF Stage, Sent
<1>6. FileTypes'
  <2>1. Len(committed') <= LastTurn
    BY <1>1, <1>3, <1>5
  <2> QED BY <1>1, <1>3, <2>1 DEF FileTypes
<1>7. RowTypes'
  BY <1>1, <1>4, <1>5 DEF RowTypes
<1>8. HistoryTypes' /\ ProcessTypes' /\ OneHistory'
  BY <1>1 DEF HistoryTypes, ProcessTypes, Steps, OneHistory, history
<1>9. Stage'
  BY <1>1, <1>4, <1>5 DEF Stage, Sending, Sent
<1>10. Metered'
  BY <1>1 DEF Metered, Sending, Sent
<1> QED BY <1>6, <1>7, <1>8, <1>9, <1>10

LEMMA RunInvSaves == ASSUME RunInv, SaveSource PROVE RunInv'
<1> USE DEF RunInv, Typed
<1>1. /\ pc = "save" /\ pc' \in {"rows", "idle"} /\ saved' = counted /\ turns' = turns
      /\ rows' = Append(rows, [turn |-> Len(turns), by |-> turns[Len(turns)]])
      /\ UNCHANGED <<prepared, conversation, committed, calls, queries, ledger>>
      /\ UNCHANGED <<written, counted, begun, memory>>
      /\ UNCHANGED history
  BY DEF SaveSource, RowOf
<1>2. Len(turns) = Len(rows) + 1 /\ Len(rows) \in Nat
  BY <1>1 DEF Stage, RowTypes
<1>3. [turn |-> Len(turns), by |-> turns[Len(turns)]] \in Row
  BY <1>2, BoundsAssumption DEF RowTypes, Row, Turn
<1>4. rows' \in Seq(Row) /\ Len(rows') = Len(rows) + 1
  BY <1>1, <1>3, AppendType DEF RowTypes
<1>5. written = 0 /\ saved' \in Count
  BY <1>1 DEF Stage, ProcessTypes
<1>6. FileTypes' /\ HistoryTypes' /\ ProcessTypes' /\ OneHistory'
  BY <1>1, <1>5 DEF FileTypes, HistoryTypes, ProcessTypes, Steps, OneHistory, history
<1>7. RowTypes'
  <2>1. Len(rows') <= Len(turns') /\ written' \in 0 .. Len(rows')
    BY <1>1, <1>2, <1>4, <1>5
  <2> QED BY <1>1, <1>4, <2>1 DEF RowTypes
<1>8. Stage'
  BY <1>1, <1>2, <1>4, <1>5 DEF Stage, Sending, Sent
<1>9. Metered'
  BY <1>1 DEF Metered, Sending, Sent
<1> QED BY <1>6, <1>7, <1>8, <1>9

LEMMA RunInvTimesOut == ASSUME RunInv, TimedOut PROVE RunInv'
<1> USE DEF RunInv, Typed
<1>1. /\ pc = "timeout" /\ pc' = "rows"
      /\ turns' = Append(turns, Len(conversation))
      /\ rows' = Append(rows, [turn |-> Len(turns) + 1, by |-> turns'[Len(turns) + 1]])
      /\ UNCHANGED <<root, written, counted, begun, memory>>
      /\ UNCHANGED history
  BY DEF TimedOut, RowOf
<1>2. /\ Len(conversation) \in Execution /\ Len(turns) + 1 \in Turn
  BY <1>1, ThisType DEF Sent, NextTurn
<1>3. /\ turns' \in Seq(Execution) /\ Len(turns') = Len(turns) + 1
      /\ turns'[Len(turns) + 1] = Len(conversation) /\ Len(turns) \in Nat
  BY <1>1, <1>2, AppendType DEF RowTypes
<1>4. /\ rows' \in Seq(Row) /\ Len(rows') = Len(rows) + 1 /\ Len(rows) \in Nat
  <2>1. [turn |-> Len(turns) + 1, by |-> turns'[Len(turns) + 1]] \in Row
    BY <1>2, <1>3 DEF Row
  <2> QED BY <1>1, <2>1, AppendType DEF RowTypes
<1>5. /\ Len(rows) = Len(turns) /\ Len(turns) < LastTurn /\ LastTurn \in Nat /\ written = 0
  BY <1>1, BoundsAssumption DEF Stage, Sent
<1>6. FileTypes' /\ HistoryTypes' /\ ProcessTypes' /\ OneHistory'
  BY <1>1 DEF FileTypes, HistoryTypes, ProcessTypes, Steps, OneHistory, root, history
<1>7. RowTypes'
  <2>1. /\ Len(rows') <= Len(turns') /\ Len(turns') <= LastTurn
        /\ written' \in 0 .. Len(rows') /\ ledger' = ledger
    BY <1>1, <1>3, <1>4, <1>5 DEF root
  <2> QED BY <1>3, <1>4, <2>1 DEF RowTypes
<1>8. Stage'
  BY <1>1, <1>3, <1>4, <1>5 DEF Stage, Sending, Sent, root
<1>9. Metered'
  BY <1>1 DEF Metered, Sending, Sent, root
<1> QED BY <1>6, <1>7, <1>8, <1>9

(* The end of a process. *)
LEMMA RunInvAppends == ASSUME RunInv, AppendRow PROVE RunInv'
<1> USE DEF RunInv, Typed
<1>1. /\ pc = "rows" /\ pc' = pc /\ written < Len(rows) /\ written' = written + 1
      /\ ledger' = Append(ledger, rows[written + 1])
      /\ UNCHANGED <<prepared, conversation, committed, saved, calls, queries>>
      /\ UNCHANGED <<turns, rows, counted, begun, memory>>
      /\ UNCHANGED history
  BY DEF AppendRow
<1>2. written \in Nat /\ Len(rows) \in Nat /\ rows[written + 1] \in Row
  BY <1>1 DEF RowTypes
<1>3. ledger' \in Seq(Row)
  BY <1>1, <1>2, AppendType DEF RowTypes
<1>4. RowTypes'
  BY <1>1, <1>2, <1>3 DEF RowTypes
<1>5. FileTypes' /\ HistoryTypes' /\ ProcessTypes' /\ OneHistory'
  BY <1>1 DEF FileTypes, HistoryTypes, ProcessTypes, OneHistory, history
<1>6. Stage' /\ Metered'
  BY <1>1 DEF Stage, Metered, Sending, Sent
<1> QED BY <1>4, <1>5, <1>6

LEMMA RunInvCloses ==
    ASSUME RunInv, CommitRefused \/ RowsDone \/ SessionFails
    PROVE  RunInv'
<1> USE DEF RunInv, Typed
<1>1. /\ pc \in {"commit", "rows", "turn"} /\ pc' = "close"
      /\ UNCHANGED <<root, turns, rows, written, counted, begun, memory>>
      /\ UNCHANGED history
  BY DEF CommitRefused, RowsDone, SessionFails
<1>2. FileTypes' /\ HistoryTypes' /\ RowTypes' /\ ProcessTypes' /\ OneHistory'
  BY <1>1 DEF FileTypes, HistoryTypes, RowTypes, ProcessTypes, Steps, OneHistory, root, history
<1>3. Stage' /\ Metered'
  BY <1>1 DEF Stage, Metered, Sending, Sent, root
<1> QED BY <1>2, <1>3

LEMMA RunInvGone ==
    ASSUME RunInv, Gone, saved' \in {saved, counted},
           UNCHANGED <<conversation, committed, ledger>>,
           prepared' = prepared, pc # "down",
           calls' \in [last : 0 .. LastTurn, rows : SUBSET Row],
           queries' \in SUBSET Row, crashes' \in 0 .. MaxCrash,
           rewound' \in BOOLEAN, cutSave' \in BOOLEAN, cutDiscard' \in BOOLEAN
    PROVE  RunInv'
<1> USE DEF RunInv, Typed
<1>1. /\ pc' = "down" /\ turns' = <<>> /\ rows' = <<>> /\ written' = 0
      /\ counted' = 0 /\ begun' = 0 /\ memory' = {}
  BY DEF Gone
<1>2. /\ 0 \in Count /\ saved' \in Count /\ saved' <= Quota(Len(conversation))
      /\ Quota(Len(conversation)) \in Nat
  <2>1. Quota(Len(conversation)) \in Nat
    BY QuotaGrows DEF FileTypes
  <2>2. saved \in Count /\ counted \in Count /\ 0 \in Count
    BY BoundsAssumption, QuotaGrows DEF FileTypes, ProcessTypes, Count
  <2>3. saved <= Quota(Len(conversation)) /\ counted <= Quota(Len(conversation))
    BY DEF Metered
  <2> QED BY <2>1, <2>2, <2>3
<1>3. FileTypes' /\ HistoryTypes'
  BY <1>1, <1>2 DEF FileTypes, HistoryTypes
<1>4. RowTypes'
  BY <1>1, BoundsAssumption DEF RowTypes
<1>5. ProcessTypes' /\ Stage' /\ OneHistory'
  BY <1>1, <1>2 DEF ProcessTypes, Steps, Stage, OneHistory, Sending, Sent
<1>6. Metered'
  <2>1. Quota(Len(conversation))' = Quota(Len(conversation))
    OBVIOUS
  <2>2. saved' <= Quota(Len(conversation))' /\ counted' <= Quota(Len(conversation))'
    BY <1>1, <1>2, <2>1
  <2> QED BY <1>1, <2>2 DEF Metered, Sending, Sent
<1> QED BY <1>3, <1>4, <1>5, <1>6

LEMMA RunInvEnds == ASSUME RunInv, Close \/ Crash \/ CrashOfRunner PROVE RunInv'
<1> USE DEF RunInv, Typed
<1>1. CASE Close
  BY <1>1, RunInvGone DEF Close, HistoryTypes, ProcessTypes, history
<1>2. CASE Crash
  <2>1. /\ crashes' \in 0 .. MaxCrash /\ cutSave' \in BOOLEAN /\ cutDiscard' \in BOOLEAN
        /\ rewound' \in BOOLEAN
    <3>1. crashes' \in 0 .. MaxCrash
      <4>1. crashes < MaxCrash /\ crashes' = crashes + 1
        BY <1>2 DEF Crash
      <4>2. crashes \in 0 .. MaxCrash
        BY DEF ProcessTypes
      <4> QED BY <4>1, <4>2, BoundsAssumption
    <3>2. cutSave' = (cutSave \/ pc = "save") /\ cutDiscard' = (cutDiscard \/ pc = "discard queries")
      BY <1>2 DEF Crash
    <3>3. rewound' \in BOOLEAN
      BY <1>2 DEF Crash, ProcessTypes
    <3> QED BY <3>1, <3>2, <3>3
  <2>2. /\ calls' \in [last : 0 .. LastTurn, rows : SUBSET Row] /\ queries' \in SUBSET Row
    BY <1>2 DEF Crash, HistoryTypes, root
  <2>3. /\ Gone /\ pc # "down" /\ saved' = saved /\ prepared' = prepared
        /\ UNCHANGED <<conversation, committed, ledger>>
    BY <1>2 DEF Crash, root
  <2> QED BY <2>1, <2>2, <2>3, RunInvGone
<1>3. CASE CrashOfRunner
  <2>1. PICK h \in Loaded : /\ calls' = [last |-> Observed(h, This).last,
                                         rows |-> Observed(h, This).rows]
                            /\ queries' = Observed(h, This).queries
    BY <1>3 DEF CrashOfRunner
  <2>2. Observed(h, This) \in Histories
    BY <1>3, ThisType, LoadedType, ObservedType DEF CrashOfRunner, Sent
  <2>3. calls' \in [last : 0 .. LastTurn, rows : SUBSET Row] /\ queries' \in SUBSET Row
    BY <2>1, <2>2 DEF Histories
  <2> QED BY <1>3, <2>3, RunInvGone, BoundsAssumption DEF CrashOfRunner, ProcessTypes
<1> QED BY <1>1, <1>2, <1>3

LEMMA RunInvStep == RunInv /\ [Next]_vars => RunInv'
<1> SUFFICES ASSUME RunInv, [Next]_vars PROVE RunInv'
  OBVIOUS
<1>1. CASE Next
  BY <1>1, RunInvStarts, RunInvReplays, RunInvSends, RunInvWrites, RunInvDelivers,
     RunInvRequests, RunInvEndsTurn, RunInvCommits, RunInvSaves, RunInvTimesOut,
     RunInvAppends, RunInvCloses, RunInvEnds
     DEF Next
<1>2. CASE UNCHANGED vars
  BY <1>2 DEF vars, RunInv, Typed, FileTypes, HistoryTypes, RowTypes, ProcessTypes,
              Stage, Metered, OneHistory
<1> QED BY <1>1, <1>2

\* Every variable of a native run has its type, in particular: no more rows are
\* recorded than turns, none is written that the engine does not have, and the
\* adapter holds one history (NativeRun.TypeOK).
THEOREM RunIsTyped == Spec => []TypeOK
<1>1. Spec => []RunInv
  BY RunInvInit, RunInvStep, PTL DEF Spec
<1>2. RunInv => TypeOK
  BY TypedIsTypeOK DEF RunInv
<1> QED BY <1>1, <1>2, PTL
-----------------------------------------------------------------------------
(* The records of a run, kept in different files by different writers,     *)
(* speak of the same executions                                            *)


(* The recording of a process starts with the committed prefix, and the    *)
(* engine has one row for each turn, in order.                             *)
Linked ==
    /\ ~rewound /\ pc # "down" =>
           /\ Len(committed) <= Len(turns)
           /\ \A t \in 1 .. Len(committed) : turns[t] = committed[t].by
    /\ \A i \in 1 .. Len(rows) : rows[i].turn = i /\ rows[i].by = turns[i]

(* The last rows of the ledger are those this process has written.         *)
TailIsOurs ==
    /\ written <= Len(ledger)
    /\ \A i \in 1 .. written : ledger[Len(ledger) - written + i] = rows[i]
    /\ pc = "close" /\ written > 0 => written = Len(rows)

(* The source has counted what the committed turns had, and has it in its  *)
(* file but for the moment after a commit.                                 *)
CountsKept ==
    ~cutSave =>
        /\ pc # "save" => \A t \in 1 .. Len(committed) : saved >= committed[t].counted
        /\ pc # "down" => \A t \in 1 .. Len(committed) : counted >= committed[t].counted

Quiet == UNCHANGED <<committed, turns, rows, rewound>> /\ pc # "down"
-----------------------------------------------------------------------------
(* The recording and its rows *)

LEMMA QuietSteps ==
    ASSUME \/ SendTurn \/ DiscardWrites \/ Deliver \/ SourceRequest
           \/ \E result \in {"complete", "timeout"} : TurnEnds(result)
           \/ HistoryWrites \/ CommitRefused \/ AppendRow \/ RowsDone \/ SessionFails
    PROVE  Quiet
<1> USE DEF Quiet, root, history
<1>1. CASE SendTurn \/ Deliver \/ SourceRequest
  BY <1>1 DEF SendTurn, Deliver, SourceRequest
<1>2. CASE DiscardWrites \/ HistoryWrites
  BY <1>2 DEF DiscardWrites, HistoryWrites, WriteCalls, WriteQueries
<1>3. CASE \E result \in {"complete", "timeout"} : TurnEnds(result)
  BY <1>3 DEF TurnEnds
<1>4. CASE CommitRefused \/ AppendRow \/ RowsDone \/ SessionFails
  BY <1>4 DEF CommitRefused, AppendRow, RowsDone, SessionFails
<1> QED BY <1>1, <1>2, <1>3, <1>4

LEMMA EndSteps ==
    ASSUME Close \/ Crash \/ CrashOfRunner
    PROVE  /\ Gone /\ pc # "down"
           /\ UNCHANGED <<prepared, conversation, committed, ledger, rewound>>
BY DEF Close, Crash, CrashOfRunner, root, history

LEMMA LinkedStep ==
    ASSUME RunInv, Linked, [Next]_vars
    PROVE  Linked'
<1>t. /\ committed \in Seq([by : Execution, counted : Count])
      /\ turns \in Seq(Execution) /\ rows \in Seq(Row) /\ Len(rows) <= Len(turns)
  BY DEF RunInv, Typed, FileTypes, RowTypes
<1>1. CASE StartFresh
  <2>1. /\ ~prepared /\ turns' = <<>> /\ rows' = <<>> /\ committed' = committed
    BY <1>1 DEF StartFresh
  <2>2. committed' = <<>>
    BY <2>1 DEF RunInv, Stage
  <2> QED BY <2>1, <2>2 DEF Linked
<1>2. ASSUME NEW n \in Turn, Resume(n) PROVE Linked'
  <2>1. /\ n \in 1 .. Len(committed) /\ turns' = [t \in 1 .. n |-> committed[t].by]
        /\ rows' = <<>> /\ committed' = committed
        /\ rewound' = (rewound \/ n < Len(committed))
    BY <1>2, <1>t DEF Resume, root
  <2>2. Len(turns') = n
    BY <2>1, <1>t
  <2>3. ~rewound' => n = Len(committed)
    <3>1. ~rewound' => ~(n < Len(committed))
      BY <2>1
    <3> QED BY <2>1, <3>1, <1>t
  <2> QED BY <2>1, <2>2, <2>3 DEF Linked
<1>3. CASE ReplayTurn
  <2>1. /\ turns' = turns /\ Len(rows) < Len(turns) /\ pc' = pc
        /\ rows' = Append(rows, [turn |-> Len(rows) + 1, by |-> turns[Len(rows) + 1]])
        /\ UNCHANGED <<committed, rewound>>
    BY <1>3 DEF ReplayTurn, RowOf, root, history
  <2>2. \A i \in 1 .. Len(rows') : rows'[i].turn = i /\ rows'[i].by = turns[i]
    BY <2>1, <1>t DEF Linked
  <2> QED BY <2>1, <2>2 DEF Linked
<1>4. CASE Quiet
  BY <1>4 DEF Quiet, Linked
<1>5. CASE Commit
  <2>1. /\ Len(turns) = Len(committed)
        /\ committed' = Append(committed, [by |-> Len(conversation), counted |-> counted])
        /\ turns' = Append(turns, Len(conversation))
        /\ UNCHANGED <<rows, rewound>> /\ pc # "down"
    BY <1>5 DEF Commit, Prefix!Extend, history
  <2>2. ASSUME ~rewound
        PROVE  /\ Len(committed') <= Len(turns')
               /\ \A t \in 1 .. Len(committed') : turns'[t] = committed'[t].by
    BY <2>1, <2>2, <1>t DEF Linked
  <2>3. \A i \in 1 .. Len(rows') : rows'[i].turn = i /\ rows'[i].by = turns'[i]
    BY <2>1, <1>t DEF Linked
  <2> QED BY <2>1, <2>2, <2>3 DEF Linked
<1>6. CASE SaveSource
  <2>1. /\ turns' = turns /\ pc = "save"
        /\ rows' = Append(rows, [turn |-> Len(turns), by |-> turns[Len(turns)]])
        /\ UNCHANGED <<committed, rewound>>
    BY <1>6 DEF SaveSource, RowOf, history
  <2>2. Len(turns) = Len(rows) + 1
    BY <2>1 DEF RunInv, Stage
  <2>3. \A i \in 1 .. Len(rows') : rows'[i].turn = i /\ rows'[i].by = turns[i]
    BY <2>1, <2>2, <1>t DEF Linked
  <2> QED BY <2>1, <2>3 DEF Linked
<1>7. CASE TimedOut
  <2>1. /\ turns' = Append(turns, Len(conversation)) /\ pc = "timeout"
        /\ rows' = Append(rows, [turn |-> Len(turns) + 1, by |-> turns'[Len(turns) + 1]])
        /\ UNCHANGED <<committed, rewound>>
    BY <1>7 DEF TimedOut, RowOf, root, history
  <2>2. Len(turns) = Len(rows)
    BY <2>1 DEF RunInv, Stage, Sent
  <2>3. \A i \in 1 .. Len(rows') : rows'[i].turn = i /\ rows'[i].by = turns'[i]
    BY <2>1, <2>2, <1>t DEF Linked
  <2>4. ASSUME ~rewound
        PROVE  /\ Len(committed') <= Len(turns')
               /\ \A t \in 1 .. Len(committed') : turns'[t] = committed'[t].by
    BY <2>1, <2>4, <1>t DEF Linked
  <2> QED BY <2>1, <2>3, <2>4 DEF Linked
<1>8. CASE Gone /\ UNCHANGED <<committed, rewound>>
  BY <1>8 DEF Gone, Linked
<1>9. CASE UNCHANGED vars
  BY <1>9 DEF vars, Linked
<1> QED BY <1>1, <1>2, <1>3, <1>4, <1>5, <1>6, <1>7, <1>8, <1>9, QuietSteps, EndSteps DEF Next
-----------------------------------------------------------------------------
(* What is sent *)

LEMMA NotResentStep ==
    ASSUME RunInv, Linked, CommittedTurnsAreNotResent, [Next]_vars
    PROVE  CommittedTurnsAreNotResent'
<1>t. /\ committed \in Seq([by : Execution, counted : Count])
      /\ conversation \in Seq(Turn) /\ turns \in Seq(Execution)
  BY DEF RunInv, Typed, FileTypes, RowTypes
<1>1. CASE Deliver
  <2>1. /\ pc = "deliver" /\ conversation' = Append(conversation, Len(turns) + 1)
        /\ UNCHANGED <<committed, rewound>>
    BY <1>1 DEF Deliver, NextTurn, history
  <2>a. /\ DOMAIN committed' = 1 .. Len(committed) /\ committed' = committed
        /\ DOMAIN conversation' = 1 .. Len(conversation) + 1 /\ rewound' = rewound
    BY <2>1, <1>t
  <2>2. SUFFICES ASSUME ~rewound, NEW t \in 1 .. Len(committed),
                        NEW e \in 1 .. Len(conversation) + 1, e > committed[t].by
                 PROVE  conversation'[e] > t
    BY <2>a DEF CommittedTurnsAreNotResent
  <2>3. CASE e = Len(conversation) + 1
    <3>1. Len(committed) <= Len(turns)
      BY <2>1, <2>2 DEF Linked
    <3> QED BY <2>1, <2>3, <3>1, <1>t
  <2>4. CASE e \in 1 .. Len(conversation)
    <3>1. conversation'[e] = conversation[e]
      BY <2>1, <2>4, <1>t
    <3> QED BY <2>2, <2>4, <3>1, <1>t DEF CommittedTurnsAreNotResent
  <2> QED BY <2>3, <2>4, <1>t
<1>2. CASE Commit
  <2>1. /\ committed' = Append(committed, [by |-> Len(conversation), counted |-> counted])
        /\ UNCHANGED <<conversation, rewound>>
    BY <1>2 DEF Commit, Prefix!Extend, history
  <2>2. SUFFICES ASSUME ~rewound, NEW t \in 1 .. Len(committed) + 1,
                        NEW e \in 1 .. Len(conversation), e > committed'[t].by
                 PROVE  conversation[e] > t
    BY <2>1, <1>t DEF CommittedTurnsAreNotResent
  <2>3. CASE t = Len(committed) + 1
    <3>1. committed'[t] = [by |-> Len(conversation), counted |-> counted]
      BY <2>1, <2>3, <1>t
    <3> QED BY <2>2, <3>1, <1>t
  <2>4. CASE t \in 1 .. Len(committed)
    <3>1. committed'[t] = committed[t]
      BY <2>1, <2>4, <1>t
    <3> QED BY <2>2, <2>4, <3>1, <1>t DEF CommittedTurnsAreNotResent
  <2> QED BY <2>3, <2>4, <1>t
<1>3. CASE UNCHANGED <<committed, conversation>> /\ (rewound => rewound')
  BY <1>3 DEF CommittedTurnsAreNotResent
<1>4. ASSUME NEW n \in Turn, Resume(n)
      PROVE  UNCHANGED <<committed, conversation>> /\ (rewound => rewound')
  BY <1>4 DEF Resume, root
<1>5. ASSUME \/ StartFresh \/ ReplayTurn \/ SendTurn \/ SourceRequest \/ CommitRefused
             \/ SaveSource \/ TimedOut \/ AppendRow \/ RowsDone \/ SessionFails
      PROVE  UNCHANGED <<committed, conversation, rewound>>
  BY <1>5 DEF StartFresh, ReplayTurn, SendTurn, SourceRequest, CommitRefused, SaveSource,
              TimedOut, AppendRow, RowsDone, SessionFails, root, history
<1>6. ASSUME DiscardWrites \/ HistoryWrites
      PROVE  UNCHANGED <<committed, conversation, rewound>>
  BY <1>6 DEF DiscardWrites, HistoryWrites, WriteCalls, WriteQueries, history
<1>7. ASSUME NEW result \in {"complete", "timeout"}, TurnEnds(result)
      PROVE  UNCHANGED <<committed, conversation, rewound>>
  BY <1>7 DEF TurnEnds, root, history
<1>8. ASSUME Close \/ Crash \/ CrashOfRunner
      PROVE  UNCHANGED <<committed, conversation, rewound>>
  BY <1>8, EndSteps
<1>9. ASSUME UNCHANGED vars
      PROVE  UNCHANGED <<committed, conversation, rewound>>
  BY <1>9 DEF vars
<1>10. \/ Deliver \/ Commit
       \/ UNCHANGED <<committed, conversation>> /\ (rewound => rewound')
  BY <1>4, <1>5, <1>6, <1>7, <1>8, <1>9 DEF Next
<1> QED BY <1>1, <1>2, <1>3, <1>10

-----------------------------------------------------------------------------
(* The rows in the ledger *)

LEMMA TailStep ==
    ASSUME RunInv, RunInv', TailIsOurs, [Next]_vars
    PROVE  TailIsOurs'
<1>t. /\ ledger \in Seq(Row) /\ rows \in Seq(Row) /\ written \in Nat
      /\ written <= Len(rows)
  BY DEF RunInv, Typed, RowTypes
<1>1. CASE AppendRow
  <2>1. /\ pc = "rows" /\ pc' = pc /\ written < Len(rows) /\ written' = written + 1
        /\ ledger' = Append(ledger, rows[written + 1]) /\ rows' = rows
    BY <1>1 DEF AppendRow
  <2>2. /\ Len(ledger') = Len(ledger) + 1
        /\ ledger'[Len(ledger) + 1] = rows[written + 1]
        /\ \A i \in 1 .. Len(ledger) : ledger'[i] = ledger[i]
    <3>1. rows[written + 1] \in Row
      BY <2>1, <1>t, ElementOf
    <3> QED BY <2>1, <3>1, <1>t, AppendType
  <2>3. Len(ledger') - written' = Len(ledger) - written
    BY <2>1, <2>2, <1>t
  <2>4. ASSUME NEW i \in 1 .. written'
        PROVE  ledger'[Len(ledger') - written' + i] = rows'[i]
    <3>1. CASE i = written + 1
      <4>1. Len(ledger') - written' + i = Len(ledger) + 1
        BY <2>3, <3>1, <1>t
      <4> QED BY <2>1, <2>2, <3>1, <4>1
    <3>2. CASE i \in 1 .. written
      <4>1. Len(ledger) - written + i \in 1 .. Len(ledger)
        BY <3>2, <1>t DEF TailIsOurs
      <4>2. ledger'[Len(ledger) - written + i] = rows[i]
        BY <2>2, <3>2, <4>1 DEF TailIsOurs
      <4>3. Len(ledger') - written' + i = Len(ledger) - written + i
        BY <2>3
      <4>4. rows' = rows
        BY <2>1
      <4> QED BY <4>2, <4>3, <4>4, Zenon
    <3>3. i = written + 1 \/ i \in 1 .. written
      BY <2>1, <1>t
    <3> QED BY <3>1, <3>2, <3>3
  <2>5. written' <= Len(ledger')
    BY <2>1, <2>2, <1>t DEF TailIsOurs
  <2> QED BY <2>1, <2>4, <2>5 DEF TailIsOurs
<1>2. CASE written' = 0
  <2>1. ledger' \in Seq(Row)
    BY DEF RunInv, Typed, RowTypes
  <2> QED BY <1>2, <2>1 DEF TailIsOurs
<1>3. CASE RowsDone
  BY <1>3 DEF RowsDone, TailIsOurs, root
<1>4. CASE UNCHANGED vars
  BY <1>4 DEF vars, TailIsOurs
<1>5. CASE CommitRefused \/ SessionFails
  <2>1. written' = written /\ pc \in {"commit", "turn"}
    BY <1>5 DEF CommitRefused, SessionFails
  <2> QED BY <1>2, <2>1 DEF RunInv, Stage
<1>6. CASE pc' \notin {"rows", "close"}
  <2>1. written' = 0
    BY <1>6 DEF RunInv, Stage
  <2> QED BY <2>1, <1>2
<1>7. CASE SaveSource \/ TimedOut
  <2>1. written' = written /\ pc \in {"save", "timeout"}
    BY <1>7 DEF SaveSource, TimedOut
  <2> QED BY <1>2, <2>1 DEF RunInv, Stage
<1>8. CASE StartFresh \/ ReplayTurn \/ SendTurn \/ Deliver \/ SourceRequest \/ Commit
  BY <1>6, <1>8 DEF StartFresh, ReplayTurn, SendTurn, Deliver, SourceRequest, Commit
<1>9. CASE DiscardWrites \/ HistoryWrites
  BY <1>6, <1>9 DEF DiscardWrites, HistoryWrites, WriteCalls, WriteQueries
<1>10. CASE \/ \E n \in Turn : Resume(n)
            \/ \E result \in {"complete", "timeout"} : TurnEnds(result)
  BY <1>6, <1>10 DEF Resume, TurnEnds
<1>11. CASE Close \/ Crash \/ CrashOfRunner
  BY <1>6, <1>11, EndSteps DEF Gone
<1> QED BY <1>1, <1>3, <1>4, <1>5, <1>7, <1>8, <1>9, <1>10, <1>11 DEF Next

LEMMA TailIsGraded ==
    ASSUME RunInv, Linked, TailIsOurs
    PROVE  GradedLedgerIsOfCommitted
<1>1. SUFFICES ASSUME pc = "close", written > 0, ~rewound, NEW t \in DOMAIN committed
               PROVE  LastRowOf(t) = {committed[t].by}
  BY DEF GradedLedgerIsOfCommitted
<1>t. /\ committed \in Seq([by : Execution, counted : Count])
      /\ turns \in Seq(Execution) /\ rows \in Seq(Row) /\ ledger \in Seq(Row)
      /\ t \in 1 .. Len(committed)
  BY DEF RunInv, Typed, FileTypes, RowTypes
<1>2. /\ written = Len(rows) /\ Len(rows) = Len(turns) /\ Len(committed) <= Len(turns)
      /\ turns[t] = committed[t].by
  BY <1>1, <1>t DEF TailIsOurs, Linked, RunInv, Stage
<1> DEFINE base == Len(ledger) - written
           at == {i \in DOMAIN ledger : ledger[i].turn = t}
<1>3. /\ base \in Nat /\ Len(ledger) = base + Len(rows) /\ t \in 1 .. Len(rows)
      /\ DOMAIN ledger = 1 .. Len(ledger)
  BY <1>1, <1>2, <1>t DEF TailIsOurs
<1>4. ASSUME NEW i \in 1 .. Len(rows)
      PROVE  ledger[base + i].turn = i /\ ledger[base + i].by = turns[i]
  <2>1. ledger[base + i] = rows[i]
    BY <1>2 DEF TailIsOurs
  <2> QED BY <2>1 DEF Linked
<1>5. base + t \in at
  <2>1. base + t \in DOMAIN ledger
    BY <1>3, <1>t
  <2> QED BY <1>3, <1>4, <2>1
<1>6. ASSUME NEW k \in at PROVE k <= base + t
  <2>1. k \in 1 .. Len(ledger) /\ ledger[k].turn = t
    BY <1>3
  <2>2. CASE k > base
    <3>1. k - base \in 1 .. Len(rows) /\ k = base + (k - base)
      BY <1>3, <2>1, <2>2
    <3>2. ledger[k].turn = k - base
      BY <1>4, <3>1
    <3> QED BY <1>3, <2>1, <3>1, <3>2
  <2>3. CASE k <= base
    BY <1>3, <2>1, <2>3
  <2> QED BY <1>3, <2>1, <2>2, <2>3
<1>7. {j \in at : \A k \in at : k <= j} = {base + t}
  <2>1. \A k \in at : k \in Nat
    BY <1>3
  <2>2. base + t \in Nat
    BY <1>3
  <2>3. \A j \in at : (\A k \in at : k <= j) => j = base + t
    BY <1>5, <1>6, <2>1, <2>2
  <2> QED BY <1>5, <1>6, <2>3
<1>8. LastRowOf(t) = {ledger[base + t].by}
  BY <1>7 DEF LastRowOf
<1> QED BY <1>2, <1>3, <1>4, <1>8
-----------------------------------------------------------------------------
(* The counters of the source *)

LEMMA CountsStep ==
    ASSUME RunInv, CountsKept, [Next]_vars
    PROVE  CountsKept'
<1>t. /\ committed \in Seq([by : Execution, counted : Count])
      /\ saved \in Nat /\ counted \in Nat
      /\ \A t \in 1 .. Len(committed) : committed[t].counted \in Nat
  <2>1. committed \in Seq([by : Execution, counted : Count]) /\ saved \in Count /\ counted \in Count
    BY DEF RunInv, Typed, FileTypes, ProcessTypes
  <2>2. Count \subseteq Nat
    BY BoundsAssumption DEF Count
  <2>3. \A t \in 1 .. Len(committed) : committed[t] \in [by : Execution, counted : Count]
    BY <2>1, ElementOf
  <2> QED BY <2>1, <2>2, <2>3
<1>1. CASE StartFresh
  <2>1. committed' = <<>>
    BY <1>1 DEF StartFresh, RunInv, Stage
  <2> QED BY <2>1 DEF CountsKept
<1>2. ASSUME NEW n \in Turn, Resume(n) PROVE CountsKept'
  BY <1>2 DEF Resume, root, CountsKept
<1>3. CASE SourceRequest
  <2>1. /\ counted' = counted + 1 /\ pc = "turn" /\ pc' = pc
        /\ UNCHANGED <<committed, saved, cutSave>>
    BY <1>3 DEF SourceRequest, root, history
  <2>2. ASSUME ~cutSave, NEW t \in 1 .. Len(committed) PROVE counted' >= committed[t].counted
    <3>1. counted >= committed[t].counted
      BY <2>1, <2>2 DEF CountsKept
    <3> QED BY <2>1, <3>1, <1>t
  <2> QED BY <2>1, <2>2 DEF CountsKept
<1>4. CASE Commit
  <2>1. /\ committed' = Append(committed, [by |-> Len(conversation), counted |-> counted])
        /\ pc = "commit" /\ pc' = "save" /\ UNCHANGED <<counted, cutSave>>
    BY <1>4 DEF Commit, Prefix!Extend, history
  <2>2. ASSUME ~cutSave, NEW t \in 1 .. Len(committed) + 1
        PROVE  counted >= committed'[t].counted
    <3>1. CASE t = Len(committed) + 1
      <4>1. committed'[t].counted = counted
        BY <2>1, <3>1, <1>t
      <4> QED BY <4>1, <1>t
    <3>2. CASE t \in 1 .. Len(committed)
      <4>1. committed'[t] = committed[t]
        BY <2>1, <3>2, <1>t
      <4> QED BY <2>1, <2>2, <3>2, <4>1 DEF CountsKept
    <3> QED BY <3>1, <3>2, <1>t
  <2>3. Len(committed') = Len(committed) + 1
    BY <2>1, <1>t
  <2> QED BY <2>1, <2>2, <2>3 DEF CountsKept
<1>5. CASE SaveSource
  BY <1>5 DEF SaveSource, CountsKept, history
<1>6. CASE \/ /\ UNCHANGED <<committed, saved, counted, cutSave>>
              /\ pc \notin {"down", "save"} /\ pc' \notin {"down", "save"}
           \/ UNCHANGED <<committed, saved, counted, cutSave, pc>>
  BY <1>6 DEF CountsKept
<1>7. CASE Close
  BY <1>7 DEF Close, Gone, CountsKept, history
<1>8. CASE Crash
  <2>1. /\ pc # "down" /\ pc' = "down" /\ committed' = committed /\ saved' = saved
        /\ (cutSave' <=> (cutSave \/ pc = "save"))
    BY <1>8 DEF Crash, Gone, root
  <2> QED BY <2>1 DEF CountsKept
<1>9. CASE CrashOfRunner
  BY <1>9 DEF CrashOfRunner, Gone, CountsKept
<1>10. CASE \/ ReplayTurn \/ SendTurn \/ Deliver \/ CommitRefused \/ TimedOut \/ AppendRow
            \/ RowsDone \/ SessionFails
  BY <1>6, <1>10 DEF ReplayTurn, SendTurn, Deliver, CommitRefused, TimedOut, AppendRow,
                     RowsDone, SessionFails, root, history
<1>11. CASE DiscardWrites \/ HistoryWrites
  BY <1>6, <1>11 DEF DiscardWrites, HistoryWrites, WriteCalls, WriteQueries, history
<1>12. ASSUME NEW result \in {"complete", "timeout"}, TurnEnds(result)
       PROVE  CountsKept'
  BY <1>6, <1>12 DEF TurnEnds, root, history
<1>13. CASE UNCHANGED vars
  BY <1>6, <1>13 DEF vars
<1> QED BY <1>1, <1>2, <1>3, <1>4, <1>5, <1>7, <1>8, <1>9, <1>10, <1>11, <1>12, <1>13
        DEF Next
-----------------------------------------------------------------------------
(* The supervisor history *)

Agrees(s) == \A t \in 1 .. Len(committed) : HistoryOf(t, s) = {committed[t].by}
Upto(s, n) == \A r \in s : r.turn <= n
Holds(s) == HistoryOf(NextTurn, s) = {Len(conversation)}

Discarding == {"discard calls", "discard queries"}
Writing == {"calls", "calls of timeout", "queries", "queries of timeout"}

(* Between two writes of the history the file written first is new and the *)
(* other is old; at any other moment both are what the adapter holds, if   *)
(* it holds any.                                                           *)
FilesFollowMemory ==
    /\ pc \in Discarding \cup Writing => memory # {}
    /\ pc \notin Discarding \cup Writing =>
           \A h \in memory : h.last = calls.last /\ h.rows = calls.rows /\ h.queries = queries
    /\ pc \in {"discard queries", "queries", "queries of timeout"} =>
           \A h \in memory : h.last = calls.last /\ h.rows = calls.rows
    /\ pc \in Writing => \A h \in memory : queries \subseteq h.queries

(* Before the provider gets the message the history of its turn is empty.  *)
NothingAhead ==
    pc \in Discarding \cup {"deliver", "turn"} =>
        /\ \A h \in memory : h.last < NextTurn
        /\ memory = {} => calls.last < NextTurn

(* What the adapter holds, and what the files hold, of committed turns is  *)
(* the execution committed; nothing is of a turn after the last observed.  *)
MemorySound ==
    \A h \in memory :
        /\ Agrees(h.rows) /\ Agrees(h.queries)
        /\ Upto(h.rows, h.last) /\ Upto(h.queries, h.last)
FilesSound ==
    /\ Agrees(calls.rows) /\ Agrees(queries) /\ Upto(calls.rows, calls.last)
    /\ pc # "discard queries" => Upto(queries, calls.last)
TurnObserved ==
    pc \in Writing \cup {"commit"} =>
        /\ memory # {}
        /\ \A h \in memory : Holds(h.rows) /\ Holds(h.queries)

HistoryInv ==
    /\ FilesFollowMemory /\ NothingAhead
    /\ ~rewound /\ ~cutDiscard => MemorySound /\ FilesSound /\ TurnObserved

LEMMA HistoryAdd ==
    ASSUME NEW s, NEW r \in Row
    PROVE  /\ \A t : t # r.turn => HistoryOf(t, s \cup {r}) = HistoryOf(t, s)
           /\ (\A q \in s : q.turn # r.turn) => HistoryOf(r.turn, s \cup {r}) = {r.by}
BY DEF HistoryOf

LEMMA HistoryBefore ==
    ASSUME NEW s \in SUBSET Row, NEW n \in Turn, NEW t \in Turn, t < n
    PROVE  HistoryOf(t, Before(s, n)) = HistoryOf(t, s)
BY DEF HistoryOf, Before

LEMMA LoadedSound ==
    ASSUME RunInv, HistoryInv, ~rewound, ~cutDiscard, pc # "discard queries", NEW h \in Loaded
    PROVE  /\ Agrees(h.rows) /\ Agrees(h.queries)
           /\ Upto(h.rows, h.last) /\ Upto(h.queries, h.last)
<1>1. CASE memory = {}
  <2>1. h = [last |-> calls.last, rows |-> calls.rows, queries |-> queries]
    BY <1>1 DEF Loaded, Files
  <2>2. h.last = calls.last /\ h.rows = calls.rows /\ h.queries = queries
    BY <2>1
  <2> QED BY <2>2 DEF HistoryInv, FilesSound
<1>2. CASE memory # {}
  BY <1>2 DEF Loaded, HistoryInv, MemorySound
<1> QED BY <1>1, <1>2

(* A turn that is running is observed once, and added to a history that    *)
(* held nothing of it.                                                     *)
LEMMA ObservedSound ==
    ASSUME RunInv, Linked, HistoryInv, ~rewound, ~cutDiscard, pc = "turn", NEW h \in Loaded
    PROVE  LET o == Observed(h, This)
           IN  /\ Agrees(o.rows) /\ Agrees(o.queries)
               /\ Upto(o.rows, o.last) /\ Upto(o.queries, o.last)
               /\ Holds(o.rows) /\ Holds(o.queries)
<1> DEFINE o == Observed(h, This)
<1>1. /\ This \in Row /\ This.turn = NextTurn /\ This.by = Len(conversation)
      /\ NextTurn \in Nat /\ NextTurn \in Turn
  BY ThisType, BoundsAssumption DEF Sent, This, Turn
<1>2. /\ h \in Histories /\ h.last \in Nat /\ h.rows \in SUBSET Row /\ h.queries \in SUBSET Row
  <2>1. h \in Histories
    BY LoadedType
  <2> QED BY <2>1, BoundsAssumption DEF Histories
<1>3. h.last < NextTurn
  <2>1. CASE memory = {}
    BY <2>1 DEF Loaded, Files, HistoryInv, NothingAhead
  <2>2. CASE memory # {}
    BY <2>2 DEF Loaded, HistoryInv, NothingAhead
  <2> QED BY <2>1, <2>2
<1>4. Agrees(h.rows) /\ Agrees(h.queries) /\ Upto(h.rows, h.last) /\ Upto(h.queries, h.last)
  BY LoadedSound
<1>5. \A r \in Row : r.turn \in Nat
  BY BoundsAssumption DEF Row, Turn
<1>6. \A q \in h.rows \cup h.queries : q.turn # NextTurn /\ q.turn <= NextTurn
  BY <1>1, <1>2, <1>3, <1>4, <1>5 DEF Upto
<1>7. o.rows = h.rows \cup {This} /\ o.queries = h.queries \cup {This} /\ o.last = NextTurn
  <2>1. NextTurn > h.last
    BY <1>1, <1>2, <1>3
  <2> QED BY <1>1, <1>6, <2>1 DEF Observed
<1>8. Holds(o.rows) /\ Holds(o.queries)
  <2>1. /\ HistoryOf(This.turn, h.rows \cup {This}) = {This.by}
        /\ HistoryOf(This.turn, h.queries \cup {This}) = {This.by}
    BY <1>1, <1>6, HistoryAdd
  <2>2. o.rows = h.rows \cup {This} /\ o.queries = h.queries \cup {This}
    BY <1>7
  <2> HIDE DEF o
  <2> QED BY <1>1, <2>1, <2>2 DEF Holds
<1>9. Upto(o.rows, o.last) /\ Upto(o.queries, o.last)
  BY <1>1, <1>6, <1>7 DEF Upto
<1>10. \A t \in 1 .. Len(committed) : t # NextTurn
  <2>1. Len(committed) <= Len(turns) /\ Len(committed) \in Nat /\ Len(turns) \in Nat
    BY DEF Linked, RunInv, Typed, FileTypes, RowTypes
  <2> QED BY <2>1 DEF NextTurn
<1>11. Agrees(o.rows) /\ Agrees(o.queries)
  <2>1. ASSUME NEW t \in 1 .. Len(committed)
        PROVE  /\ HistoryOf(t, h.rows \cup {This}) = {committed[t].by}
               /\ HistoryOf(t, h.queries \cup {This}) = {committed[t].by}
    <3>1. /\ HistoryOf(t, h.rows \cup {This}) = HistoryOf(t, h.rows)
          /\ HistoryOf(t, h.queries \cup {This}) = HistoryOf(t, h.queries)
      BY <1>1, <1>10, HistoryAdd
    <3> QED BY <1>4, <3>1 DEF Agrees
  <2>2. o.rows = h.rows \cup {This} /\ o.queries = h.queries \cup {This}
    BY <1>7
  <2> HIDE DEF o
  <2> QED BY <2>1, <2>2 DEF Agrees
<1> QED BY <1>8, <1>9, <1>11

(* Discarding a turn that is not committed keeps what is.                  *)
LEMMA DiscardedSound ==
    ASSUME RunInv, Linked, HistoryInv, ~rewound, ~cutDiscard, pc = "idle",
           NextTurn \in Turn, NEW h \in Loaded
    PROVE  LET d == Discarded(h, NextTurn)
           IN  /\ Agrees(d.rows) /\ Agrees(d.queries)
               /\ Upto(d.rows, d.last) /\ Upto(d.queries, d.last)
<1> DEFINE d == Discarded(h, NextTurn)
<1>1. d.rows = Before(h.rows, NextTurn) /\ d.queries = Before(h.queries, NextTurn)
      /\ d.last = NextTurn - 1
  BY DEF Discarded
<1>2. h.rows \in SUBSET Row /\ h.queries \in SUBSET Row
  BY LoadedType DEF Histories
<1>3. Agrees(h.rows) /\ Agrees(h.queries)
  BY LoadedSound
<1>4. \A t \in 1 .. Len(committed) : t \in Turn /\ t < NextTurn
  <2>1. /\ Len(committed) <= Len(turns) /\ Len(committed) \in Nat /\ Len(turns) \in Nat
        /\ Len(committed) <= LastTurn
    BY DEF Linked, RunInv, Typed, FileTypes, RowTypes
  <2> QED BY <2>1, BoundsAssumption DEF NextTurn, Turn
<1>5. Agrees(d.rows) /\ Agrees(d.queries)
  BY <1>1, <1>2, <1>3, <1>4, HistoryBefore DEF Agrees
<1>6. Upto(d.rows, d.last) /\ Upto(d.queries, d.last)
  <2>1. NextTurn \in Nat /\ \A r \in Row : r.turn \in Nat
    BY BoundsAssumption DEF Row, Turn
  <2>2. ASSUME NEW s \in SUBSET Row PROVE Upto(Before(s, NextTurn), NextTurn - 1)
    BY <2>1 DEF Upto, Before
  <2> QED BY <1>1, <1>2, <2>2
<1> QED BY <1>5, <1>6

(* The steps that have nothing to do with the history. *)
LEMMA OtherSteps ==
    ASSUME RunInv, HistoryInv, [Next]_vars,
           /\ UNCHANGED <<calls, queries, memory>>
           /\ \/ UNCHANGED <<conversation, committed, turns, pc, rewound, cutDiscard>>
              \/ /\ UNCHANGED committed
                 /\ pc \in {"idle", "turn", "commit", "save", "timeout", "rows", "close"}
                 /\ pc' \in {"idle", "save", "rows", "close"}
                 /\ UNCHANGED <<rewound, cutDiscard>>
    PROVE  HistoryInv'
BY DEF HistoryInv, FilesFollowMemory, NothingAhead, MemorySound, FilesSound, TurnObserved,
       Agrees, Holds, Discarding, Writing, NextTurn

(* A process without a history begins, or is gone. *)
LEMMA EmptySteps ==
    ASSUME HistoryInv, memory' = {}, pc' \in {"idle", "down"},
           UNCHANGED <<calls, queries, committed>>,
           rewound => rewound', cutDiscard => cutDiscard',
           pc = "discard queries" => cutDiscard'
    PROVE  HistoryInv'
BY DEF HistoryInv, FilesFollowMemory, NothingAhead, MemorySound, FilesSound, TurnObserved,
       Agrees, Discarding, Writing

LEMMA HistorySends ==
    ASSUME RunInv, Linked, HistoryInv, SendTurn
    PROVE  HistoryInv'
<1>1. /\ pc = "idle" /\ NextTurn \in Turn /\ Len(rows) = Len(turns)
      /\ UNCHANGED <<calls, queries, committed, conversation, turns, rewound, cutDiscard>>
  BY DEF SendTurn, root, history
<1>2. \A h \in Loaded : h.last \in Nat /\ NextTurn \in Nat
  BY LoadedType, BoundsAssumption DEF Histories, NextTurn, RunInv, Typed, RowTypes
<1>3. CASE MustDiscard(NextTurn)
  <2>1. /\ memory' = {Discarded(h, NextTurn) : h \in Loaded} /\ pc' = "discard calls"
    BY <1>3 DEF SendTurn
  <2>2. memory' # {}
    BY <2>1 DEF Loaded
  <2>3. \A h \in memory' : h.last < NextTurn
    <3>1. NextTurn \in Nat /\ \A h : Discarded(h, NextTurn).last = NextTurn - 1
      BY BoundsAssumption, <1>1 DEF Discarded, Turn
    <3>2. NextTurn - 1 < NextTurn
      BY <3>1
    <3> QED BY <2>1, <3>1, <3>2
  <2>4. FilesFollowMemory'
    BY <2>1, <2>2 DEF FilesFollowMemory, Discarding, Writing
  <2>5. NothingAhead'
    BY <1>1, <2>2, <2>3 DEF NothingAhead, NextTurn
  <2>6. ASSUME ~rewound, ~cutDiscard
        PROVE  MemorySound' /\ FilesSound' /\ TurnObserved'
    <3>1. MemorySound'
      <4>1. ASSUME NEW h \in memory'
            PROVE  Agrees(h.rows) /\ Agrees(h.queries) /\ Upto(h.rows, h.last) /\ Upto(h.queries, h.last)
        BY <1>1, <2>1, <2>6, DiscardedSound
      <4> QED BY <1>1, <4>1 DEF MemorySound, Agrees
    <3>2. FilesSound'
      BY <1>1, <2>1, <2>6 DEF HistoryInv, FilesSound, Agrees
    <3>3. TurnObserved'
      BY <2>1 DEF TurnObserved, Writing
    <3> QED BY <3>1, <3>2, <3>3
  <2> QED BY <1>1, <2>4, <2>5, <2>6 DEF HistoryInv
<1>4. CASE ~MustDiscard(NextTurn)
  <2>1. memory' = memory /\ pc' = "deliver"
    BY <1>4 DEF SendTurn
  <2>2. \A h \in Loaded : h.last < NextTurn
    BY <1>2, <1>4 DEF MustDiscard
  <2>3. memory = {} => calls.last < NextTurn
    <3>1. ASSUME memory = {} PROVE Files.last < NextTurn
      BY <2>2, <3>1 DEF Loaded
    <3> QED BY <3>1 DEF Files
  <2>4. NothingAhead'
    BY <1>1, <2>1, <2>2, <2>3 DEF NothingAhead, NextTurn, Loaded
  <2>5. FilesFollowMemory'
    BY <1>1, <2>1 DEF HistoryInv, FilesFollowMemory, Discarding, Writing
  <2>6. ~rewound /\ ~cutDiscard => MemorySound' /\ FilesSound' /\ TurnObserved'
    BY <1>1, <2>1 DEF HistoryInv, MemorySound, FilesSound, TurnObserved, Agrees, Writing
  <2> QED BY <1>1, <2>4, <2>5, <2>6 DEF HistoryInv
<1> QED BY <1>3, <1>4

LEMMA HistoryWritten ==
    ASSUME RunInv, HistoryInv, DiscardWrites \/ HistoryWrites
    PROVE  HistoryInv'
<1>1. UNCHANGED <<memory, committed, conversation, turns, rewound, cutDiscard>>
  BY DEF DiscardWrites, HistoryWrites, WriteCalls, WriteQueries, history
<1>2. PICK h \in memory : \A g \in memory : g = h
  BY DEF DiscardWrites, HistoryWrites, WriteCalls, WriteQueries, RunInv, OneHistory
<1>a. ASSUME NEW from, NEW to, WriteCalls(from, to)
      PROVE  /\ pc = from /\ pc' = to
             /\ calls'.last = h.last /\ calls'.rows = h.rows /\ queries' = queries
  <2>1. PICK g \in memory : calls' = [last |-> g.last, rows |-> g.rows]
    BY <1>a DEF WriteCalls
  <2>2. calls' = [last |-> h.last, rows |-> h.rows]
    BY <1>2, <2>1
  <2> QED BY <1>a, <2>2 DEF WriteCalls
<1>b. ASSUME NEW from, NEW to, WriteQueries(from, to)
      PROVE  pc = from /\ pc' = to /\ calls' = calls /\ queries' = h.queries
  BY <1>2, <1>b DEF WriteQueries
<1>3. \/ /\ calls'.last = h.last /\ calls'.rows = h.rows /\ queries' = queries
         /\ \/ pc = "discard calls" /\ pc' = "discard queries"
            \/ pc = "calls" /\ pc' = "queries"
            \/ pc = "calls of timeout" /\ pc' = "queries of timeout"
      \/ /\ calls' = calls /\ queries' = h.queries
         /\ \/ pc = "discard queries" /\ pc' = "deliver"
            \/ pc = "queries" /\ pc' = "commit"
            \/ pc = "queries of timeout" /\ pc' = "timeout"
  BY <1>a, <1>b DEF DiscardWrites, HistoryWrites
<1>4. FilesFollowMemory'
  BY <1>1, <1>2, <1>3 DEF HistoryInv, FilesFollowMemory, Discarding, Writing
<1>5. NothingAhead'
  BY <1>1, <1>2, <1>3 DEF HistoryInv, NothingAhead, NextTurn, Discarding, Writing
<1>6. ASSUME ~rewound, ~cutDiscard
      PROVE  MemorySound' /\ FilesSound' /\ TurnObserved'
  <2>1. MemorySound'
    BY <1>1, <1>6 DEF HistoryInv, MemorySound, Agrees
  <2>2. TurnObserved'
    BY <1>1, <1>2, <1>3, <1>6 DEF HistoryInv, TurnObserved, Holds, NextTurn, Writing
  <2>3. /\ Agrees(h.rows) /\ Agrees(h.queries)
        /\ Upto(h.rows, h.last) /\ Upto(h.queries, h.last)
    BY <1>2, <1>6 DEF HistoryInv, MemorySound
  <2>4. /\ Agrees(calls.rows) /\ Agrees(queries) /\ Upto(calls.rows, calls.last)
        /\ pc # "discard queries" => Upto(queries, calls.last)
    BY <1>6 DEF HistoryInv, FilesSound
  <2>5. CASE calls' = calls /\ queries' = h.queries
    <3>1. h.last = calls.last /\ h.rows = calls.rows
      BY <1>2, <1>3, <2>5 DEF HistoryInv, FilesFollowMemory
    <3> QED BY <1>1, <2>1, <2>2, <2>3, <2>4, <2>5, <3>1 DEF FilesSound, Agrees
  <2>6. CASE /\ calls'.last = h.last /\ calls'.rows = h.rows /\ queries' = queries
             /\ pc \in {"calls", "calls of timeout"}
    <3>1. queries \subseteq h.queries
      BY <1>2, <2>6 DEF HistoryInv, FilesFollowMemory, Writing
    <3>2. Upto(queries, h.last)
      BY <2>3, <3>1 DEF Upto
    <3> QED BY <1>1, <2>1, <2>2, <2>3, <2>4, <2>6, <3>2 DEF FilesSound, Agrees
  <2>7. CASE /\ calls'.last = h.last /\ calls'.rows = h.rows /\ queries' = queries
             /\ pc' = "discard queries"
    BY <1>1, <2>1, <2>2, <2>3, <2>4, <2>7 DEF FilesSound, Agrees
  <2> QED BY <1>3, <2>5, <2>6, <2>7
<1> QED BY <1>1, <1>4, <1>5, <1>6 DEF HistoryInv

LEMMA HistoryDelivers ==
    ASSUME RunInv, HistoryInv, Deliver
    PROVE  HistoryInv'
<1>1. /\ pc = "deliver" /\ pc' = "turn"
      /\ UNCHANGED <<memory, calls, queries, committed, turns, rewound, cutDiscard>>
  BY DEF Deliver, history
<1> QED BY <1>1 DEF HistoryInv, FilesFollowMemory, NothingAhead, MemorySound, FilesSound,
                    TurnObserved, Agrees, NextTurn, Discarding, Writing

LEMMA HistoryObserves ==
    ASSUME RunInv, Linked, HistoryInv, NEW result \in {"complete", "timeout"}, TurnEnds(result)
    PROVE  HistoryInv'
<1>1. /\ pc = "turn" /\ pc' \in {"calls", "calls of timeout"}
      /\ memory' = {Observed(h, This) : h \in Loaded}
      /\ UNCHANGED <<calls, queries, committed, conversation, turns, rewound, cutDiscard>>
  BY DEF TurnEnds, root, history
<1>2. memory' # {}
  BY <1>1 DEF Loaded
<1>3. FilesFollowMemory'
  <2>1. ASSUME NEW h \in Loaded PROVE queries \subseteq Observed(h, This).queries
    <3>1. h.queries \subseteq Observed(h, This).queries
      BY DEF Observed
    <3>2. h.queries = queries
      <4>1. CASE memory = {}
        BY <4>1 DEF Loaded, Files
      <4>2. CASE memory # {}
        BY <1>1, <4>2 DEF Loaded, HistoryInv, FilesFollowMemory, Discarding, Writing
      <4> QED BY <4>1, <4>2
    <3> QED BY <3>1, <3>2
  <2> QED BY <1>1, <1>2, <2>1 DEF FilesFollowMemory, Discarding, Writing
<1>4. NothingAhead'
  BY <1>1 DEF NothingAhead, Discarding
<1>5. ASSUME ~rewound, ~cutDiscard
      PROVE  MemorySound' /\ FilesSound' /\ TurnObserved'
  <2>1. ASSUME NEW o \in memory'
        PROVE  /\ Agrees(o.rows) /\ Agrees(o.queries)
               /\ Upto(o.rows, o.last) /\ Upto(o.queries, o.last)
               /\ Holds(o.rows) /\ Holds(o.queries)
    BY <1>1, <1>5, ObservedSound
  <2>2. MemorySound'
    BY <1>1, <2>1 DEF MemorySound, Agrees
  <2>3. TurnObserved'
    BY <1>1, <1>2, <2>1 DEF TurnObserved, Holds, NextTurn
  <2>4. FilesSound'
    BY <1>1, <1>5 DEF HistoryInv, FilesSound, Agrees
  <2> QED BY <2>2, <2>3, <2>4
<1> QED BY <1>1, <1>3, <1>4, <1>5 DEF HistoryInv

LEMMA HistoryCommits ==
    ASSUME RunInv, HistoryInv, Commit
    PROVE  HistoryInv'
<1>1. /\ pc = "commit" /\ pc' = "save" /\ Len(turns) = Len(committed)
      /\ committed' = Append(committed, [by |-> Len(conversation), counted |-> counted])
      /\ UNCHANGED <<memory, calls, queries, rewound, cutDiscard>>
  BY DEF Commit, Prefix!Extend, history
<1>2. FilesFollowMemory' /\ NothingAhead' /\ TurnObserved'
  BY <1>1 DEF HistoryInv, FilesFollowMemory, NothingAhead, TurnObserved, Discarding, Writing
<1>3. ASSUME ~rewound, ~cutDiscard
      PROVE  MemorySound' /\ FilesSound'
  <2>1. committed \in Seq([by : Execution, counted : Count])
    BY DEF RunInv, Typed, FileTypes
  <2>2. ASSUME NEW s, Agrees(s), Holds(s) PROVE Agrees(s)'
    <3>1. /\ Len(committed') = Len(committed) + 1 /\ Len(committed) \in Nat
          /\ \A t \in 1 .. Len(committed) : committed'[t] = committed[t]
          /\ committed'[Len(committed) + 1].by = Len(conversation)
      BY <1>1, <2>1
    <3>2. ASSUME NEW t \in 1 .. Len(committed) + 1 PROVE HistoryOf(t, s) = {committed'[t].by}
      <4>1. CASE t = Len(committed) + 1
        BY <1>1, <2>2, <3>1, <4>1 DEF Holds, NextTurn
      <4>2. CASE t \in 1 .. Len(committed)
        BY <2>2, <3>1, <4>2 DEF Agrees
      <4> QED BY <3>1, <4>1, <4>2
    <3> QED BY <3>1, <3>2 DEF Agrees
  <2>3. PICK h \in memory : TRUE
    BY <1>1, <1>3 DEF HistoryInv, TurnObserved
  <2>4. h.last = calls.last /\ h.rows = calls.rows /\ h.queries = queries
    BY <1>1, <2>3 DEF HistoryInv, FilesFollowMemory, Discarding, Writing
  <2>5. \A g \in memory : Holds(g.rows) /\ Holds(g.queries)
    BY <1>1, <1>3 DEF HistoryInv, TurnObserved
  <2>6. \A g \in memory : /\ Agrees(g.rows) /\ Agrees(g.queries)
                          /\ Upto(g.rows, g.last) /\ Upto(g.queries, g.last)
    BY <1>3 DEF HistoryInv, MemorySound
  <2>7. MemorySound'
    BY <1>1, <2>2, <2>5, <2>6 DEF MemorySound
  <2>8. Agrees(calls.rows)' /\ Agrees(queries)'
    BY <1>1, <2>2, <2>3, <2>4, <2>5, <2>6
  <2>9. FilesSound'
    BY <1>1, <1>3, <2>8 DEF HistoryInv, FilesSound
  <2> QED BY <2>7, <2>9
<1> QED BY <1>1, <1>2, <1>3 DEF HistoryInv

LEMMA HistoryOutlives ==
    ASSUME RunInv, Linked, HistoryInv, CrashOfRunner
    PROVE  HistoryInv'
<1>1. PICK h \in Loaded : /\ calls' = [last |-> Observed(h, This).last,
                                       rows |-> Observed(h, This).rows]
                          /\ queries' = Observed(h, This).queries
  BY DEF CrashOfRunner
<1>2. /\ pc = "turn" /\ pc' = "down" /\ memory' = {}
      /\ UNCHANGED <<committed, rewound, cutDiscard>>
  BY DEF CrashOfRunner, Gone
<1>3. FilesFollowMemory' /\ NothingAhead' /\ MemorySound' /\ TurnObserved'
  BY <1>2 DEF FilesFollowMemory, NothingAhead, MemorySound, TurnObserved, Discarding, Writing
<1>4. ASSUME ~rewound, ~cutDiscard PROVE FilesSound'
  <2>1. calls'.last = Observed(h, This).last /\ calls'.rows = Observed(h, This).rows
    BY <1>1
  <2>2. /\ Agrees(Observed(h, This).rows) /\ Agrees(Observed(h, This).queries)
        /\ Upto(Observed(h, This).rows, Observed(h, This).last)
        /\ Upto(Observed(h, This).queries, Observed(h, This).last)
    BY <1>2, <1>4, ObservedSound
  <2> QED BY <1>1, <1>2, <2>1, <2>2 DEF FilesSound, Agrees
<1> QED BY <1>2, <1>3, <1>4 DEF HistoryInv

LEMMA HistoryStep ==
    ASSUME RunInv, Linked, HistoryInv, [Next]_vars
    PROVE  HistoryInv'
<1>1. CASE ReplayTurn \/ SourceRequest \/ AppendRow
  BY <1>1, OtherSteps DEF ReplayTurn, SourceRequest, AppendRow, root, history
<1>2. CASE CommitRefused \/ SaveSource \/ TimedOut \/ RowsDone \/ SessionFails
  BY <1>2, OtherSteps DEF CommitRefused, SaveSource, TimedOut, RowsDone, SessionFails, root, history
<1>3. CASE UNCHANGED vars
  BY <1>3, OtherSteps DEF vars
<1>4. CASE StartFresh
  BY <1>4, EmptySteps DEF StartFresh, history
<1>5. ASSUME NEW n \in Turn, Resume(n) PROVE HistoryInv'
  BY <1>5, EmptySteps DEF Resume, root
<1>6. CASE Close
  BY <1>6, EmptySteps DEF Close, Gone, history
<1>7. CASE Crash
  BY <1>7, EmptySteps DEF Crash, Gone, root
<1> QED BY <1>1, <1>2, <1>3, <1>4, <1>5, <1>6, <1>7, HistorySends, HistoryWritten,
           HistoryDelivers, HistoryObserves, HistoryCommits, HistoryOutlives DEF Next
-----------------------------------------------------------------------------
(* The theorems *)

(* TypeOK alone does not say where the recording starts, nor what a file   *)
(* may lack while it is being rewritten; each property needs both.         *)
RecordInv ==
    RunInv /\ Linked /\ CommittedTurnsAreNotResent /\ TailIsOurs /\ CountsKept /\ HistoryInv

LEMMA RecordInvInit == Init => RecordInv
<1> SUFFICES ASSUME Init PROVE RecordInv
  OBVIOUS
<1>1. Linked /\ CommittedTurnsAreNotResent /\ TailIsOurs /\ CountsKept
  BY DEF Init, Linked, CommittedTurnsAreNotResent, TailIsOurs, CountsKept
<1>2. FilesFollowMemory /\ NothingAhead /\ MemorySound /\ TurnObserved
  BY DEF Init, FilesFollowMemory, NothingAhead, MemorySound, TurnObserved, Discarding, Writing
<1>3. FilesSound
  BY DEF Init, FilesSound, Agrees, Upto
<1> QED BY <1>1, <1>2, <1>3, RunInvInit DEF RecordInv, HistoryInv

LEMMA RecordInvariant == Spec => []RecordInv
<1>1. RecordInv /\ [Next]_vars => RecordInv'
  BY RunInvStep, LinkedStep, NotResentStep, TailStep, CountsStep, HistoryStep DEF RecordInv
<1> QED BY <1>1, RecordInvInit, PTL DEF Spec

\* However often a run is interrupted, and wherever the process died, no turn of
\* the committed prefix is sent to the provider again, unless an older checkpoint
\* was resumed (NativeRun.CommittedTurnsAreNotResent).
THEOREM CommittedPrefixIsNotResent == Spec => []CommittedTurnsAreNotResent
<1>1. RecordInv => CommittedTurnsAreNotResent
  BY DEF RecordInv
<1> QED BY <1>1, RecordInvariant, PTL

\* Of committed turns the history files hold the execution that was committed and
\* no aborted one, and the source that a resume starts has counted their requests,
\* but for the crashes the property names (NativeRun.CommittedIsRemembered).
THEOREM CommittedTurnsAreRemembered == Spec => []CommittedIsRemembered
<1>1. ASSUME RecordInv PROVE CommittedIsRemembered
  <2>1. DOMAIN committed = 1 .. Len(committed)
    BY <1>1 DEF RecordInv, RunInv, Typed, FileTypes
  <2>2. HistoryIsOfCommitted
    BY <1>1, <2>1 DEF RecordInv, HistoryInv, FilesSound, Agrees, HistoryIsOfCommitted
  <2>3. SourceRemembersCommitted
    BY <1>1, <2>1 DEF RecordInv, CountsKept, SourceRemembersCommitted
  <2> QED BY <2>2, <2>3 DEF CommittedIsRemembered
<1> QED BY <1>1, RecordInvariant, PTL

\* When a process has written its evidence, the last row of each committed turn
\* is about the execution that was committed, whatever earlier processes wrote
\* (NativeRun.GradedLedgerIsOfCommitted).
THEOREM LedgerIsOfCommitted == Spec => []GradedLedgerIsOfCommitted
<1>1. RecordInv => GradedLedgerIsOfCommitted
  BY TailIsGraded DEF RecordInv
<1> QED BY <1>1, RecordInvariant, PTL
=============================================================================
