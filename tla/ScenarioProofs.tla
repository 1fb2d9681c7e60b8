--------------------------- MODULE ScenarioProofs ---------------------------
(***************************************************************************)
(* Proofs about the two things a scenario scripts: MockSource, for any     *)
(* routes, calls, collections and states, any auth budget and rate limit,  *)
(* and OperatorLoop, for all scripts, chains, workflows and limits of the  *)
(* answer sheet, and every bound.                                          *)
(***************************************************************************)
EXTENDS MockSource, OperatorLoop, FiniteSetTheorems, WellFoundedInduction, TLAPS

Paths == Routes \cup {RefreshPath}
Statuses == {200, 400, 401, 403, 429}
Answers == [sequence : Nat, status : Statuses \cup {500}]

(* A request brings one cursor at most.                                    *)
OneCursor(S) == \A c, d \in S : c = d
Waiting == {w \in [request : Request, number : Nat, key : Key, own : Nat] :
              OneCursor(w.request.cursor)}
Saved == [remaining : 0 .. InitialRequests, current : Key, oracle : OracleType,
          answers : SUBSET Answers, spent : Nat]

(* A cursor that was handed out starts a page of its collection, and what  *)
(* is memoised for a route are the page starts of one collection.          *)
Memos == \A m \in cursorMaps :
           m.route \in Routes /\ m.key \in Key /\ \E p \in Parents : m.pages = PageStarts(p)
Issued == /\ issued \subseteq [cursor : Cursor, parent : Parents]
          /\ \A x \in issued : x.cursor.page \in PageStarts(x.parent)

Typed ==
    /\ oracle \in OracleType /\ remaining \in 0 .. InitialRequests /\ current \in Key
    /\ Memos /\ inflight \in [Calls -> SUBSET Waiting] /\ saved \subseteq Saved
    /\ answers \subseteq Answers /\ spent \in Nat /\ Issued /\ restarts \in 0 .. MaxRestart

-----------------------------------------------------------------------------
(* The oracle's operations.                                                *)
LEMMA OracleTypeIs ==
    /\ OracleType = [events : Seq(Paths), statuses : SUBSET [sequence : Nat, status : Statuses],
                     pages : Seq([sequence : Nat, state : States, rows : States])]
    /\ \A o \in OracleType : o.events \in Seq(Paths) /\ Len(o.events) \in Nat
BY DEF OracleType, Paths, Statuses

LEMMA RecordIs ==
    ASSUME NEW o \in OracleType, NEW route \in Paths
    PROVE  /\ Record(o, route) \in OracleType
           /\ Record(o, route).events = Append(o.events, route)
           /\ Record(o, route).statuses = o.statuses /\ Record(o, route).pages = o.pages
           /\ Len(Record(o, route).events) = Len(o.events) + 1
           /\ Len(o.events) \in Nat
<1> DEFINE new == Append(o.events, route)
<1>1. o.events \in Seq(Paths)
  BY OracleTypeIs
<1>2. new \in Seq(Paths) /\ Len(new) = Len(o.events) + 1 /\ Len(o.events) \in Nat
  BY <1>1
<1>3. Record(o, route) = [o EXCEPT !.events = new]
  BY DEF Record
<1> HIDE DEF new
<1>4. [o EXCEPT !.events = new] \in OracleType
  BY <1>2, OracleTypeIs
<1>5. /\ [o EXCEPT !.events = new].events = new
      /\ [o EXCEPT !.events = new].statuses = o.statuses
      /\ [o EXCEPT !.events = new].pages = o.pages
  BY OracleTypeIs
<1> QED BY <1>2, <1>3, <1>4, <1>5 DEF new

LEMMA SetStatusIs ==
    ASSUME NEW o \in OracleType, NEW i \in Nat, NEW code \in Statuses
    PROVE  /\ SetStatus(o, i, code) \in OracleType
           /\ SetStatus(o, i, code).events = o.events
           /\ SetStatus(o, i, code).pages = o.pages
           /\ SetStatus(o, i, code).statuses =
                 {x \in o.statuses : x.sequence # i} \cup {[sequence |-> i, status |-> code]}
<1> DEFINE new == {x \in o.statuses : x.sequence # i} \cup {[sequence |-> i, status |-> code]}
<1>1. new \in SUBSET [sequence : Nat, status : Statuses]
  BY DEF OracleType, Statuses
<1>2. SetStatus(o, i, code) = [o EXCEPT !.statuses = new]
  BY DEF SetStatus
<1> HIDE DEF new
<1>3. [o EXCEPT !.statuses = new] \in OracleType
  BY <1>1 DEF OracleType, Statuses
<1>4. /\ [o EXCEPT !.statuses = new].statuses = new
      /\ [o EXCEPT !.statuses = new].events = o.events
      /\ [o EXCEPT !.statuses = new].pages = o.pages
  BY DEF OracleType
<1> QED BY <1>2, <1>3, <1>4 DEF new

LEMMA SetPageIs ==
    ASSUME NEW o \in OracleType, NEW i \in Nat, NEW state \in States, NEW rows \in States
    PROVE  /\ SetPage(o, i, state, rows) \in OracleType
           /\ SetPage(o, i, state, rows).events = o.events
           /\ SetPage(o, i, state, rows).statuses = o.statuses
           /\ SetPage(o, i, state, rows).pages =
                 Append(o.pages, [sequence |-> i, state |-> state, rows |-> rows])
<1> DEFINE page == [sequence |-> i, state |-> state, rows |-> rows]
           new == Append(o.pages, page)
<1>1. page \in [sequence : Nat, state : States, rows : States]
  OBVIOUS
<1> HIDE DEF page
<1>2. new \in Seq([sequence : Nat, state : States, rows : States])
  BY <1>1 DEF OracleType
<1>3. SetPage(o, i, state, rows) = [o EXCEPT !.pages = new]
  BY DEF SetPage, page
<1> HIDE DEF new
<1>4. [o EXCEPT !.pages = new] \in OracleType
  BY <1>2 DEF OracleType
<1>5. /\ [o EXCEPT !.pages = new].pages = new
      /\ [o EXCEPT !.pages = new].events = o.events
      /\ [o EXCEPT !.pages = new].statuses = o.statuses
  BY DEF OracleType
<1> QED BY <1>3, <1>4, <1>5 DEF new, page

(* An event is found again by its route and its number among those of it.  *)
LEMMA CountIs ==
    ASSUME NEW o \in OracleType, NEW route, NEW n \in Nat
    PROVE  /\ IsFiniteSet({k \in 1 .. n : o.events[k] = route}) /\ CountUpto(o, route, n) \in Nat
<1>1. IsFiniteSet(1 .. n)
  BY FS_Interval
<1>2. {k \in 1 .. n : o.events[k] = route} \in SUBSET (1 .. n)
  OBVIOUS
<1>3. IsFiniteSet({k \in 1 .. n : o.events[k] = route})
  BY <1>1, <1>2, FS_Subset
<1> QED BY <1>3, FS_CardinalityType DEF CountUpto

LEMMA CountGrows ==
    ASSUME NEW o \in OracleType, NEW route, NEW i \in DOMAIN o.events, NEW j \in DOMAIN o.events,
           i < j, o.events[j] = route
    PROVE  CountUpto(o, route, i) < CountUpto(o, route, j)
<1> DEFINE S == {k \in 1 .. i : o.events[k] = route}
           T == {k \in 1 .. j : o.events[k] = route}
<1>1. i \in Nat /\ j \in Nat /\ j >= 1
  BY DEF OracleType
<1>2. S \in SUBSET T /\ j \in T /\ j \notin S
  BY <1>1
<1>3. IsFiniteSet(T) /\ CountUpto(o, route, i) \in Nat /\ CountUpto(o, route, j) \in Nat
  BY <1>1, CountIs
<1>4. CountUpto(o, route, i) = Cardinality(S) /\ CountUpto(o, route, j) = Cardinality(T)
  BY DEF CountUpto
<1> HIDE DEF S, T
<1>5. Cardinality(S) <= Cardinality(T) /\ Cardinality(S) # Cardinality(T)
  BY <1>2, <1>3, FS_Subset
<1> QED BY <1>3, <1>4, <1>5

LEMMA FoundAgain ==
    ASSUME NEW o \in OracleType, NEW own \in DOMAIN o.events
    PROVE  SequenceOf(o, o.events[own], CountUpto(o, o.events[own], own)) = {own}
<1> DEFINE route == o.events[own]
<1>1. DOMAIN o.events \subseteq Nat
  BY DEF OracleType
<1>2. ASSUME NEW i \in DOMAIN o.events, o.events[i] = route,
             CountUpto(o, route, i) = CountUpto(o, route, own)
      PROVE  i = own
  <2>1. CountUpto(o, route, i) \in Nat /\ i \in Nat /\ own \in Nat
    BY <1>1, CountIs
  <2>2. ~(i < own) /\ ~(own < i)
    BY <1>2, <2>1, CountGrows
  <2> QED BY <2>1, <2>2
<1> QED BY <1>2 DEF SequenceOf

LEMMA CountKept ==
    ASSUME NEW o \in OracleType, NEW r \in Paths, NEW route, NEW n \in 0 .. Len(o.events)
    PROVE  CountUpto(Record(o, r), route, n) = CountUpto(o, route, n)
<1>1. Record(o, r).events = Append(o.events, r) /\ o.events \in Seq(Paths)
  BY RecordIs, OracleTypeIs
<1>2. \A k \in 1 .. n : Append(o.events, r)[k] = o.events[k]
  BY <1>1
<1> QED BY <1>1, <1>2 DEF CountUpto

-----------------------------------------------------------------------------
(* Types                                                                   *)

LEMMA TypedInit == Init => Typed
<1> SUFFICES ASSUME Init PROVE Typed
  OBVIOUS
<1>1. oracle \in OracleType
  BY DEF Init, EmptyOracle, OracleType
<1>2. remaining \in 0 .. InitialRequests /\ spent \in Nat /\ restarts \in 0 .. MaxRestart
  BY BoundsAssumption DEF Init
<1>3. current \in Key
  BY DataAssumption DEF Init, Key
<1>4. Memos /\ Issued /\ answers \subseteq Answers /\ saved \subseteq Saved
  BY DEF Init, Memos, Issued
<1>5. inflight \in [Calls -> SUBSET Waiting]
  BY DEF Init
<1> QED BY <1>1, <1>2, <1>3, <1>4, <1>5 DEF Typed

LEMMA StatusIs ==
    ASSUME NEW q, NEW n, NEW key
    PROVE  /\ Status(q, n, key) \in Statuses
           /\ Status(q, n, key) = 200 => CursorValid(q, key)
           /\ Status(q, n, key) = 400 => ~CursorValid(q, key)
           /\ Status(q, n, key) \in {200, 400} /\ q.route \in AuthRoutes => remaining > 0
BY DEF Status, Statuses, Authenticates

LEMMA NextCursorsAre ==
    ASSUME NEW q \in Request, NEW key \in Key, NEW c \in NextCursors(q, key)
    PROVE  c \in Cursor /\ c.page \in PageStarts(q.parent)
<1> DEFINE page == IF q.cursor = {} THEN 0 ELSE (CHOOSE d \in q.cursor : TRUE).page
<1>1. q.route \in Routes /\ q.cursor \in SUBSET Cursor /\ PageCount[q.parent] \in Nat
  BY DataAssumption DEF Request
<1>2. page \in Nat
  BY <1>1 DEF Cursor
<1>3. page + 1 < PageCount[q.parent] /\ c = [route |-> q.route, key |-> key, page |-> page + 1]
  BY DEF NextCursors
<1> HIDE DEF page
<1>4. page + 1 \in Nat /\ page + 1 \in PageStarts(q.parent)
  BY <1>1, <1>2, <1>3 DEF PageStarts
<1> QED BY <1>1, <1>3, <1>4 DEF Cursor

LEMMA AnswerIsTyped ==
    ASSUME Typed, NEW o \in OracleType, NEW q \in Request, NEW n, NEW key \in Key, NEW own \in Nat,
           Answer(q, n, key, own, o)
    PROVE  /\ oracle' \in OracleType /\ Memos' /\ Issued' /\ answers' \subseteq Answers
           /\ remaining' \in 0 .. InitialRequests /\ spent' \in Nat
           /\ spent' + remaining' = spent + remaining
<1> DEFINE code == Status(q, n, key)
           tokens == IF q.route \in AuthRoutes /\ code \in {200, 400} THEN 1 ELSE 0
           paged == q.route \in PagedRoutes /\ code \in {200, 400}
           lost == SequenceOf(o, q.route, n) = {}
           sent == IF lost THEN 500 ELSE code
           page == paged /\ sent = 200
<1>1. code \in Statuses /\ (q.route \in AuthRoutes /\ code \in {200, 400} => remaining > 0)
  BY StatusIs
<1>2. oracle' \in OracleType
  <2>1. CASE lost /\ oracle' = o
    BY <2>1
  <2>2. CASE \E i \in SequenceOf(o, q.route, n) :
               LET answered == SetStatus(o, i, code)
               IN  oracle' = IF page THEN SetPage(answered, i, key.state, RowsOf(key)) ELSE answered
    <3>1. PICK i \in SequenceOf(o, q.route, n) :
            LET answered == SetStatus(o, i, code)
            IN  oracle' = IF page THEN SetPage(answered, i, key.state, RowsOf(key)) ELSE answered
      BY <2>2
    <3>2. i \in Nat
      BY OracleTypeIs DEF SequenceOf
    <3>3. SetStatus(o, i, code) \in OracleType
      BY <1>1, <3>2, SetStatusIs
    <3>4. key.state \in States /\ RowsOf(key) \in States
      BY DEF Key, RowsOf
    <3>5. SetPage(SetStatus(o, i, code), i, key.state, RowsOf(key)) \in OracleType
      BY <3>2, <3>3, <3>4, SetPageIs
    <3> QED BY <3>1, <3>3, <3>5
  <2> QED BY <2>1, <2>2 DEF Answer
<1>3. remaining' = remaining - tokens /\ spent' = spent + tokens
  BY DEF Answer
<1>4. tokens \in {0, 1} /\ (tokens = 1 => remaining > 0)
  BY <1>1
<1>5. Memos'
  <2>1. cursorMaps' = cursorMaps \/
        cursorMaps' = cursorMaps \cup
           {[route |-> q.route, key |-> key, pages |-> PageStarts(q.parent)]}
    BY DEF Answer
  <2>2. q.route \in Routes /\ q.parent \in Parents
    BY DEF Request
  <2> QED BY <2>1, <2>2 DEF Typed, Memos, PageStarts
<1>6. Issued'
  <2>1. \A x \in issued' : x \in issued \/
           \E c \in NextCursors(q, key) : x = [cursor |-> c, parent |-> q.parent]
    BY DEF Answer
  <2>2. q.parent \in Parents
    BY DEF Request
  <2>3. \A x \in issued' : x \in [cursor : Cursor, parent : Parents] /\ x.cursor.page \in PageStarts(x.parent)
    BY <2>1, <2>2, NextCursorsAre DEF Typed, Issued
  <2> QED BY <2>3 DEF Issued, PageStarts
<1>7. answers' \subseteq Answers
  <2>1. sent \in Statuses \cup {500}
    BY <1>1
  <2>2. answers' = {x \in answers : x.sequence # own} \cup {[sequence |-> own, status |-> sent]}
    BY DEF Answer
  <2> HIDE DEF sent
  <2> QED BY <2>1, <2>2 DEF Typed, Answers
<1> HIDE DEF tokens
<1>8. /\ remaining' \in 0 .. InitialRequests /\ spent' \in Nat
      /\ spent' + remaining' = spent + remaining
  BY <1>3, <1>4, BoundsAssumption DEF Typed
<1> QED BY <1>2, <1>5, <1>6, <1>7, <1>8

Asked == [route : Routes, parent : Parents, cursor : {{}} \cup {{x.cursor} : x \in issued},
          lacks : Lacks]

LEMMA AskedIs ==
    ASSUME Issued, NEW q \in Asked
    PROVE  q \in Request /\ OneCursor(q.cursor)
<1>1. q.cursor = {} \/ \E x \in issued : q.cursor = {x.cursor}
  BY DEF Asked
<1>2. q.cursor \in SUBSET Cursor /\ OneCursor(q.cursor)
  BY <1>1 DEF Issued, OneCursor
<1> QED BY <1>2 DEF Asked, Request

LEMMA WaitingIs ==
    ASSUME Typed, NEW c \in Calls, NEW w \in inflight[c]
    PROVE  /\ w.request \in Request /\ OneCursor(w.request.cursor) /\ w.number \in Nat
           /\ w.key \in Key /\ w.own \in Nat
BY DEF Typed, Waiting

LEMMA TypedArrive ==
    ASSUME Typed, NEW c \in Calls, NEW q \in Asked, Arrive(c, q)
    PROVE  Typed'
<1> DEFINE o == Record(oracle, q.route)
           w == [request |-> q, number |-> Count(o, q.route), key |-> current,
                 own |-> Len(o.events)]
<1>1. q \in Request /\ OneCursor(q.cursor) /\ q.route \in Paths
  BY AskedIs DEF Typed, Asked, Paths
<1>2. o \in OracleType /\ Len(o.events) \in Nat
  BY <1>1, RecordIs, OracleTypeIs DEF Typed
<1>3. oracle' = o /\ inflight' = [inflight EXCEPT ![c] = {w}]
      /\ UNCHANGED <<remaining, current, cursorMaps, saved, history, restarts>>
  BY DEF Arrive
<1> HIDE DEF o
<1>4. Count(o, q.route) \in Nat
  BY <1>2, CountIs DEF Count
<1>5. w \in Waiting
  BY <1>1, <1>2, <1>4 DEF Typed, Waiting
<1> HIDE DEF w
<1>6. inflight' \in [Calls -> SUBSET Waiting]
  BY <1>3, <1>5 DEF Typed
<1> QED BY <1>2, <1>3, <1>6 DEF Typed, Memos, Issued, history

LEMMA TypedServe ==
    ASSUME Typed, NEW q \in Asked, Serve(q)
    PROVE  Typed'
<1> DEFINE o == Record(oracle, q.route)
<1>1. q \in Request /\ q.route \in Paths
  BY AskedIs DEF Typed, Asked, Paths
<1>2. o \in OracleType /\ Len(o.events) \in Nat
  BY <1>1, RecordIs, OracleTypeIs DEF Typed
<1>3. Answer(q, Count(o, q.route), current, Len(o.events), o)
      /\ UNCHANGED <<current, inflight, saved, restarts>>
  BY DEF Serve
<1> HIDE DEF o
<1>4. /\ oracle' \in OracleType /\ Memos' /\ Issued' /\ answers' \subseteq Answers
      /\ remaining' \in 0 .. InitialRequests /\ spent' \in Nat
  BY <1>1, <1>2, <1>3, AnswerIsTyped DEF Typed
<1> QED BY <1>3, <1>4 DEF Typed

LEMMA TypedRespond ==
    ASSUME Typed, NEW c \in Calls, Respond(c)
    PROVE  Typed'
<1>1. PICK w \in inflight[c] : Answer(w.request, w.number, w.key, w.own, oracle)
  BY DEF Respond
<1>2. w.request \in Request /\ w.key \in Key /\ w.own \in Nat
  BY WaitingIs
<1>3. /\ oracle' \in OracleType /\ Memos' /\ Issued' /\ answers' \subseteq Answers
      /\ remaining' \in 0 .. InitialRequests /\ spent' \in Nat
  BY <1>1, <1>2, AnswerIsTyped DEF Typed
<1>4. inflight' \in [Calls -> SUBSET Waiting] /\ UNCHANGED <<current, saved, restarts>>
  BY DEF Respond, Typed
<1> QED BY <1>3, <1>4 DEF Typed

LEMMA RefreshIs ==
    ASSUME Typed, Refresh
    PROVE  LET o == Record(oracle, RefreshPath)
               own == Len(oracle.events) + 1
           IN  /\ o \in OracleType /\ own \in Nat /\ own = Len(o.events)
               /\ o.events = Append(oracle.events, RefreshPath)
               /\ oracle' = SetStatus(o, own, 200) /\ oracle' \in OracleType
               /\ answers' = answers \cup {[sequence |-> own, status |-> 200]}
<1>1. /\ Record(oracle, RefreshPath) \in OracleType
      /\ Record(oracle, RefreshPath).events = Append(oracle.events, RefreshPath)
      /\ Len(Record(oracle, RefreshPath).events) = Len(oracle.events) + 1
      /\ Len(oracle.events) + 1 \in Nat
  BY RecordIs DEF Typed, Paths
<1>2. /\ oracle' = SetStatus(Record(oracle, RefreshPath), Len(oracle.events) + 1, 200)
      /\ answers' = answers \cup {[sequence |-> Len(oracle.events) + 1, status |-> 200]}
  BY <1>1 DEF Refresh
<1>3. \A o \in OracleType, i \in Nat : SetStatus(o, i, 200) \in OracleType
  BY SetStatusIs DEF Statuses
<1>4. oracle' \in OracleType
  BY <1>1, <1>2, <1>3
<1> QED BY <1>1, <1>2, <1>4

LEMMA TypedOthers ==
    ASSUME Typed, Refresh \/ Reset \/ (\E s \in States : SetDatasetState(s)) \/ Persist \/ Restart
    PROVE  Typed'
<1>1. CASE Refresh
  <2>1. answers' \subseteq Answers
    BY <1>1, RefreshIs DEF Typed, Answers, Statuses
  <2>2. oracle' \in OracleType
    BY <1>1, RefreshIs
  <2>3. /\ remaining' = InitialRequests /\ spent' = 0
        /\ UNCHANGED <<current, cursorMaps, inflight, saved, issued, walked, restarts>>
    BY <1>1 DEF Refresh
  <2>4. remaining' \in 0 .. InitialRequests /\ spent' \in Nat
    BY <2>3, BoundsAssumption
  <2> QED BY <2>1, <2>2, <2>3, <2>4 DEF Typed, Memos, Issued
<1>2. CASE Reset
  <2>1. oracle' \in OracleType
    BY <1>2 DEF Reset, EmptyOracle, OracleType
  <2>2. restarts' \in 0 .. MaxRestart
    BY <1>2, BoundsAssumption DEF Reset, Typed
  <2> QED BY <1>2, <2>1, <2>2 DEF Reset, Typed, Memos, Issued
<1>3. CASE \E s \in States : SetDatasetState(s)
  <2>1. current' \in Key /\ cursorMaps' = {}
    BY <1>3 DEF SetDatasetState, Typed, Key
  <2>2. UNCHANGED <<oracle, remaining, inflight, saved, history, restarts>>
    BY <1>3 DEF SetDatasetState
  <2> QED BY <2>1, <2>2 DEF Typed, Memos, Issued, history
<1>4. CASE Persist
  <2>1. Snapshot \in Saved
    BY DEF Snapshot, Saved, Typed
  <2>2. saved' = {Snapshot} /\ UNCHANGED <<server, inflight, history, restarts>>
    BY <1>4 DEF Persist
  <2> QED BY <2>1, <2>2 DEF Typed, Memos, Issued, server, history
<1>5. CASE Restart
  <2>1. PICK s \in saved : /\ oracle' = s.oracle /\ current' = s.current
                           /\ remaining' = s.remaining /\ answers' = s.answers /\ spent' = s.spent
    BY <1>5 DEF Restart
  <2>2. /\ oracle' \in OracleType /\ current' \in Key /\ remaining' \in 0 .. InitialRequests
        /\ answers' \subseteq Answers /\ spent' \in Nat
    BY <2>1 DEF Typed, Saved
  <2>3. restarts' \in 0 .. MaxRestart
    BY <1>5, BoundsAssumption DEF Restart, Typed
  <2>4. /\ inflight' \in [Calls -> SUBSET Waiting] /\ cursorMaps' = {}
        /\ UNCHANGED <<saved, issued>>
    BY <1>5 DEF Restart, Abandoned
  <2> QED BY <2>2, <2>3, <2>4 DEF Typed, Memos, Issued
<1> QED BY <1>1, <1>2, <1>3, <1>4, <1>5

LEMMA NextIs ==
    ASSUME Next
    PROVE  \/ \E q \in Asked : Serve(q) \/ \E c \in Calls : Arrive(c, q)
           \/ \E c \in Calls : Respond(c)
           \/ Refresh \/ Reset \/ (\E s \in States : SetDatasetState(s)) \/ Persist \/ Restart
BY DEF Next, Asked

LEMMA TypedStep == Typed /\ [Next]_vars => Typed'
<1> SUFFICES ASSUME Typed, [Next]_vars PROVE Typed'
  OBVIOUS
<1>1. CASE UNCHANGED vars
  BY <1>1 DEF Typed, Memos, Issued, vars
<1>2. CASE Next
  BY <1>2, NextIs, TypedArrive, TypedServe, TypedRespond, TypedOthers
<1> QED BY <1>1, <1>2

LEMMA TypedIsTypeOK == Typed => TypeOK
<1> SUFFICES ASSUME Typed PROVE TypeOK
  OBVIOUS
<1>1. \A c \in Calls : \A w \in inflight[c] :
        /\ w.request \in Request /\ w.key \in Key /\ w.number \in Nat /\ w.own \in Nat
  BY WaitingIs
<1>2. \A s \in saved : s.current \in Key /\ s.oracle \in OracleType
  BY DEF Typed, Saved
<1>3. \A x \in issued : x.cursor \in Cursor /\ x.parent \in Parents
  BY DEF Typed, Issued
<1> QED BY <1>1, <1>2, <1>3 DEF TypeOK, Typed, Memos

(* The oracle, the budget, what waits and what was saved keep their types, *)
(* and the auth budget never leaves its range.                             *)
THEOREM SourceIsTyped == Spec => []TypeOK
<1>1. Spec => []Typed
  BY TypedInit, TypedStep, PTL DEF Spec
<1> QED BY <1>1, TypedIsTypeOK, PTL
-----------------------------------------------------------------------------
(* The oracle, while it is reset only when no call waits.  A waiting call  *)
(* is the event of its own, unanswered, and carries the number under which *)
(* it is found again; what was saved was true when it was saved.           *)
True(o, told) == Decodes(o) /\ o.statuses = told
Pending(w) ==
    /\ w.own \in DOMAIN oracle.events /\ oracle.events[w.own] = w.request.route
    /\ w.number = CountUpto(oracle, w.request.route, w.own)
    /\ \A x \in oracle.statuses : x.sequence # w.own
OracleInv ==
    /\ True(oracle, answers) /\ \A s \in saved : True(s.oracle, s.answers)
    /\ \A c \in Calls : \A w \in inflight[c] : Pending(w)
    /\ \A c, d \in Calls : \A w \in inflight[c], v \in inflight[d] : w.own = v.own => c = d

Balanced ==
    /\ spent + remaining = InitialRequests
    /\ \A s \in saved : s.spent + s.remaining = InitialRequests

(* Pages and cursors.                                                      *)
SamePages == \A p, q \in Parents : PageCount[p] = PageCount[q]
TruePages(o) == \A i \in DOMAIN o.pages : o.pages[i].rows = o.pages[i].state
WalkInv ==
    /\ TruePages(oracle) /\ \A s \in saved : TruePages(s.oracle)
    /\ \A a \in walked : a.status = 200 => a.cursor.key.state = a.rows
    /\ IssuedCursorsAccepted

LEMMA AnswerToOwn ==
    ASSUME NEW o \in OracleType, True(o, answers), NEW q \in Request, NEW key \in Key,
           NEW own \in DOMAIN o.events, o.events[own] = q.route,
           \A x \in o.statuses : x.sequence # own,
           Answer(q, CountUpto(o, q.route, own), key, own, o)
    PROVE  /\ oracle'.events = o.events /\ True(oracle', answers')
           /\ \A x \in oracle'.statuses : x \in o.statuses \/ x.sequence = own
<1> DEFINE n == CountUpto(o, q.route, own)
           code == Status(q, n, key)
           page == q.route \in PagedRoutes /\ code \in {200, 400} /\ code = 200
           answered == SetStatus(o, own, code)
           told == [sequence |-> own, status |-> code]
<1>1. SequenceOf(o, q.route, n) = {own}
  BY FoundAgain
<1>2. code \in Statuses /\ own \in Nat
  BY StatusIs, OracleTypeIs
<1>3. /\ oracle' = IF page THEN SetPage(answered, own, key.state, RowsOf(key)) ELSE answered
      /\ answers' = {x \in answers : x.sequence # own} \cup {told}
  <2>1. {own} # {} /\ \A i \in {own} : i = own
    OBVIOUS
  <2> QED BY <1>1, <2>1 DEF Answer
<1> HIDE DEF n, code, page, answered
<1>4. /\ answered \in OracleType /\ answered.events = o.events /\ answered.pages = o.pages
      /\ answered.statuses = {x \in o.statuses : x.sequence # own} \cup {told}
  BY <1>2, SetStatusIs DEF answered
<1>5. /\ {x \in o.statuses : x.sequence # own} = o.statuses
      /\ {x \in answers : x.sequence # own} = o.statuses
  BY DEF True
<1>6. /\ oracle'.events = o.events /\ oracle'.statuses = o.statuses \cup {told}
      /\ answers' = o.statuses \cup {told}
      /\ oracle'.pages = o.pages \/
           (page /\ oracle'.pages =
              Append(o.pages, [sequence |-> own, state |-> key.state, rows |-> RowsOf(key)]))
  <2>1. key.state \in States /\ RowsOf(key) \in States
    BY DEF Key, RowsOf
  <2>2. /\ SetPage(answered, own, key.state, RowsOf(key)).events = answered.events
        /\ SetPage(answered, own, key.state, RowsOf(key)).statuses = answered.statuses
        /\ SetPage(answered, own, key.state, RowsOf(key)).pages =
             Append(answered.pages, [sequence |-> own, state |-> key.state, rows |-> RowsOf(key)])
    BY <1>2, <1>4, <2>1, SetPageIs
  <2>3. CASE page
    BY <1>3, <1>4, <1>5, <2>2, <2>3
  <2>4. CASE ~page
    BY <1>3, <1>4, <1>5, <2>4
  <2> QED BY <2>3, <2>4
<1>7. told.sequence = own /\ told = [sequence |-> own, status |-> code] /\ (page => code = 200)
  BY DEF page
<1> HIDE DEF told
<1>8. Decodes(oracle')
  <2>0. /\ \A x \in o.statuses : x.sequence \in DOMAIN o.events
        /\ \A i \in DOMAIN o.pages :
              /\ [sequence |-> o.pages[i].sequence, status |-> 200] \in o.statuses
              /\ o.pages[i].sequence # own
        /\ \A i, j \in DOMAIN o.pages : o.pages[i].sequence = o.pages[j].sequence => i = j
        /\ o.pages \in Seq([sequence : Nat, state : States, rows : States])
    <3>1. \A i \in DOMAIN o.pages : [sequence |-> o.pages[i].sequence, status |-> 200] \in o.statuses
      BY DEF True, Decodes
    <3>2. \A i \in DOMAIN o.pages : o.pages[i].sequence # own
      BY <3>1
    <3> QED BY <3>1, <3>2, OracleTypeIs DEF True, Decodes
  <2>1. CASE oracle'.pages = o.pages
    BY <1>6, <1>7, <2>0, <2>1 DEF Decodes
  <2>2. CASE page /\ oracle'.pages =
               Append(o.pages, [sequence |-> own, state |-> key.state, rows |-> RowsOf(key)])
    <3> DEFINE new == [sequence |-> own, state |-> key.state, rows |-> RowsOf(key)]
    <3>1. new.sequence = own /\ oracle'.pages = Append(o.pages, new)
      BY <2>2
    <3> HIDE DEF new
    <3>2. \A i \in DOMAIN oracle'.pages :
            \/ i \in DOMAIN o.pages /\ oracle'.pages[i] = o.pages[i]
            \/ i = Len(o.pages) + 1 /\ oracle'.pages[i] = new
      BY <2>0, <3>1
    <3>3. \A i \in DOMAIN oracle'.pages :
            [sequence |-> oracle'.pages[i].sequence, status |-> 200] \in oracle'.statuses
      BY <1>6, <1>7, <2>0, <2>2, <3>1, <3>2
    <3>4. \A i, j \in DOMAIN oracle'.pages :
            oracle'.pages[i].sequence = oracle'.pages[j].sequence => i = j
      BY <2>0, <3>1, <3>2
    <3>5. \A x \in oracle'.statuses : x.sequence \in DOMAIN oracle'.events
      BY <1>6, <1>7, <2>0
    <3> QED BY <3>3, <3>4, <3>5 DEF Decodes
  <2> QED BY <1>6, <2>1, <2>2
<1> QED BY <1>6, <1>7, <1>8 DEF True

LEMMA OracleInit == Init => OracleInv
<1> SUFFICES ASSUME Init PROVE OracleInv
  OBVIOUS
<1>1. oracle.events = <<>> /\ oracle.statuses = {} /\ oracle.pages = <<>>
  BY DEF Init, EmptyOracle
<1>2. True(oracle, answers)
  BY <1>1 DEF Init, True, Decodes
<1> QED BY <1>2 DEF Init, OracleInv

(* What waits still does when another request is recorded and answered.    *)
LEMMA PendingKept ==
    ASSUME Typed, NEW w \in Waiting, Pending(w), NEW r \in Paths,
           oracle'.events = Append(oracle.events, r) \/ oracle'.events = oracle.events,
           \A x \in oracle'.statuses : x \in oracle.statuses \/ x.sequence # w.own
    PROVE  Pending(w)'
<1>1. /\ oracle.events \in Seq(Paths) /\ w.own \in DOMAIN oracle.events
      /\ w.own \in 0 .. Len(oracle.events)
  BY OracleTypeIs DEF Typed, Pending
<1>2. CASE oracle'.events = oracle.events
  BY <1>2 DEF Pending, CountUpto
<1>3. CASE oracle'.events = Append(oracle.events, r)
  <2>1. w.own \in DOMAIN oracle'.events /\ oracle'.events[w.own] = oracle.events[w.own]
    BY <1>1, <1>3
  <2>2. \A route : CountUpto(Record(oracle, r), route, w.own) = CountUpto(oracle, route, w.own)
    BY <1>1, CountKept DEF Typed
  <2>3. Record(oracle, r).events = oracle'.events
    BY <1>3, RecordIs DEF Typed
  <2>4. \A route : CountUpto(oracle', route, w.own) = CountUpto(Record(oracle, r), route, w.own)
    BY <2>3 DEF CountUpto
  <2> QED BY <2>1, <2>2, <2>4 DEF Pending
<1> QED BY <1>2, <1>3

(* A recorded request is an event without a status.                        *)
LEMMA Recorded ==
    ASSUME Typed, OracleInv, NEW r \in Paths
    PROVE  LET o == Record(oracle, r)
               own == Len(o.events)
           IN  /\ o \in OracleType /\ True(o, answers) /\ own \in DOMAIN o.events
               /\ o.events = Append(oracle.events, r) /\ o.events[own] = r
               /\ o.statuses = oracle.statuses /\ \A x \in o.statuses : x.sequence # own
               /\ own \in Nat /\ own \notin DOMAIN oracle.events
<1> DEFINE o == Record(oracle, r)
           own == Len(o.events)
<1>1. /\ o \in OracleType /\ o.events = Append(oracle.events, r) /\ own = Len(oracle.events) + 1
      /\ o.statuses = oracle.statuses /\ o.pages = oracle.pages
      /\ oracle.events \in Seq(Paths)
  BY RecordIs, OracleTypeIs DEF Typed
<1> HIDE DEF o
<1>2. own \in DOMAIN o.events /\ o.events[own] = r /\ own \notin DOMAIN oracle.events /\ own \in Nat
      /\ DOMAIN oracle.events \subseteq DOMAIN o.events
  BY <1>1
<1> HIDE DEF own
<1>3. True(o, answers) /\ \A x \in o.statuses : x.sequence # own
  BY <1>1, <1>2 DEF OracleInv, True, Decodes
<1> QED BY <1>1, <1>2, <1>3 DEF o, own

LEMMA OracleArrive ==
    ASSUME Typed, OracleInv, NEW c \in Calls, NEW q \in Asked, Arrive(c, q)
    PROVE  OracleInv'
<1> DEFINE o == Record(oracle, q.route)
           own == Len(o.events)
<1> PICK new : new = [request |-> q, number |-> Count(o, q.route), key |-> current, own |-> own]
  OBVIOUS
<1>0. q.route \in Paths
  BY DEF Asked, Paths
<1>1. /\ o \in OracleType /\ True(o, answers) /\ own \in DOMAIN o.events
      /\ o.events = Append(oracle.events, q.route) /\ o.events[own] = q.route
      /\ o.statuses = oracle.statuses /\ \A x \in o.statuses : x.sequence # own
      /\ own \notin DOMAIN oracle.events
  BY <1>0, Recorded
<1>2. /\ oracle' = o /\ inflight' = [inflight EXCEPT ![c] = {new}] /\ inflight[c] = {}
      /\ answers' = answers /\ saved' = saved
  BY DEF Arrive, history
<1>3. new.own = own /\ new.request.route = q.route /\ new.number = CountUpto(o, q.route, own)
  BY DEF Count
<1> HIDE DEF o, own
<1>4. /\ inflight'[c] = {new} /\ \A d \in Calls : d # c => inflight'[d] = inflight[d]
      /\ \A d \in Calls : \A w \in inflight[d] : w \in Waiting
  BY <1>2 DEF Typed
<1>5. Pending(new)'
  BY <1>1, <1>2, <1>3 DEF Pending
<1>6. \A d \in Calls : \A w \in inflight[d] : Pending(w)'
  BY <1>0, <1>1, <1>2, <1>4, PendingKept DEF OracleInv
<1>7. \A d \in Calls : \A w \in inflight[d] : w.own # own
  BY <1>1 DEF OracleInv, Pending
<1>8. \A d \in Calls : \A w \in inflight'[d] : Pending(w)'
  BY <1>4, <1>5, <1>6
<1>9. \A d, e \in Calls : \A w \in inflight'[d], v \in inflight'[e] : w.own = v.own => d = e
  BY <1>3, <1>4, <1>7 DEF OracleInv
<1> QED BY <1>1, <1>2, <1>8, <1>9 DEF OracleInv

LEMMA OracleServe ==
    ASSUME Typed, OracleInv, NEW q \in Asked, Serve(q)
    PROVE  OracleInv'
<1> DEFINE o == Record(oracle, q.route)
           own == Len(o.events)
<1>0. q.route \in Paths /\ q \in Request
  BY AskedIs DEF Asked, Paths, Typed
<1>1. /\ o \in OracleType /\ True(o, answers) /\ own \in DOMAIN o.events
      /\ o.events = Append(oracle.events, q.route) /\ o.events[own] = q.route
      /\ o.statuses = oracle.statuses /\ \A x \in o.statuses : x.sequence # own
      /\ own \notin DOMAIN oracle.events
  BY <1>0, Recorded
<1>2. Answer(q, CountUpto(o, q.route, own), current, own, o) /\ UNCHANGED <<inflight, saved>>
  BY DEF Serve, Count
<1> HIDE DEF o, own
<1>3. /\ oracle'.events = o.events /\ True(oracle', answers')
      /\ \A x \in oracle'.statuses : x \in o.statuses \/ x.sequence = own
  BY <1>0, <1>1, <1>2, AnswerToOwn DEF Typed
<1>4. ASSUME NEW d \in Calls, NEW w \in inflight[d] PROVE Pending(w)'
  <2>1. w \in Waiting /\ Pending(w) /\ w.own # own
    BY <1>1 DEF Typed, OracleInv, Pending
  <2> QED BY <1>0, <1>1, <1>3, <2>1, PendingKept
<1> QED BY <1>2, <1>3, <1>4 DEF OracleInv

LEMMA OracleRespond ==
    ASSUME Typed, OracleInv, NEW c \in Calls, Respond(c)
    PROVE  OracleInv'
<1>1. PICK w \in inflight[c] : Answer(w.request, w.number, w.key, w.own, oracle)
  BY DEF Respond
<1>2. w.request \in Request /\ w.key \in Key /\ w.request.route \in Paths
  BY WaitingIs DEF Request, Paths
<1>3. /\ w.own \in DOMAIN oracle.events /\ oracle.events[w.own] = w.request.route
      /\ w.number = CountUpto(oracle, w.request.route, w.own)
      /\ \A x \in oracle.statuses : x.sequence # w.own
  BY DEF OracleInv, Pending
<1>4. Answer(w.request, CountUpto(oracle, w.request.route, w.own), w.key, w.own, oracle)
  BY <1>1, <1>3
<1>5. /\ oracle'.events = oracle.events /\ True(oracle', answers')
      /\ \A x \in oracle'.statuses : x \in oracle.statuses \/ x.sequence = w.own
  BY <1>2, <1>3, <1>4, AnswerToOwn DEF Typed, OracleInv
<1>6. /\ inflight'[c] = {} /\ \A d \in Calls : d # c => inflight'[d] = inflight[d]
      /\ saved' = saved
  BY DEF Respond, Typed
<1>7. ASSUME NEW d \in Calls, NEW v \in inflight'[d] PROVE Pending(v)'
  <2>1. d # c /\ v \in inflight[d]
    BY <1>6, <1>7
  <2>2. v \in Waiting /\ Pending(v) /\ v.own # w.own
    BY <2>1 DEF Typed, OracleInv
  <2> QED BY <1>2, <1>5, <2>2, PendingKept
<1> QED BY <1>5, <1>6, <1>7 DEF OracleInv

LEMMA OracleRefresh ==
    ASSUME Typed, OracleInv, Refresh
    PROVE  OracleInv'
<1> DEFINE o == Record(oracle, RefreshPath)
           own == Len(o.events)
<1> PICK ok \in Statuses : ok = 200
  BY DEF Statuses
<1> DEFINE told == [sequence |-> own, status |-> ok]
<1>0. RefreshPath \in Paths
  BY DEF Paths
<1>1. /\ o \in OracleType /\ True(o, answers) /\ own \in DOMAIN o.events
      /\ o.events = Append(oracle.events, RefreshPath)
      /\ o.statuses = oracle.statuses /\ \A x \in o.statuses : x.sequence # own
      /\ own \notin DOMAIN oracle.events /\ own \in Nat
  BY <1>0, Recorded
<1>2. /\ oracle' = SetStatus(o, own, ok) /\ answers' = answers \cup {told}
      /\ UNCHANGED <<inflight, saved>>
  BY DEF Refresh
<1> HIDE DEF o, own
<1>3. /\ oracle'.events = o.events /\ oracle'.pages = o.pages
      /\ oracle'.statuses = {x \in o.statuses : x.sequence # own} \cup {told}
  <2>1. o \in OracleType /\ own \in Nat
    BY <1>1
  <2>2. /\ SetStatus(o, own, ok).events = o.events /\ SetStatus(o, own, ok).pages = o.pages
        /\ SetStatus(o, own, ok).statuses = {x \in o.statuses : x.sequence # own} \cup {told}
    BY <2>1, SetStatusIs
  <2> QED BY <1>2, <2>2
<1>4. oracle'.statuses = o.statuses \cup {told} /\ told.sequence = own
  BY <1>1, <1>3
<1> HIDE DEF told
<1>5. True(oracle', answers')
  <2>1. \A x \in oracle'.statuses : x.sequence \in DOMAIN oracle'.events
    BY <1>1, <1>3, <1>4 DEF True, Decodes
  <2>2. /\ \A i \in DOMAIN o.pages : [sequence |-> o.pages[i].sequence, status |-> ok] \in o.statuses
        /\ \A i, j \in DOMAIN o.pages : o.pages[i].sequence = o.pages[j].sequence => i = j
    BY <1>1 DEF True, Decodes
  <2>3. Decodes(oracle')
    BY <1>3, <1>4, <2>1, <2>2 DEF Decodes
  <2>4. oracle'.statuses = answers'
    BY <1>1, <1>2, <1>4 DEF True
  <2> QED BY <2>3, <2>4 DEF True
<1>6. ASSUME NEW d \in Calls, NEW w \in inflight[d] PROVE Pending(w)'
  <2>1. w \in Waiting /\ Pending(w) /\ w.own # own
    BY <1>1 DEF Typed, OracleInv, Pending
  <2> QED BY <1>0, <1>1, <1>3, <1>4, <2>1, PendingKept
<1> QED BY <1>2, <1>5, <1>6 DEF OracleInv

LEMMA OracleStep ==
    ASSUME IdleResets
    PROVE  Typed /\ OracleInv /\ [Next]_vars => OracleInv'
<1> SUFFICES ASSUME Typed, OracleInv, [Next]_vars PROVE OracleInv'
  OBVIOUS
<1>1. CASE Reset
  <2>1. oracle' = EmptyOracle /\ answers' = {} /\ saved' = saved /\ inflight' = inflight
        /\ \A c \in Calls : inflight[c] = {}
    BY <1>1 DEF Reset
  <2>2. True(oracle', answers')
    BY <2>1 DEF EmptyOracle, True, Decodes
  <2> QED BY <2>1, <2>2 DEF OracleInv
<1>2. CASE Restart
  <2>1. PICK s \in saved : oracle' = s.oracle /\ answers' = s.answers
    BY <1>2 DEF Restart
  <2>2. saved' = saved /\ \A c \in Calls : inflight'[c] = {}
    BY <1>2 DEF Restart, Abandoned
  <2>3. True(oracle', answers')
    BY <2>1 DEF OracleInv
  <2> QED BY <2>2, <2>3 DEF OracleInv
<1>3. CASE Persist
  <2>1. saved' = {Snapshot} /\ UNCHANGED <<oracle, answers, inflight>>
    BY <1>3 DEF Persist, server, history
  <2>2. Snapshot.oracle = oracle /\ Snapshot.answers = answers
    BY DEF Snapshot
  <2> QED BY <2>1, <2>2 DEF OracleInv, Pending
<1>4. CASE (\E s \in States : SetDatasetState(s)) \/ UNCHANGED vars
  <2>1. UNCHANGED <<oracle, answers, inflight, saved>>
    BY <1>4 DEF SetDatasetState, history, vars
  <2> QED BY <2>1 DEF OracleInv, Pending
<1> QED BY <1>1, <1>2, <1>3, <1>4, NextIs, OracleArrive, OracleServe, OracleRespond, OracleRefresh

(* What the oracle says of a request is what its client was told, in       *)
(* whatever order responses come and over restarts, unless the counters    *)
(* are reset while a call waits.                                           *)
THEOREM OracleTellsTheTruth ==
    ASSUME IdleResets
    PROVE  Spec => []OracleIsTrue
<1>1. Init => Typed /\ OracleInv
  BY TypedInit, OracleInit
<1>2. Typed /\ OracleInv /\ [Next]_vars => (Typed /\ OracleInv)'
  BY TypedStep, OracleStep
<1>3. Typed /\ OracleInv => OracleIsTrue
  BY DEF OracleInv, True, OracleIsTrue
<1> QED BY <1>1, <1>2, <1>3, PTL DEF Spec

LEMMA BalancedStep == Typed /\ Balanced /\ [Next]_vars => Balanced'
<1> SUFFICES ASSUME Typed, Balanced, [Next]_vars PROVE Balanced'
  OBVIOUS
<1>1. ASSUME NEW q \in Asked, Serve(q) PROVE Balanced'
  <2> DEFINE o == Record(oracle, q.route)
  <2>1. q.route \in Paths /\ q \in Request
    BY AskedIs DEF Asked, Paths, Typed
  <2>2. o \in OracleType /\ Len(o.events) \in Nat
    BY <2>1, RecordIs, OracleTypeIs DEF Typed
  <2>3. Answer(q, Count(o, q.route), current, Len(o.events), o) /\ saved' = saved
    BY <1>1 DEF Serve
  <2> HIDE DEF o
  <2>4. spent' + remaining' = spent + remaining
    BY <2>1, <2>2, <2>3, AnswerIsTyped DEF Typed
  <2> QED BY <2>3, <2>4 DEF Balanced
<1>2. ASSUME NEW c \in Calls, Respond(c) PROVE Balanced'
  <2>1. PICK w \in inflight[c] : Answer(w.request, w.number, w.key, w.own, oracle)
    BY <1>2 DEF Respond
  <2>2. spent' + remaining' = spent + remaining
    BY <2>1, WaitingIs, AnswerIsTyped DEF Typed
  <2> QED BY <1>2, <2>2 DEF Balanced, Respond
<1>3. CASE Refresh
  <2>1. remaining' = InitialRequests /\ spent' = 0 /\ saved' = saved
    BY <1>3 DEF Refresh
  <2> QED BY <2>1, BoundsAssumption DEF Balanced
<1>4. CASE Restart
  <2>1. PICK s \in saved : remaining' = s.remaining /\ spent' = s.spent
    BY <1>4 DEF Restart
  <2>2. saved' = saved
    BY <1>4 DEF Restart
  <2> QED BY <2>1, <2>2 DEF Balanced
<1>5. CASE Persist
  <2>1. saved' = {Snapshot} /\ UNCHANGED <<spent, remaining>>
    BY <1>5 DEF Persist, server, history
  <2>2. Snapshot.spent = spent /\ Snapshot.remaining = remaining
    BY DEF Snapshot
  <2> QED BY <2>1, <2>2 DEF Balanced
<1>6. CASE \/ \E c \in Calls, q \in Asked : Arrive(c, q)
           \/ \E s \in States : SetDatasetState(s)
           \/ Reset \/ UNCHANGED vars
  <2>1. UNCHANGED <<spent, remaining, saved>>
    BY <1>6 DEF Arrive, SetDatasetState, Reset, vars, history
  <2> QED BY <2>1 DEF Balanced
<1> QED BY <1>1, <1>2, <1>3, <1>4, <1>5, <1>6, NextIs

(* Every snapshot, whenever it is taken, is accepted by the next start, and *)
(* no restart refills the auth budget or drains it, unless the counters are *)
(* reset while a call waits.                                               *)
THEOREM RestartsAreFaithful ==
    ASSUME IdleResets
    PROVE  Spec => []RestartIsFaithful
<1>1. Init => Typed /\ OracleInv /\ Balanced
  <2>1. Init => Balanced
    BY BoundsAssumption DEF Init, Balanced
  <2> QED BY <2>1, TypedInit, OracleInit
<1>2. Typed /\ OracleInv /\ Balanced /\ [Next]_vars => (Typed /\ OracleInv /\ Balanced)'
  BY TypedStep, OracleStep, BalancedStep
<1>3. Typed /\ OracleInv /\ Balanced => RestartIsFaithful
  <2> SUFFICES ASSUME Typed, OracleInv, Balanced PROVE RestartIsFaithful
    OBVIOUS
  <2>1. Snapshot.remaining = remaining /\ Snapshot.oracle = oracle
    BY DEF Snapshot
  <2>2. Restorable(Snapshot)
    BY <2>1 DEF Restorable, Typed, OracleInv, True
  <2>3. \A s \in saved : Restorable(s)
    BY DEF Restorable, Typed, Saved, OracleInv, True
  <2> QED BY <2>2, <2>3 DEF RestartIsFaithful, SnapshotsRestorable, BudgetHonoured, Balanced
<1> QED BY <1>1, <1>2, <1>3, PTL DEF Spec
-----------------------------------------------------------------------------
(* Pages and cursors                                                       *)

LEMMA WalkInit == Init => WalkInv
<1> SUFFICES ASSUME Init PROVE WalkInv
  OBVIOUS
<1>1. DOMAIN oracle.pages = {} /\ saved = {} /\ walked = {}
  BY DEF Init, EmptyOracle
<1> QED BY <1>1 DEF WalkInv, TruePages, IssuedCursorsAccepted

(* A cursor handed out for a collection starts a page, so it is among the  *)
(* memoised page starts, whichever collection they were taken from.        *)
LEMMA IssuedIsValid ==
    ASSUME SamePages, Typed, NEW q \in Request, OneCursor(q.cursor), NEW key, NEW c \in q.cursor,
           c.key = key, c.route = q.route, [cursor |-> c, parent |-> q.parent] \in issued
    PROVE  CursorValid(q, key)
<1>1. q.parent \in Parents /\ c.page \in PageStarts(q.parent)
  BY DEF Request, Typed, Issued
<1>2. \A p \in Parents : PageStarts(p) = PageStarts(q.parent)
  BY <1>1 DEF SamePages, PageStarts
<1>3. \A m \in Memo(q, key) : m.pages = PageStarts(q.parent)
  BY <1>2 DEF Typed, Memos, Memo
<1>4. c.page \in ValidPages(q, key)
  BY <1>1, <1>3 DEF ValidPages
<1> QED BY <1>4 DEF CursorValid, OneCursor

LEMMA AnswerWalks ==
    ASSUME SamePages, Typed, NEW o \in OracleType, TruePages(o), NEW q \in Request,
           OneCursor(q.cursor), NEW n, NEW key \in Key, NEW own, Answer(q, n, key, own, o)
    PROVE  /\ TruePages(oracle') /\ IssuedCursorsAccepted'
           /\ \A a \in walked' : a.status = 200 => a.cursor.key.state = a.rows
<1> DEFINE code == Status(q, n, key)
           paged == q.route \in PagedRoutes /\ code \in {200, 400}
           lost == SequenceOf(o, q.route, n) = {}
           sent == IF lost THEN 500 ELSE code
           page == paged /\ sent = 200
<1>1. code \in Statuses /\ (code = 200 => CursorValid(q, key)) /\ (code = 400 => ~CursorValid(q, key))
  BY StatusIs
<1>2. TruePages(oracle')
  <2>1. CASE oracle' = o
    BY <2>1
  <2>2. CASE oracle' # o
    <3>1. PICK i \in SequenceOf(o, q.route, n) :
            oracle' = IF page THEN SetPage(SetStatus(o, i, code), i, key.state, RowsOf(key))
                      ELSE SetStatus(o, i, code)
      BY <2>2 DEF Answer
    <3> HIDE DEF code, page
    <3>2. i \in Nat /\ key.state \in States /\ RowsOf(key) = key.state
      BY OracleTypeIs DEF SequenceOf, Key, RowsOf
    <3>3. SetStatus(o, i, code) \in OracleType /\ SetStatus(o, i, code).pages = o.pages
      BY <1>1, <3>2, SetStatusIs
    <3>4. CASE ~page
      BY <3>1, <3>3, <3>4 DEF TruePages
    <3>5. CASE page
      <4> DEFINE new == [sequence |-> i, state |-> key.state, rows |-> RowsOf(key)]
      <4>1. oracle'.pages = Append(o.pages, new)
        BY <3>1, <3>2, <3>3, <3>5, SetPageIs
      <4>2. new.rows = new.state
        BY <3>2
      <4> HIDE DEF new
      <4>3. o.pages \in Seq([sequence : Nat, state : States, rows : States])
        BY OracleTypeIs
      <4>4. \A k \in DOMAIN oracle'.pages :
              \/ k \in DOMAIN o.pages /\ oracle'.pages[k] = o.pages[k]
              \/ oracle'.pages[k] = new
        BY <4>1, <4>3
      <4> QED BY <4>2, <4>4 DEF TruePages
    <3> QED BY <3>4, <3>5
  <2> QED BY <2>1, <2>2
<1>3. /\ walked' = {[route |-> q.route, parent |-> q.parent, key |-> key, cursor |-> c,
                     status |-> sent, rows |-> RowsOf(key)] : c \in q.cursor}
      /\ issued' = issued \cup {[cursor |-> c, parent |-> q.parent] :
                                  c \in IF page THEN NextCursors(q, key) ELSE {}}
  BY DEF Answer
<1>4. /\ sent = 200 => CursorValid(q, key)
      /\ sent = 400 => ~CursorValid(q, key) /\ ~page
  BY <1>1
<1> HIDE DEF code, paged, lost, sent, page
<1>5. ASSUME NEW a \in walked'
      PROVE  \E c \in q.cursor : /\ a.cursor = c /\ a.route = q.route /\ a.parent = q.parent
                                 /\ a.key = key /\ a.status = sent /\ a.rows = key.state
  BY <1>3 DEF RowsOf
<1>6. \A a \in walked' : a.status = 200 => a.cursor.key.state = a.rows
  BY <1>4, <1>5 DEF CursorValid
<1>7. IssuedCursorsAccepted'
  <2> SUFFICES ASSUME NEW a \in walked', a.status = 400, a.cursor.key = a.key,
                      a.cursor.route = a.route, [cursor |-> a.cursor, parent |-> a.parent] \in issued'
               PROVE  FALSE
    BY DEF IssuedCursorsAccepted
  <2>1. PICK c \in q.cursor : /\ a.cursor = c /\ a.route = q.route /\ a.parent = q.parent
                              /\ a.key = key /\ a.status = sent
    BY <1>5
  <2>2. issued' = issued /\ ~CursorValid(q, key)
    BY <1>3, <1>4, <2>1
  <2>3. c.key = key /\ c.route = q.route /\ [cursor |-> c, parent |-> q.parent] \in issued
    BY <2>1, <2>2
  <2> QED BY <2>2, <2>3, IssuedIsValid
<1> QED BY <1>2, <1>6, <1>7

LEMMA WalkStep ==
    ASSUME SamePages
    PROVE  Typed /\ WalkInv /\ [Next]_vars => WalkInv'
<1> SUFFICES ASSUME Typed, WalkInv, [Next]_vars PROVE WalkInv'
  OBVIOUS
<1>1. ASSUME NEW q \in Asked, Serve(q) PROVE WalkInv'
  <2> DEFINE o == Record(oracle, q.route)
  <2>1. q.route \in Paths /\ q \in Request /\ OneCursor(q.cursor)
    BY AskedIs DEF Asked, Paths, Typed
  <2>2. o \in OracleType /\ o.pages = oracle.pages
    BY <2>1, RecordIs DEF Typed
  <2>3. Answer(q, Count(o, q.route), current, Len(o.events), o) /\ saved' = saved
    BY <1>1 DEF Serve
  <2> HIDE DEF o
  <2>4. TruePages(o)
    BY <2>2 DEF WalkInv, TruePages
  <2>5. /\ TruePages(oracle') /\ IssuedCursorsAccepted'
        /\ \A a \in walked' : a.status = 200 => a.cursor.key.state = a.rows
    BY <2>1, <2>2, <2>3, <2>4, AnswerWalks DEF Typed
  <2> QED BY <2>3, <2>5 DEF WalkInv, TruePages
<1>2. ASSUME NEW c \in Calls, Respond(c) PROVE WalkInv'
  <2>1. PICK w \in inflight[c] : Answer(w.request, w.number, w.key, w.own, oracle)
    BY <1>2 DEF Respond
  <2>2. /\ TruePages(oracle') /\ IssuedCursorsAccepted'
        /\ \A a \in walked' : a.status = 200 => a.cursor.key.state = a.rows
    BY <2>1, WaitingIs, AnswerWalks DEF Typed, WalkInv
  <2> QED BY <1>2, <2>2 DEF WalkInv, TruePages, Respond
<1>3. CASE Restart
  <2>1. PICK s \in saved : oracle' = s.oracle
    BY <1>3 DEF Restart
  <2>2. UNCHANGED <<saved, issued, walked>>
    BY <1>3 DEF Restart
  <2> QED BY <2>1, <2>2 DEF WalkInv, TruePages, IssuedCursorsAccepted
<1>4. CASE Persist
  <2>1. saved' = {Snapshot} /\ UNCHANGED <<oracle, issued, walked>>
    BY <1>4 DEF Persist, server, history
  <2>2. Snapshot.oracle = oracle
    BY DEF Snapshot
  <2> QED BY <2>1, <2>2 DEF WalkInv, TruePages, IssuedCursorsAccepted
<1>5. CASE Reset
  <2>1. oracle'.pages = <<>> /\ DOMAIN <<>> = {} /\ UNCHANGED <<saved, issued, walked>>
    BY <1>5 DEF Reset, EmptyOracle
  <2> QED BY <2>1 DEF WalkInv, TruePages, IssuedCursorsAccepted
<1>6. CASE Refresh
  <2>1. oracle'.pages = oracle.pages
    <3>1. PICK ok \in Statuses : ok = 200
      BY DEF Statuses
    <3>2. PICK o \in OracleType, own \in Nat : o.pages = oracle.pages /\ oracle' = SetStatus(o, own, ok)
      BY <1>6, <3>1, RefreshIs, RecordIs DEF Refresh, Typed, Paths
    <3> QED BY <3>2, SetStatusIs
  <2>2. UNCHANGED <<saved, issued, walked>>
    BY <1>6 DEF Refresh
  <2> QED BY <2>1, <2>2 DEF WalkInv, TruePages, IssuedCursorsAccepted
<1>7. ASSUME NEW c \in Calls, NEW q \in Asked, Arrive(c, q) PROVE WalkInv'
  <2>1. oracle' = Record(oracle, q.route) /\ UNCHANGED <<saved, issued, walked>>
    BY <1>7 DEF Arrive, history
  <2>2. oracle'.pages = oracle.pages
    BY <2>1, RecordIs DEF Typed, Asked, Paths
  <2> QED BY <2>1, <2>2 DEF WalkInv, TruePages, IssuedCursorsAccepted
<1>8. CASE (\E s \in States : SetDatasetState(s)) \/ UNCHANGED vars
  <2>1. UNCHANGED <<oracle, saved, issued, walked>>
    BY <1>8 DEF SetDatasetState, history, vars
  <2> QED BY <2>1 DEF WalkInv, TruePages, IssuedCursorsAccepted
<1> QED BY <1>1, <1>2, <1>3, <1>4, <1>5, <1>6, <1>7, <1>8, NextIs

(* A page is of the dataset its observation names and its cursor was issued *)
(* for, and no cursor the source issued is refused while its dataset is    *)
(* there, provided the collections under one route have as many pages.     *)
THEOREM WalksAreSound ==
    ASSUME SamePages
    PROVE  Spec => []WalkIsSound
<1>1. Init => Typed /\ WalkInv
  BY TypedInit, WalkInit
<1>2. Typed /\ WalkInv /\ [Next]_vars => (Typed /\ WalkInv)'
  BY TypedStep, WalkStep
<1>3. Typed /\ WalkInv => WalkIsSound
  BY DEF WalkInv, TruePages, WalkIsSound, PagesMatchState
<1> QED BY <1>1, <1>2, <1>3, PTL DEF Spec
-----------------------------------------------------------------------------
Running == status \in {"speak", "listen"}

(* What the operator owes was deferred at a fixed beat, after the first    *)
(* message, and lies after all that was said of the queue.                 *)
DebtInv ==
    /\ \A b \in beats : Kind(b) \in Beats
    /\ turns = 0 => beats = {} /\ approved = 0
    /\ \A s \in spoken : Kind(s) # "approval" =>
         s <= cursor /\ \A b \in beats : s < b

(* Before the switch the script is in the prefix, and so is all that is    *)
(* owed; after it nothing of the prefix is owed.                           *)
ChainInv ==
    /\ Switched => cursor >= prefix
    /\ chain = "waiting" => prefix > 0 /\ cursor <= prefix
    /\ prefix > 0 =>
         \A s \in beats \cup ({owed, early} \ {0}) : s > prefix <=> Switched

(* A deferred beat is in the queue until it is said or excused.            *)
QueueInv ==
    Running => \A s \in queued : Kind(s) # "approval" => s \in beats \cup spoken \cup excused

OperatorIInv ==
    /\ OperatorTypeOK /\ DebtInv /\ ChainInv /\ QueueInv
    /\ QueuedBeatsAreSaid /\ ApprovalsAreSound
-----------------------------------------------------------------------------
(* Slots, kinds and minima *)

LEMMA MinOfSlots ==
    ASSUME NEW S \in SUBSET Nat, S # {}
    PROVE  Min(S) \in S /\ \A x \in S : Min(S) <= x
<1>1. PICK k \in S : \A m \in S : ~ (<<m, k>> \in OpToRel(<, Nat))
  BY NatLessThanWellFounded, WFMin
<1>2. \A m \in S : k <= m
  <2> SUFFICES ASSUME NEW m \in S, ~ (k <= m)
               PROVE  FALSE
    OBVIOUS
  <2>1. m \in Nat /\ k \in Nat
    OBVIOUS
  <2>2. <<m, k>> \in Nat \X Nat /\ m < k
    BY <2>1
  <2>3. <<m, k>> \in OpToRel(<, Nat)
    BY <2>2 DEF OpToRel
  <2> QED BY <1>1, <2>3
<1>3. \E x \in S : \A y \in S : x <= y
  BY <1>1, <1>2
<1> QED BY <1>3 DEF Min

LEMMA Script ==
    ASSUME OperatorTypeOK
    PROVE  /\ LastSlot \in Nat /\ cursor \in Nat /\ turns \in Nat
           /\ prefix \in Nat /\ prefix < LastSlot /\ cursor <= LastSlot
           /\ turns <= cursor /\ beats \subseteq 1 .. cursor
           /\ Kind(0) = "open" /\ \A s \in 1 .. LastSlot : Kind(s) \in Slots
<1>1. PICK c \in Scenarios : script = c[1] /\ prefix = c[2]
  BY DEF OperatorTypeOK
<1>2. script \in Seq(Slots) /\ prefix \in 0 .. Len(script) - 1
  BY <1>1, ScenarioAssumption
<1>3. LastSlot \in Nat /\ prefix \in Nat /\ prefix < LastSlot
  BY <1>2 DEF LastSlot
<1>4. Kind(0) = "open" /\ \A s \in 1 .. LastSlot : Kind(s) \in Slots
  BY <1>2, <1>3 DEF Kind, LastSlot
<1>5. cursor \in 0 .. LastSlot /\ turns \in 0 .. cursor
  BY DEF OperatorTypeOK
<1>6. cursor \in Nat /\ cursor <= LastSlot
  BY <1>3, <1>5
<1>7. turns \in Nat /\ turns <= cursor
  BY <1>5, <1>6
<1>8. beats \subseteq 1 .. cursor
  BY DEF OperatorTypeOK
<1> QED BY <1>3, <1>4, <1>6, <1>7, <1>8

LEMMA Widen ==
    ASSUME NEW a \in Int, NEW b \in Int, NEW c \in Int, NEW d \in Int, c <= a, b <= d
    PROVE  a .. b \subseteq c .. d
OBVIOUS

(* The kinds of slots stay what they are: the script never changes.        *)
LEMMA KindIsFixed ==
    ASSUME UNCHANGED scenario
    PROVE  LastSlot' = LastSlot /\ \A s : Kind(s)' = Kind(s)
BY DEF scenario, Kind, LastSlot
-----------------------------------------------------------------------------
(* The queue and the line of the next message *)

LEMMA QueueFacts ==
    ASSUME OperatorIInv, HasSlot
    PROVE  /\ Slot \in 1 .. LastSlot /\ Slot > cursor
           /\ prefix > 0 => (Slot > prefix <=> Switched)
           /\ Owes \subseteq 1 .. Slot /\ \A b \in Owes : Kind(b) \in Beats
           /\ \A b \in Owes : prefix > 0 => (b > prefix <=> Switched)
           /\ \A s \in spoken : Kind(s) # "approval" => s < Slot /\ \A b \in Owes : s < b
           /\ Kind(Scheduled) \in Beats /\ ~Deferred => Owes = {}
           /\ Owes # {} => Min(Owes) \in Owes /\ \A b \in Owes : Min(Owes) <= b
           /\ Scheduled \in {0, Slot} /\ Debt \subseteq beats
<1>0. OperatorTypeOK /\ DebtInv /\ ChainInv
  BY DEF OperatorIInv
<1>1. Slot \in 1 .. LastSlot /\ Slot > cursor
  BY <1>0, Script DEF Slot, HasSlot
<1>2. prefix > 0 => (Slot > prefix <=> Switched)
  BY <1>0, Script DEF Slot, HasSlot, ChainInv
<1>3. Debt \subseteq beats /\ beats \subseteq 1 .. cursor
  BY <1>0 DEF Debt, Retained, OperatorTypeOK
<1>4. Deferred => Kind(Slot) \in Beats
  BY <1>0, Script DEF Deferred, Scheduled, Beats
<1>5. Owes \subseteq Debt \cup {Slot} /\ \A b \in Owes : Kind(b) \in Beats
  BY <1>0, <1>3, <1>4 DEF Owes, DebtInv
<1>6. Owes \subseteq 1 .. Slot
  BY <1>0, <1>1, <1>3, <1>5, Script
<1>7. \A b \in Owes : prefix > 0 => (b > prefix <=> Switched)
  BY <1>0, <1>2, <1>3, <1>5 DEF ChainInv
<1>8. \A s \in spoken : Kind(s) # "approval" => s < Slot /\ \A b \in Owes : s < b
  <2> SUFFICES ASSUME NEW s \in spoken, Kind(s) # "approval"
               PROVE  s < Slot /\ \A b \in Owes : s < b
    OBVIOUS
  <2>1. s <= cursor /\ \A b \in beats : s < b
    BY <1>0 DEF DebtInv
  <2>0. spoken \subseteq 1 .. LastSlot
    BY <1>0 DEF OperatorTypeOK
  <2>2. s \in Nat
    BY <1>0, <2>0, Script
  <2>3. cursor \in Nat /\ Slot \in Nat /\ s < Slot
    BY <1>0, <1>1, <2>1, <2>2, Script
  <2> QED BY <1>3, <1>5, <2>1, <2>3
<1>9. Kind(Scheduled) \in Beats /\ ~Deferred => Owes = {}
  <2> SUFFICES ASSUME Kind(Scheduled) \in Beats, ~Deferred PROVE Owes = {}
    OBVIOUS
  <2>1. turns = 0 => Debt = {}
    BY <1>0, <1>3 DEF DebtInv
  <2>2. Owes = Debt /\ (turns > 0 => Debt = {})
    BY DEF Deferred, Owes
  <2>3. turns = 0 \/ turns > 0
    BY <1>0, Script
  <2> QED BY <2>1, <2>2, <2>3
<1>10. Owes # {} => Min(Owes) \in Owes /\ \A b \in Owes : Min(Owes) <= b
  <2>1. Owes \in SUBSET Nat
    BY <1>0, <1>1, <1>6, Script
  <2> QED BY <2>1, MinOfSlots
<1>11. Scheduled \in {0, Slot}
  BY DEF Scheduled
<1> QED BY <1>1, <1>2, <1>3, <1>5, <1>6, <1>7, <1>8, <1>9, <1>10, <1>11

(* Which slot a message carries, by where it comes from.                   *)
LEMMA LineCases ==
    ASSUME OperatorIInv, HasSlot, NEW queue, queue = Owes, NEW line, line = Line(queue)
    PROVE  \/ line = 0
           \/ line = Slot /\ ~Deferred /\ ~Pops(queue) /\ line = Scheduled
           \/ Pops(queue) /\ line = Min(queue) /\ ~Pulls(queue)
           \/ /\ Pulls(queue) /\ line \in Rest(queue) /\ Kind(line) = "approval"
              /\ ClarifiedAsk /\ ~Decided(Live)
           \/ /\ line \in InitialApprovals /\ Kind(line) = "approval" /\ approved = 0
              /\ ~Pulls(queue) /\ ClarifiedAsk /\ line \in Slot + 1 .. Horizon
<1>0. OperatorTypeOK
  BY DEF OperatorIInv
<1>1. Rest(queue) \subseteq queue /\ queue \subseteq 1 .. Slot /\ Slot \in Nat
  BY <1>0, QueueFacts, Script DEF Rest
<1>2. CASE Pulls(queue)
  <2>4. Rest(queue) \subseteq Nat
    <3>1. 1 .. Slot \subseteq Nat
      BY <1>1
    <3> QED BY <1>1, <3>1
  <2>5. OwedApprovals(queue) # {}
    BY <1>2 DEF Pulls
  <2>1. OwedApprovals(queue) # {} /\ OwedApprovals(queue) \in SUBSET Nat
    BY <2>4, <2>5 DEF OwedApprovals
  <2>2. line = Min(OwedApprovals(queue))
    <3>1. ~Moves(queue)
      BY <1>2 DEF Moves
    <3> QED BY <1>2, <3>1 DEF Line
  <2>3. line \in Rest(queue) /\ Kind(line) = "approval"
    BY <2>1, <2>2, MinOfSlots DEF OwedApprovals
  <2> QED BY <1>2, <2>3 DEF Pulls, ApprovalDue, ClarifiedAsk, Decided, Genuine
<1>3. CASE ~Pulls(queue) /\ Moves(queue)
  <2>1. InitialApprovals # {} /\ InitialApprovals \subseteq Slot + 1 .. Horizon
        /\ approved = 0 /\ \A s \in InitialApprovals : Kind(s) = "approval"
    BY <1>3 DEF Moves, InitialApprovals
  <2>2. InitialApprovals \in SUBSET Nat
    BY <1>1, <2>1
  <2>3. line = Min(InitialApprovals)
    BY <1>3 DEF Line
  <2> QED BY <1>3, <2>1, <2>2, <2>3, MinOfSlots DEF Moves, ApprovalDue
<1>4. CASE ~Pulls(queue) /\ ~Moves(queue)
  <2>1. line = FirstLine(queue)
    BY <1>4 DEF Line
  <2>2. Scheduled \in {0, Slot}
    BY QueueFacts
  <2> QED BY <1>4, <2>1, <2>2 DEF FirstLine
<1> QED BY <1>2, <1>3, <1>4

(* Where that slot lies: on the side of the prefix that the run is on, and *)
(* for a beat that is no approval after all beats that were said and       *)
(* before all that stay owed.  An approval goes to an approved plan when   *)
(* the agent asks for it.                                                  *)
LEMMA LinePlace ==
    ASSUME OperatorIInv, HasSlot, NEW queue, queue = Owes, NEW line, line = Line(queue)
    PROVE  /\ line \in 0 .. LastSlot /\ Rest(queue) \subseteq Owes
           /\ Moves(queue) => line \in 1 .. LastSlot
           /\ line # 0 /\ prefix > 0 => (line > prefix <=> Switched)
           /\ line # 0 /\ Kind(line) # "approval" =>
                /\ line <= Slot /\ (Kind(line) # "open" => \A b \in Rest(queue) : line < b)
                /\ \A s \in spoken : Kind(s) # "approval" => s < line
           /\ Kind(line) = "approval" /\ approved # 0 /\ ~rebound[workflow] =>
                Genuine(Live) \/ Review(Live)
<1>0. OperatorTypeOK /\ DebtInv
  BY DEF OperatorIInv
<1>1. /\ Slot \in 1 .. LastSlot /\ LastSlot \in Nat /\ prefix \in Nat /\ prefix < LastSlot
      /\ queue \subseteq 1 .. Slot /\ Kind(0) = "open" /\ turns \in Nat
  BY <1>0, QueueFacts, Script
<1>2. Rest(queue) \subseteq queue
  BY DEF Rest
<1>3. CASE line = 0
  <2>1. Moves(queue) => line \in Slot + 1 .. Horizon
    <3>1. Moves(queue) => InitialApprovals # {} /\ InitialApprovals \subseteq Slot + 1 .. Horizon
      BY DEF Moves, InitialApprovals
    <3>2. 1 .. LastSlot \subseteq Nat /\ Slot + 1 .. Horizon \subseteq Nat
      BY <1>1
    <3>3. Moves(queue) => line = Min(InitialApprovals)
      BY DEF Line, Moves
    <3> QED BY <3>1, <3>2, <3>3, MinOfSlots
  <2>2. ~Moves(queue)
    BY <1>1, <1>3, <2>1
  <2> QED BY <1>1, <1>2, <1>3, <2>2
<1>4. CASE line = Slot /\ ~Deferred /\ ~Pops(queue) /\ line = Scheduled
  <2>1. Kind(line) \in Beats => Rest(queue) = {}
    BY <1>2, <1>4, QueueFacts
  <2>2. Kind(line) \in Slots
    BY <1>1, <1>4, <1>0, Script
  <2>3. Kind(line) = "approval" /\ approved # 0 =>
          turns > 0 /\ Kind(Scheduled) \in Beats
    BY <1>0, <1>1, <1>4 DEF DebtInv, Beats, Slots
  <2>4. Kind(line) = "approval" /\ approved # 0 /\ ~rebound[workflow] =>
          Genuine(Live) \/ Review(Live)
    BY <2>3, <1>4 DEF Deferred, Ready, Stale
  <2>5. prefix > 0 => (line > prefix <=> Switched)
    BY <1>4, QueueFacts
  <2>6. \A s \in spoken : Kind(s) # "approval" => s < line
    BY <1>4, QueueFacts
  <2>7. Kind(line) # "open" => \A b \in Rest(queue) : line < b
    BY <2>1, <2>2 DEF Beats
  <2> QED BY <1>1, <1>2, <1>4, <2>4, <2>5, <2>6, <2>7
<1>5. CASE Pops(queue) /\ line = Min(queue) /\ ~Pulls(queue)
  <2>1. line \in queue /\ Rest(queue) = queue \ {line} /\ \A b \in queue : line <= b
    BY <1>5, QueueFacts DEF Pops, Rest
  <2>2. \A b \in Rest(queue) : line < b
    <3> SUFFICES ASSUME NEW b \in Rest(queue) PROVE line < b
      OBVIOUS
    <3>1. b \in queue /\ line <= b /\ b # line
      BY <2>1
    <3>2. b \in Nat /\ line \in Nat
      BY <1>1, <2>1, <3>1
    <3> QED BY <3>1, <3>2
  <2>3. \A s \in spoken : Kind(s) # "approval" => s < line
    BY <2>1, QueueFacts
  <2>4. prefix > 0 => (line > prefix <=> Switched)
    BY <2>1, QueueFacts
  <2>5. Kind(line) = "approval" /\ approved # 0 /\ ~rebound[workflow] =>
          Genuine(Live) \/ Review(Live)
    BY <1>5 DEF Pops, Ready, Stale
  <2> QED BY <1>1, <1>2, <2>1, <2>2, <2>3, <2>4, <2>5
<1>6. CASE /\ Pulls(queue) /\ line \in Rest(queue) /\ Kind(line) = "approval"
           /\ ClarifiedAsk /\ ~Decided(Live)
  <2>1. prefix > 0 => (line > prefix <=> Switched)
    BY <1>2, <1>6, QueueFacts
  <2>2. Genuine(Live) /\ ~Moves(queue)
    BY <1>6 DEF ClarifiedAsk, Moves
  <2>3. line \in 1 .. LastSlot
    <3>1. line \in queue
      BY <1>2, <1>6
    <3>2. line \in 1 .. Slot
      BY <1>1, <3>1
    <3>3. Slot \in Nat /\ Slot <= LastSlot
      BY <1>1
    <3> QED BY <1>1, <3>2, <3>3
  <2> QED BY <1>1, <1>2, <1>6, <2>1, <2>2, <2>3
<1>7. CASE /\ line \in InitialApprovals /\ Kind(line) = "approval" /\ approved = 0
           /\ ~Pulls(queue) /\ ClarifiedAsk /\ line \in Slot + 1 .. Horizon
  <2>1. line \in Nat /\ line > Slot /\ line <= Horizon
    BY <1>1, <1>7 DEF Horizon
  <2>2. prefix > 0 => (Slot > prefix <=> Switched)
    BY QueueFacts
  <2>3. Horizon \in Nat /\ Horizon <= LastSlot /\ (prefix > 0 /\ ~Switched => Horizon = prefix)
    BY <1>1 DEF Horizon
  <2>4. prefix > 0 => (line > prefix <=> Switched)
    BY <1>1, <2>1, <2>2, <2>3
  <2>5. line \in 1 .. LastSlot
    BY <1>1, <2>1, <2>3
  <2> QED BY <1>1, <1>2, <1>7, <2>4, <2>5
<1> QED BY <1>3, <1>4, <1>5, <1>6, <1>7, LineCases
-----------------------------------------------------------------------------
(* What a message says *)

(* A message that carries a text of the script carries the approval it     *)
(* pays, renews or repeats, or the line itself.                            *)
LEMMA MessageSlot ==
    ASSUME OperatorTypeOK, NEW line, NEW m, m = Message(line)
    PROVE  /\ \/ m.slot = 0
              \/ m.slot = owed /\ PaysOwed(line)
              \/ m.slot = approved /\ Renews(line)
              \/ m.slot = early /\ Repeats(line) /\ early # 0
              \/ m.slot = line /\ (Swallowed(line) => ~HasReply(Live))
           /\ Scripted(line) /\ ~PaysOwed(line) => m.slot = line
           /\ PaysOwed(line) => m.slot = owed /\ owed # 0
           /\ Repeats(line) => m.slot = early /\ early # 0
           /\ m.text \in {"reply", "reapproval", "line"}
<1>1. m.slot = Content(line)[2] /\ m.text = Content(line)[1]
  BY DEF Message
<1>2. Decided(Live) => Solicits(Live) /\ ~Genuine(Live)
  BY DEF Decided, Solicits, Genuine
<1>3. Reapproves(line) => Genuine(Live) /\ Kind(line) # "approval"
  BY DEF Reapproves, Reapprovable, Genuine
<1>4. CASE Reapproves(line)
  <2>1. ~PaysOwed(line) /\ ~Renews(line) /\ ~Repeats(line) /\ ~Scripted(line)
    BY <1>3, <1>4 DEF PaysOwed, Renews, Eligible, Repeats, Reconfirms, Scripted
  <2>2. ~(Decided(Live) \/ (Swallowed(line) /\ HasReply(Live)))
    BY <1>2, <1>3, <1>4 DEF Swallowed
  <2>3. Content(line) = <<"reapproval", 0>>
    BY <1>4, <2>1, <2>2 DEF Content
  <2> QED BY <1>1, <2>1, <2>3
<1>5. CASE PaysOwed(line)
  <2>1. ~Reapproves(line) /\ ~Renews(line) /\ ~Repeats(line) /\ owed # 0
    BY <1>5 DEF PaysOwed, Renews, Eligible, Repeats, Reconfirms
  <2>2. Content(line) = <<"line", owed>>
    BY <1>5, <2>1 DEF Content
  <2> QED BY <1>1, <1>5, <2>1, <2>2
<1>6. CASE ~Reapproves(line) /\ ~PaysOwed(line) /\ Renews(line)
  <2>1. Genuine(Live) /\ Kind(line) = "open" /\ ~Repeats(line)
    BY <1>6 DEF Renews, Eligible, Repeats
  <2>2. ~(Decided(Live) \/ (Swallowed(line) /\ HasReply(Live))) /\ ~Scripted(line)
    BY <1>2, <2>1 DEF Swallowed, Scripted
  <2>3. Content(line) = <<"line", approved>>
    BY <1>6, <2>1, <2>2 DEF Content
  <2> QED BY <1>1, <1>6, <2>1, <2>2, <2>3
<1>7. CASE ~Reapproves(line) /\ ~PaysOwed(line) /\ ~Renews(line) /\ Repeats(line)
  <2>1. Genuine(Live) /\ ~SaysLine(line) /\ early # 0
    BY <1>7 DEF Repeats, Reconfirms
  <2>2. ~(Decided(Live) \/ (Swallowed(line) /\ HasReply(Live))) /\ ~Scripted(line)
    BY <1>2, <2>1 DEF Swallowed, SaysLine, Approves
  <2>3. Content(line) = <<"line", early>>
    BY <1>7, <2>2 DEF Content
  <2> QED BY <1>1, <1>7, <2>1, <2>2, <2>3
<1>8. CASE /\ ~Reapproves(line) /\ ~PaysOwed(line) /\ ~Renews(line) /\ ~Repeats(line)
           /\ Decided(Live) \/ (Swallowed(line) /\ HasReply(Live))
  <2>1. ~Scripted(line)
    BY <1>2, <1>8 DEF Scripted, Swallowed
  <2>2. Content(line) = <<"reply", 0>>
    BY <1>8 DEF Content
  <2> QED BY <1>1, <1>8, <2>1, <2>2
<1>9. CASE /\ ~Reapproves(line) /\ ~PaysOwed(line) /\ ~Renews(line) /\ ~Repeats(line)
           /\ ~(Decided(Live) \/ (Swallowed(line) /\ HasReply(Live)))
  <2>1. Content(line) = IF SaysLine(line) \/ ~HasReply(Live) THEN <<"line", line>>
                        ELSE <<"reply", 0>>
    BY <1>9 DEF Content
  <2>2. Scripted(line) => SaysLine(line)
    BY DEF SaysLine, Approves
  <2> QED BY <1>1, <1>9, <2>1, <2>2
<1> QED BY <1>4, <1>5, <1>6, <1>7, <1>8, <1>9

(* A beat taken from the queue is said, unless it is an approval.          *)
LEMMA HeadIsSaid ==
    ASSUME OperatorIInv, HasSlot, NEW queue, queue = Owes, NEW line, line = Line(queue),
           Pops(queue), Kind(Min(queue)) # "approval"
    PROVE  line = Min(queue) /\ Message(line).slot = line
<1>1. ~ClarifiedAsk /\ ~Reapprovable /\ ~OwedDue /\ ~Decided(Live)
  BY DEF Pops
<1>2. ~Pulls(queue) /\ ~Moves(queue)
  BY <1>1 DEF Pulls, Moves, ApprovalDue
<1>3. line = Min(queue)
  BY <1>2 DEF Line, FirstLine
<1>4. Kind(line) \in Beats
  BY <1>3, QueueFacts DEF Pops
<1>5. ~Reapproves(line) /\ ~PaysOwed(line)
  BY <1>1 DEF Reapproves, PaysOwed, OwedDue
<1>6. ~Renews(line) /\ SaysLine(line) /\ ~Repeats(line) /\ ~Swallowed(line)
  BY <1>3, <1>4 DEF Renews, Eligible, SaysLine, Repeats, Swallowed, Beats
<1>7. Content(line) = <<"line", line>>
  BY <1>1, <1>5, <1>6 DEF Content
<1> QED BY <1>3, <1>7 DEF Message

Messages ==
    [text : {"none", "reply", "reapproval", "line"}, slot : 0 .. LastSlot,
     approves : BOOLEAN, again : BOOLEAN, renews : BOOLEAN,
     asked : BOOLEAN, stale : BOOLEAN, withheld : BOOLEAN]

LEMMA MessageIsTyped ==
    ASSUME OperatorTypeOK, NEW line \in 0 .. LastSlot
    PROVE  Message(line) \in Messages
<1>1. {owed, early, approved} \subseteq 0 .. LastSlot /\ 0 \in 0 .. LastSlot
  <2>1. {owed, early, approved} \subseteq 0 .. LastSlot
    BY DEF OperatorTypeOK
  <2>2. 0 \in 0 .. LastSlot
    BY Script
  <2> QED BY <2>1, <2>2
<1>2. Message(line).slot \in 0 .. LastSlot
      /\ Message(line).text \in {"none", "reply", "reapproval", "line"}
  BY <1>1, MessageSlot
<1>3. /\ Approves(line) \in BOOLEAN /\ Repeats(line) \in BOOLEAN /\ Renews(line) \in BOOLEAN
      /\ (Genuine(Live) \/ Review(Live) \/ PaysOwed(line)) \in BOOLEAN
      /\ (approved # 0 /\ ~rebound[workflow]) \in BOOLEAN /\ (~HasReply(Live)) \in BOOLEAN
  BY DEF Approves, Repeats, Renews
<1> QED BY <1>2, <1>3 DEF Message, Messages

(* The script moves on by a slot, and of what was owed and deferred stays  *)
(* all that is neither said nor excused.                                   *)
LEMMA LineTaken ==
    ASSUME OperatorIInv, HasSlot, NEW queue, queue = Owes, NEW line, line = Line(queue),
           TakesLine(queue, line)
    PROVE  /\ cursor' = Slot /\ cursor' \in 0 .. LastSlot /\ turns' \in 0 .. cursor'
           /\ turns' # 0 /\ beats' \subseteq 1 .. cursor' /\ beats' \subseteq Rest(queue)
           /\ beats' \subseteq Owes /\ consumed' \subseteq 1 .. LastSlot
           /\ queued' \subseteq 1 .. LastSlot /\ excused' \subseteq 0 .. LastSlot
           /\ \A s \in queued' : Kind(s) # "approval" =>
                \/ s \in beats' \cup spoken \cup excused'
                \/ Pops(queue) /\ s = Min(queue)
<1>0. OperatorTypeOK /\ QueueInv
  BY DEF OperatorIInv
<1>1. /\ Slot \in 1 .. LastSlot /\ LastSlot \in Nat /\ cursor \in Nat
      /\ turns \in Nat /\ Slot = cursor + 1 /\ turns <= cursor
      /\ queue \subseteq 1 .. Slot
  <2>1. turns \in 0 .. cursor
    BY <1>0 DEF OperatorTypeOK
  <2> QED BY <1>0, <2>1, QueueFacts, Script DEF Slot
<1>2. Rest(queue) \subseteq queue /\ beats' \subseteq Rest(queue)
  BY DEF TakesLine, Rest
<1>3. queue # {} => Min(queue) \in queue
  BY QueueFacts
<1>4. beats' \subseteq 1 .. cursor' /\ cursor' = Slot
  BY <1>2, <1>1 DEF TakesLine
<1>5. turns' \in 0 .. cursor' /\ turns' # 0
  BY <1>1 DEF TakesLine
<1>6. consumed' \subseteq 1 .. LastSlot
  <2>1. Moves(queue) => line \in 1 .. LastSlot
    BY LinePlace
  <2> QED BY <1>0, <2>1 DEF TakesLine, OperatorTypeOK
<1>7. queued' \subseteq 1 .. LastSlot
  BY <1>0, <1>1 DEF TakesLine, OperatorTypeOK
<1>8. excused' \subseteq 0 .. LastSlot
  <2>1. excused \subseteq 0 .. LastSlot /\ owed \in 0 .. LastSlot /\ beats \subseteq 1 .. cursor
    BY <1>0 DEF OperatorTypeOK
  <2>2. beats \subseteq 0 .. LastSlot /\ Slot \in 0 .. LastSlot /\ queue \subseteq 0 .. LastSlot
    BY <1>1, <2>1
  <2>3. AnswersFirst(queue) => Min(queue) \in 0 .. LastSlot
    BY <1>3, <2>2 DEF AnswersFirst
  <2>4. excused' = excused
        \cup (beats \ Debt)
        \cup {s \in {Slot} : Obsolete(s, ask)}
        \cup (IF AnswersFirst(queue) THEN {Min(queue)} ELSE {})
        \cup (IF Reapproves(line) THEN {owed} ELSE {})
    BY DEF TakesLine
  <2> QED BY <2>1, <2>2, <2>3, <2>4
<1>9. ASSUME NEW s \in queued', Kind(s) # "approval"
      PROVE  \/ s \in beats' \cup spoken \cup excused'
             \/ Pops(queue) /\ s = Min(queue)
  <2>1. s \in queue \/ s \in spoken \cup excused \cup (beats \ Debt)
    <3>1. CASE s \in queued
      <4>1. s \in beats \cup spoken \cup excused
        BY <1>0, <1>9, <3>1 DEF QueueInv, Running, HasSlot
      <4> QED BY <4>1 DEF Owes
    <3>2. CASE s \notin queued
      <4>1. Deferred /\ s = Slot
        BY <3>2 DEF TakesLine
      <4> QED BY <4>1 DEF Owes
    <3> QED BY <3>1, <3>2
  <2>2. excused \cup (beats \ Debt) \subseteq excused'
    BY DEF TakesLine
  <2>3. CASE s \in Rest(queue)
    <3>1. Pulls(queue) => s # Min(OwedApprovals(queue))
      <4>1. Pulls(queue) => OwedApprovals(queue) # {}
        BY DEF Pulls
      <4>4. OwedApprovals(queue) \subseteq queue
        BY <1>2 DEF OwedApprovals
      <4>5. 1 .. Slot \subseteq Nat
        BY <1>1
      <4>2. OwedApprovals(queue) \in SUBSET Nat
        BY <1>1, <4>4, <4>5
      <4>3. OwedApprovals(queue) # {} => Min(OwedApprovals(queue)) \in OwedApprovals(queue)
        BY <4>2, MinOfSlots
      <4> QED BY <4>1, <4>3, <1>9 DEF OwedApprovals
    <3>2. s \in beats'
      BY <2>3, <3>1 DEF TakesLine
    <3> QED BY <3>2
  <2>4. CASE s \in queue \ Rest(queue)
    <3>1. s = Min(queue) /\ (Pops(queue) \/ AnswersFirst(queue))
      BY <2>4 DEF Rest
    <3>2. AnswersFirst(queue) => s \in excused'
      BY <3>1 DEF TakesLine
    <3> QED BY <3>1, <3>2
  <2> QED BY <2>1, <2>2, <2>3, <2>4
<1> QED BY <1>1, <1>2, <1>4, <1>5, <1>6, <1>7, <1>8, <1>9
-----------------------------------------------------------------------------
(* The steps preserve the invariant *)

LEMMA StartInvariant == OperatorInit => OperatorIInv
<1> SUFFICES ASSUME OperatorInit PROVE OperatorIInv
  OBVIOUS
<1>1. PICK s \in Scenarios : script = s[1] /\ prefix = s[2]
  BY DEF OperatorInit
<1>2. LastSlot \in Nat /\ prefix \in 0 .. LastSlot - 1
  <2>1. s[1] \in Seq(Slots) /\ s[2] \in 0 .. Len(s[1]) - 1
    BY ScenarioAssumption
  <2> QED BY <1>1, <2>1 DEF LastSlot
<1>3. OperatorTypeOK
  <2>1. /\ {owed, early, approved} \subseteq 0 .. LastSlot
        /\ \A x \in {owed, early, approved} \ {0} : Kind(x) = "approval"
        /\ cursor \in 0 .. LastSlot /\ turns \in 0 .. cursor /\ wait \in 0 .. 3
    BY <1>2 DEF OperatorInit
  <2>2. said \in Messages
    BY <1>2 DEF OperatorInit, Nothing, Messages
  <2>3. /\ uses \in [Workflow -> 0 .. RevisionLimit] /\ reuses \in 0 .. MaxReapprovals
        /\ rebound \in [Workflow -> BOOLEAN] /\ workflow \in Workflow
    BY BoundAssumption DEF OperatorInit
  <2>4. /\ {disposition, published, authorized, factOwed, factServed} \subseteq BOOLEAN
        /\ ask \in Asks \cup {"start", "repair again", "fact again"}
        /\ finding \in {"none", "open", "answered"} /\ clarified \subseteq Workflow
        /\ chain \in {"none", "waiting", "switched", "ungraded", "failed"}
        /\ status \in {"speak", "listen"} \cup Endings
    BY DEF OperatorInit
  <2>5. /\ beats \subseteq 1 .. cursor /\ consumed \subseteq 1 .. LastSlot
        /\ spoken \cup queued \subseteq 1 .. LastSlot /\ excused \subseteq 0 .. LastSlot
    BY DEF OperatorInit
  <2> QED BY <1>1, <2>1, <2>2, <2>3, <2>4, <2>5 DEF OperatorTypeOK, Messages
<1>4. DebtInv /\ ChainInv /\ QueueInv
  BY <1>2 DEF OperatorInit, DebtInv, ChainInv, QueueInv, Running, Switched
<1>5. QueuedBeatsAreSaid /\ ApprovalsAreSound
  BY DEF OperatorInit, QueuedBeatsAreSaid, ApprovalsAreSound, Sent
<1> QED BY <1>3, <1>4, <1>5 DEF OperatorIInv

(* What a spoken message changes in the operator's consent.                *)
LEMMA SpokenConsent ==
    ASSUME OperatorIInv, HasSlot, NEW queue, queue = Owes, NEW line, line = Line(queue),
           NEW m, m = Message(line), Settles(line, m)
    PROVE  /\ owed' \in {0, owed, line} /\ early' \in {0, early, line, owed}
           /\ approved' \in {approved, line, owed, early}
           /\ \A s \in {owed', early', approved'} \ {0} :
                s \in 1 .. LastSlot /\ Kind(s) = "approval"
           /\ wait' \in 0 .. 3
<1>0. OperatorTypeOK
  BY DEF OperatorIInv
<1>1. Swallowed(line) \/ Scripted(line) => line # 0 /\ Kind(line) = "approval"
  BY <1>0, Script DEF Swallowed, Scripted
<1>2. /\ PaysOwed(line) => m.slot = owed /\ owed # 0
      /\ Scripted(line) /\ ~PaysOwed(line) => m.slot = line /\ line # 0
  BY <1>0, <1>1, MessageSlot
<1>3. m.again => m.slot = early /\ early # 0
  <2>1. m.again <=> Repeats(line)
    BY DEF Message
  <2> QED BY <1>0, <2>1, MessageSlot
<1>4. /\ \A s \in {owed, early, approved} \ {0} : Kind(s) = "approval"
      /\ {owed, early, approved} \subseteq 0 .. LastSlot /\ wait \in 0 .. 3
  BY <1>0 DEF OperatorTypeOK
<1>5. line \in 0 .. LastSlot /\ LastSlot \in Nat
  BY <1>0, LinePlace, Script
<1>6. owed' \in {0, owed, line} /\ (owed' = line => Swallowed(line) \/ line \in {0, owed})
  BY DEF Settles
<1>7. early' \in {0, early, m.slot}
      /\ (early' \notin {0, early} => Scripted(line) \/ PaysOwed(line))
  BY DEF Settles
<1>8. approved' \in {approved, m.slot}
      /\ (approved' # approved => Scripted(line) \/ PaysOwed(line) \/ m.again)
  BY DEF Settles
<1>9. early' \in {0, early, line, owed} /\ (early' = line => Scripted(line) \/ line \in {0, early, owed})
  BY <1>2, <1>7
<1>10. approved' \in {approved, line, owed, early}
       /\ (approved' = line => Scripted(line) \/ line \in {approved, owed, early})
  BY <1>2, <1>3, <1>8
<1>11. wait' \in 0 .. 3
  BY <1>4 DEF Settles
<1>12. \A s \in {owed', early', approved'} \ {0} : Kind(s) = "approval"
  BY <1>1, <1>4, <1>6, <1>9, <1>10
<1>13. \A s \in {owed', early', approved'} \ {0} : s \in 1 .. LastSlot
  BY <1>4, <1>5, <1>6, <1>9, <1>10
<1> QED BY <1>6, <1>9, <1>10, <1>11, <1>12, <1>13

LEMMA SpeakPreserves == OperatorIInv /\ Speak => OperatorIInv'
<1> SUFFICES ASSUME OperatorIInv, Speak PROVE OperatorIInv'
  OBVIOUS
<1>0. OperatorTypeOK /\ DebtInv /\ ChainInv /\ HasSlot /\ UNCHANGED scenario
  BY DEF OperatorIInv, Speak
<1> DEFINE queue == Owes
           line == Line(queue)
           m == Message(line)
<1>3. /\ Eligible(line) => Renews(line)
      /\ TakesLine(queue, line)
      /\ said' = m
      /\ Settles(line, m) /\ Consents(m)
      /\ factServed' = (factServed \/ FactSaid(m))
      /\ factOwed' = (factOwed /\ ~FactSaid(m))
      /\ finding' = IF Live = "repair" /\ Answered(m) THEN "answered" ELSE finding
      /\ reuses' = IF Reapproves(line) THEN reuses + 1 ELSE reuses
      /\ spoken' = spoken \cup {s \in {m.slot} : Kind(s) \in Beats}
  BY DEF Speak
<1>4. queue = Owes /\ line = Line(queue) /\ m = Message(line)
  OBVIOUS
<1> HIDE DEF queue, line, m
<1>5. LastSlot' = LastSlot /\ prefix' = prefix /\ script' = script
      /\ \A s : Kind(s)' = Kind(s)
  BY <1>0, KindIsFixed DEF scenario
<1>6. m \in Messages /\ m.slot \in 0 .. LastSlot /\ LastSlot \in Nat /\ Kind(0) = "open"
  BY <1>0, <1>4, LinePlace, MessageIsTyped, Script DEF Messages
<1>7. status' = "listen" /\ UNCHANGED <<ask, disposition, authorized, chain, workflow>>
  BY <1>3 DEF Speak, Consents
<1>8. /\ cursor' = Slot /\ cursor' \in 0 .. LastSlot /\ turns' \in 0 .. cursor' /\ turns' # 0
      /\ beats' \subseteq 1 .. cursor' /\ beats' \subseteq Rest(queue) /\ beats' \subseteq Owes
      /\ consumed' \subseteq 1 .. LastSlot /\ queued' \subseteq 1 .. LastSlot
      /\ excused' \subseteq 0 .. LastSlot
      /\ \A s \in queued' : Kind(s) # "approval" =>
           \/ s \in beats' \cup spoken \cup excused'
           \/ Pops(queue) /\ s = Min(queue)
  BY <1>0, <1>3, <1>4, LineTaken
<1>9. /\ owed' \in {0, owed, line} /\ early' \in {0, early, line, owed}
      /\ approved' \in {approved, line, owed, early}
      /\ \A s \in {owed', early', approved'} \ {0} :
           s \in 1 .. LastSlot /\ Kind(s) = "approval"
      /\ wait' \in 0 .. 3
  BY <1>0, <1>3, <1>4, SpokenConsent
<1>10. OperatorTypeOK'
  <2>1. {owed', early', approved'} \subseteq 0 .. LastSlot
    <3>1. \A s \in {owed', early', approved'} : s = 0 \/ s \in 1 .. LastSlot
      BY <1>9
    <3>2. \A s : s = 0 \/ s \in 1 .. LastSlot => s \in 0 .. LastSlot
      BY <1>6
    <3> QED BY <3>1, <3>2
  <2>2. spoken' \cup queued' \subseteq 1 .. LastSlot
    <3>1. Kind(m.slot) \in Beats => m.slot \in 1 .. LastSlot
      BY <1>6 DEF Beats
    <3>2. spoken \subseteq 1 .. LastSlot
      BY <1>0 DEF OperatorTypeOK
    <3> QED BY <1>3, <1>8, <3>1, <3>2
  <2>3. /\ uses' \in [Workflow -> 0 .. RevisionLimit]
        /\ rebound' \in [Workflow -> BOOLEAN] /\ clarified' \subseteq Workflow
        /\ workflow' \in Workflow /\ published' \in BOOLEAN
    <3>1. /\ uses \in [Workflow -> 0 .. RevisionLimit] /\ workflow \in Workflow
          /\ rebound \in [Workflow -> BOOLEAN] /\ clarified \subseteq Workflow
          /\ published \in BOOLEAN
      BY <1>0 DEF OperatorTypeOK
    <3>2. m.renews => uses[workflow] < RevisionLimit
      BY <1>4 DEF Message, Renews
    <3>3. m.renews => uses[workflow] + 1 \in 0 .. RevisionLimit
      BY <3>1, <3>2, BoundAssumption
    <3>4. uses' \in [Workflow -> 0 .. RevisionLimit]
      BY <1>3, <3>1, <3>3 DEF Consents
    <3> QED BY <1>3, <3>1, <3>4 DEF Consents
  <2>4. reuses' \in 0 .. MaxReapprovals
    <3>1. reuses \in 0 .. MaxReapprovals
      BY <1>0 DEF OperatorTypeOK
    <3>2. Reapproves(line) => reuses < MaxReapprovals
      BY DEF Reapproves, Reapprovable
    <3> QED BY <1>3, <3>1, <3>2, BoundAssumption
  <2>5. /\ factServed' \in BOOLEAN /\ factOwed' \in BOOLEAN
        /\ finding' \in {"none", "open", "answered"}
    BY <1>0, <1>3 DEF OperatorTypeOK, FactSaid
  <2>6. said' \in Messages'
    BY <1>3, <1>5, <1>6 DEF Messages
  <2>7. {disposition', published', authorized', factOwed', factServed'} \subseteq BOOLEAN
    BY <1>0, <1>7, <2>3, <2>5 DEF OperatorTypeOK
  <2>8. /\ ask' \in Asks \cup {"start", "repair again", "fact again"}
        /\ chain' \in {"none", "waiting", "switched", "ungraded", "failed"}
        /\ \E s \in Scenarios : script' = s[1] /\ prefix' = s[2]
    BY <1>0, <1>5, <1>7 DEF OperatorTypeOK
  <2>9. /\ \A s \in {owed', early', approved'} \ {0} : Kind(s)' = "approval"
        /\ wait' \in 0 .. 3
    BY <1>5, <1>9
  <2> QED BY <1>5, <1>7, <1>8, <2>1, <2>2, <2>3, <2>4, <2>5, <2>6, <2>7, <2>8, <2>9
          DEF OperatorTypeOK, Messages
<1>11. DebtInv'
  <2>1. ASSUME NEW s \in spoken', Kind(s) # "approval"
        PROVE  s <= cursor' /\ \A b \in beats' : s < b
    <3>1. CASE s \in spoken
      <4>1. s < Slot /\ \A b \in Owes : s < b
        BY <1>0, <2>1, <3>1, QueueFacts
      <4>3. spoken \subseteq 1 .. LastSlot
        BY <1>0 DEF OperatorTypeOK
      <4>2. s \in Nat /\ Slot \in Nat
        BY <1>6, <1>8, <3>1, <4>3
      <4> QED BY <1>8, <4>1, <4>2
    <3>2. CASE s = m.slot /\ Kind(s) \in Beats
      <4>1. s = line /\ line # 0 /\ Kind(line) # "open"
        <5>1. Kind(s) # "open" /\ s # 0
          BY <1>6, <3>2 DEF Beats
        <5>2. s \notin {owed, early, approved}
          BY <1>0, <2>1, <5>1 DEF OperatorTypeOK
        <5> QED BY <1>0, <1>4, <3>2, <5>1, <5>2, MessageSlot
      <4>2. line <= Slot /\ \A b \in Rest(queue) : line < b
        BY <1>0, <1>4, <2>1, <4>1, LinePlace
      <4> QED BY <1>8, <4>1, <4>2
    <3> QED BY <1>3, <3>1, <3>2
  <2>2. \A b \in beats' : Kind(b) \in Beats
    BY <1>0, <1>8, QueueFacts
  <2> QED BY <1>5, <1>8, <2>1, <2>2 DEF DebtInv
<1>12. ChainInv'
  <2>1. Slot = cursor + 1 /\ cursor \in Nat /\ prefix \in Nat /\ cursor' = cursor + 1
    BY <1>0, <1>8, Script DEF Slot
  <2>2. chain = "waiting" => cursor < prefix
    BY <1>0, <2>1 DEF ChainInv, HasSlot, Switched
  <2>3. /\ Switched' => cursor' >= prefix
        /\ chain' = "waiting" => prefix > 0 /\ cursor' <= prefix
    BY <1>0, <1>7, <2>1, <2>2 DEF ChainInv, Switched
  <2>4. ASSUME prefix > 0, NEW s \in beats' \cup ({owed', early'} \ {0})
        PROVE  s > prefix <=> Switched
    <3>1. CASE s \in beats'
      BY <1>0, <1>8, <2>4, <3>1, QueueFacts
    <3>2. CASE s = line /\ line # 0
      BY <1>0, <1>4, <2>4, <3>2, LinePlace
    <3>3. CASE s \in {owed, early} \ {0}
      BY <1>0, <2>4, <3>3 DEF ChainInv
    <3> QED BY <1>9, <2>4, <3>1, <3>2, <3>3
  <2> QED BY <1>5, <1>7, <2>3, <2>4 DEF ChainInv, Switched
<1>13. QueueInv'
  <2>1. ASSUME NEW s \in queued', Kind(s) # "approval"
        PROVE  s \in beats' \cup spoken' \cup excused'
    <3>1. CASE Pops(queue) /\ s = Min(queue)
      <4>1. s = m.slot
        BY <1>0, <1>4, <2>1, <3>1, HeadIsSaid
      <4>2. Kind(s) \in Beats
        BY <1>0, <1>4, <3>1, QueueFacts DEF Pops
      <4> QED BY <1>3, <4>1, <4>2
    <3> QED BY <1>3, <1>8, <2>1, <3>1
  <2> QED BY <1>5, <2>1 DEF QueueInv
<1>14. ApprovalsAreSound'
  <2> SUFFICES ASSUME Kind(m.slot) = "approval"
               PROVE  /\ m.approves \/ m.again \/ m.withheld
                      /\ m.stale => m.asked
    BY <1>3, <1>5 DEF ApprovalsAreSound, Consent
  <2>0. m.slot # 0
    BY <1>6
  <2>1. /\ (m.approves <=> Approves(line)) /\ (m.again <=> Repeats(line))
        /\ (m.asked <=> (Genuine(Live) \/ Review(Live) \/ PaysOwed(line)))
        /\ (m.stale <=> (approved # 0 /\ ~rebound[workflow]))
        /\ (m.withheld <=> ~HasReply(Live))
    BY <1>4 DEF Message
  <2>2. CASE m.slot = owed /\ PaysOwed(line)
    BY <2>1, <2>2 DEF Approves
  <2>3. CASE m.slot = approved /\ Renews(line)
    BY <2>1, <2>3 DEF Approves, Renews, Eligible
  <2>4. CASE m.slot = early /\ Repeats(line) /\ early # 0
    BY <2>1, <2>4 DEF Repeats, Reconfirms
  <2>5. CASE m.slot = line /\ (Swallowed(line) => ~HasReply(Live))
    <3>1. Scripted(line) \/ Swallowed(line)
      BY <2>5 DEF Scripted
    <3>2. approved # 0 /\ ~rebound[workflow] => Genuine(Live) \/ Review(Live)
      BY <1>0, <1>4, <2>5, LinePlace
    <3> QED BY <2>1, <2>5, <3>1, <3>2 DEF Approves
  <2> QED BY <1>0, <1>4, <2>0, <2>2, <2>3, <2>4, <2>5, MessageSlot
<1>15. QueuedBeatsAreSaid'
  BY <1>7 DEF QueuedBeatsAreSaid
<1> QED BY <1>10, <1>11, <1>12, <1>13, <1>14, <1>15 DEF OperatorIInv

LEMMA GivesUpPreserves == OperatorIInv /\ GivesUp => OperatorIInv'
<1> SUFFICES ASSUME OperatorIInv, GivesUp PROVE OperatorIInv'
  OBVIOUS
<1>0. OperatorTypeOK /\ DebtInv /\ ChainInv /\ HasSlot /\ UNCHANGED scenario
  BY DEF OperatorIInv, GivesUp
<1> DEFINE queue == Owes
           line == Line(queue)
<1>1. TakesLine(queue, line) /\ Ends("approval_budget_exhausted")
  BY DEF GivesUp
<1>2. queue = Owes /\ line = Line(queue)
  OBVIOUS
<1> HIDE DEF queue, line
<1>3. UNCHANGED <<scenario, ask, disposition, owed, wait, early, approved,
                  plan, review, facts, said, spoken>>
  BY DEF GivesUp
<1>4. LastSlot' = LastSlot /\ prefix' = prefix /\ script' = script
      /\ \A s : Kind(s)' = Kind(s)
  BY <1>0, KindIsFixed DEF scenario
<1>5. /\ cursor' = Slot /\ cursor' \in 0 .. LastSlot /\ turns' \in 0 .. cursor' /\ turns' # 0
      /\ beats' \subseteq 1 .. cursor' /\ beats' \subseteq Owes
      /\ consumed' \subseteq 1 .. LastSlot /\ queued' \subseteq 1 .. LastSlot
      /\ excused' \subseteq 0 .. LastSlot
  BY <1>0, <1>1, <1>2, LineTaken
<1>6. /\ status' = "approval_budget_exhausted" /\ chain' # "waiting"
      /\ chain' \in {chain, "failed"} /\ (Switched' <=> Switched)
  BY <1>1 DEF Ends, Switched
<1>7. OperatorTypeOK'
  <2>1. /\ {owed', early', approved'} \subseteq 0 .. LastSlot /\ wait' \in 0 .. 3
        /\ \A s \in {owed', early', approved'} \ {0} : Kind(s)' = "approval"
    BY <1>0, <1>3, <1>4 DEF OperatorTypeOK
  <2>2. /\ workflow' \in Workflow /\ rebound' \in [Workflow -> BOOLEAN]
        /\ uses' \in [Workflow -> 0 .. RevisionLimit] /\ clarified' \subseteq Workflow
        /\ {disposition', published', authorized', factOwed', factServed'} \subseteq BOOLEAN
        /\ finding' \in {"none", "open", "answered"} /\ reuses' \in 0 .. MaxReapprovals
        /\ ask' \in Asks \cup {"start", "repair again", "fact again"}
    BY <1>0, <1>3 DEF OperatorTypeOK, plan, review, facts
  <2>3. said' \in Messages'
    BY <1>0, <1>3, <1>4 DEF OperatorTypeOK, Messages
  <2>4. /\ spoken' \cup queued' \subseteq 1 .. LastSlot
        /\ chain' \in {"none", "waiting", "switched", "ungraded", "failed"}
        /\ status' \in {"speak", "listen"} \cup Endings
        /\ \E s \in Scenarios : script' = s[1] /\ prefix' = s[2]
    BY <1>0, <1>3, <1>4, <1>5, <1>6 DEF OperatorTypeOK, Endings
  <2> QED BY <1>4, <1>5, <2>1, <2>2, <2>3, <2>4 DEF OperatorTypeOK, Messages
<1>8. DebtInv'
  <2>1. ASSUME NEW s \in spoken, Kind(s) # "approval"
        PROVE  s <= cursor' /\ \A b \in beats' : s < b
    <3>1. s < Slot /\ \A b \in Owes : s < b
      BY <1>0, <2>1, QueueFacts
    <3>2. spoken \subseteq 1 .. LastSlot /\ LastSlot \in Nat
      BY <1>0, Script DEF OperatorTypeOK
    <3>3. s \in Nat /\ Slot \in Nat
      BY <1>5, <2>1, <3>2
    <3> QED BY <1>5, <3>1, <3>3
  <2>2. \A b \in beats' : Kind(b) \in Beats
    BY <1>0, <1>5, QueueFacts
  <2> QED BY <1>3, <1>4, <1>5, <2>1, <2>2 DEF DebtInv
<1>9. ChainInv'
  <2>1. Slot = cursor + 1 /\ cursor \in Nat /\ prefix \in Nat
    BY <1>0, Script DEF Slot
  <2>2. Switched' => cursor' >= prefix'
    BY <1>0, <1>4, <1>5, <1>6, <2>1 DEF ChainInv
  <2>3. prefix > 0 => \A s \in beats' \cup ({owed, early} \ {0}) : s > prefix <=> Switched
    BY <1>0, <1>5, QueueFacts DEF ChainInv
  <2> QED BY <1>3, <1>4, <1>6, <2>2, <2>3 DEF ChainInv
<1>10. QueueInv' /\ QueuedBeatsAreSaid' /\ ApprovalsAreSound'
  BY <1>6 DEF QueueInv, Running, QueuedBeatsAreSaid, ApprovalsAreSound, Sent
<1> QED BY <1>7, <1>8, <1>9, <1>10 DEF OperatorIInv

LEMMA ReviewIsBoolean == \A m : Review(m) \in BOOLEAN
BY DEF Review

(* What a turn of the agent does, whatever it asks for.                    *)
LEMMA TurnEffects ==
    ASSUME OperatorTypeOK, \E asked \in Asks \cup {"repair again"}, also \in BOOLEAN :
                               Listen(asked, also)
    PROVE  /\ status = "listen" /\ status' \in {"approval_budget_exhausted", "speak"}
           /\ Stays \/ Switches
           /\ ask' \in Asks \cup {"start", "repair again", "fact again"}
           /\ said' = Nothing
           /\ {disposition', published', authorized', factOwed', factServed'} \subseteq BOOLEAN
           /\ finding' \in {"none", "open", "answered"}
           /\ workflow' \in Workflow /\ clarified' \subseteq Workflow
           /\ rebound' \in [Workflow -> BOOLEAN] /\ uses' = uses
           /\ UNCHANGED <<scenario, turns, wait, approved, consumed, reuses,
                          factServed, spoken, queued>>
<1>1. PICK asked \in Asks \cup {"repair again"}, also \in BOOLEAN : Listen(asked, also)
  OBVIOUS
<1> DEFINE m == IF asked = "fact" /\ factServed THEN "fact again" ELSE asked
<1>2. m \in Asks \cup {"repair again", "fact again"}
  OBVIOUS
<1>3. /\ status = "listen" /\ status' \in {"approval_budget_exhausted", "speak"}
      /\ \/ Stays /\ ask' = m
         \/ Switches /\ ask' = "start"
      /\ disposition' = Review(m) /\ said' = Nothing
      /\ finding' = IF m \in {"finding", "choice", "repair"} THEN "open" ELSE finding
      /\ authorized' = (authorized \/ m = "repair")
      /\ factOwed' = (factOwed \/ (also /\ (Decided(m) \/ m = "repair again")
                                        /\ ~factServed))
      /\ UNCHANGED <<scenario, turns, wait, approved, consumed, reuses,
                     factServed, spoken, queued>>
      /\ \E binds, queries \in BOOLEAN, w \in Workflow : Works(binds, w, queries)
  BY <1>1 DEF Listen
<1> HIDE DEF m
<1>4. disposition' \in BOOLEAN /\ authorized' \in BOOLEAN /\ factOwed' \in BOOLEAN
  <2>1. Review(m) \in BOOLEAN
    BY ReviewIsBoolean
  <2>2. disposition' \in BOOLEAN
    BY <1>3, <2>1, Zenon
  <2>3. authorized' \in BOOLEAN /\ factOwed' \in BOOLEAN
    BY <1>3
  <2> QED BY <2>2, <2>3
<1>5. /\ workflow' \in Workflow /\ clarified' \subseteq Workflow /\ published' \in BOOLEAN
      /\ rebound' \in [Workflow -> BOOLEAN] /\ uses' = uses
  <2>1. /\ workflow \in Workflow /\ clarified \subseteq Workflow /\ published \in BOOLEAN
        /\ rebound \in [Workflow -> BOOLEAN]
    BY DEF OperatorTypeOK
  <2>2. PICK binds \in BOOLEAN, queries \in BOOLEAN, w \in Workflow : Works(binds, w, queries)
    BY <1>3
  <2> QED BY <2>1, <2>2 DEF Works
<1>6. factServed' \in BOOLEAN /\ finding' \in {"none", "open", "answered"}
  BY <1>3 DEF OperatorTypeOK
<1>7. ask' \in Asks \cup {"start", "repair again", "fact again"} /\ (Stays \/ Switches)
  BY <1>2, <1>3
<1> QED BY <1>3, <1>4, <1>5, <1>6, <1>7

LEMMA ListenPreserves ==
    OperatorIInv /\ (\E asked \in Asks \cup {"repair again"}, also \in BOOLEAN :
                         Listen(asked, also)) => OperatorIInv'
<1>a. SUFFICES ASSUME OperatorIInv, \E asked \in Asks \cup {"repair again"}, also \in BOOLEAN :
                                        Listen(asked, also)
               PROVE  OperatorIInv'
  OBVIOUS
<1>0. OperatorTypeOK /\ DebtInv /\ ChainInv /\ QueueInv
  BY <1>a DEF OperatorIInv
<1>1. /\ status = "listen" /\ status' \in {"approval_budget_exhausted", "speak"}
      /\ Stays \/ Switches
      /\ ask' \in Asks \cup {"start", "repair again", "fact again"}
      /\ said' = Nothing
      /\ {disposition', published', authorized', factOwed', factServed'} \subseteq BOOLEAN
      /\ finding' \in {"none", "open", "answered"}
      /\ workflow' \in Workflow /\ clarified' \subseteq Workflow
      /\ rebound' \in [Workflow -> BOOLEAN] /\ uses' = uses
      /\ UNCHANGED <<scenario, turns, wait, approved, consumed, reuses,
                     factServed, spoken, queued>>
  BY <1>0, <1>a, TurnEffects
<1>4. LastSlot' = LastSlot /\ prefix' = prefix /\ script' = script
      /\ \A s : Kind(s)' = Kind(s)
  BY <1>1, KindIsFixed DEF scenario
<1>5. /\ LastSlot \in Nat /\ prefix \in Nat /\ cursor \in Nat /\ turns \in Nat
      /\ prefix < LastSlot /\ cursor <= LastSlot /\ turns <= cursor
      /\ beats \subseteq 1 .. cursor
  BY <1>0, Script
<1>6. /\ cursor' \in 0 .. LastSlot /\ cursor' >= cursor /\ beats' \subseteq beats
      /\ owed' \in {0, owed} /\ early' \in {0, early}
      /\ excused' \subseteq 0 .. LastSlot /\ excused \subseteq excused'
      /\ beats \subseteq beats' \cup excused'
      /\ chain' \in {"none", "waiting", "switched", "ungraded", "failed"}
      /\ (Switched' /\ ~Switched => beats' = {} /\ owed' = 0 /\ early' = 0 /\ cursor' >= prefix)
      /\ (Switched => Switched')
      /\ (chain' = "waiting" => chain = "waiting" /\ cursor' = cursor)
  <2>1. CASE Stays
    <3>1. /\ cursor' = cursor /\ beats' = beats /\ owed' = owed /\ early' = early
          /\ excused' = excused /\ chain' \in {chain, "failed", "ungraded"}
          /\ (chain' # chain => chain = "waiting")
      BY <2>1 DEF Stays
    <3>2. excused \subseteq 0 .. LastSlot /\ cursor \in 0 .. LastSlot
          /\ chain \in {"none", "waiting", "switched", "ungraded", "failed"}
      BY <1>0 DEF OperatorTypeOK
    <3>3. cursor' >= cursor
      BY <1>5, <3>1
    <3> QED BY <3>1, <3>2, <3>3 DEF Switched
  <2>2. CASE Switches
    <3>1. cursor <= prefix
      BY <1>0, <2>2 DEF ChainInv, Switches
    <3>2. beats \subseteq 1 .. prefix /\ 1 .. prefix \subseteq 0 .. LastSlot
      <4>1. 1 .. cursor \subseteq 1 .. prefix
        BY <1>5, <3>1
      <4>2. 1 .. prefix \subseteq 0 .. LastSlot
        BY <1>5
      <4> QED BY <1>5, <4>1, <4>2
    <3>3. excused \subseteq 0 .. LastSlot
      BY <1>0 DEF OperatorTypeOK
    <3>4. cursor' \in 0 .. LastSlot /\ cursor' >= cursor /\ cursor' >= prefix
      <4>1. cursor' = IF cursor < prefix THEN prefix ELSE cursor
        BY <2>2 DEF Switches
      <4> QED BY <1>5, <4>1
    <3> QED BY <2>2, <3>2, <3>3, <3>4 DEF Switches, Switched
  <2> QED BY <1>1, <2>1, <2>2
<1>8. OperatorTypeOK'
  <2>1. {owed', early', approved'} \subseteq 0 .. LastSlot
        /\ \A s \in {owed', early', approved'} \ {0} : Kind(s)' = "approval"
    <3>1. /\ {owed, early, approved} \subseteq 0 .. LastSlot
          /\ \A s \in {owed, early, approved} \ {0} : Kind(s) = "approval"
      BY <1>0 DEF OperatorTypeOK
    <3>2. {owed', early', approved'} \subseteq {0, owed, early, approved}
      BY <1>1, <1>6
    <3>3. 0 \in 0 .. LastSlot
      BY <1>5
    <3> QED BY <1>4, <3>1, <3>2, <3>3
  <2>3. said' \in Messages'
    <3>1. Nothing \in Messages
      BY <1>5 DEF Messages, Nothing
    <3> QED BY <1>1, <1>4, <3>1 DEF Messages
  <2>4. turns' \in 0 .. cursor' /\ beats' \subseteq 1 .. cursor'
    <3>1. cursor' \in Nat
      BY <1>5, <1>6
    <3>2. 1 .. cursor \subseteq 1 .. cursor'
      BY <1>5, <1>6, <3>1
    <3>3. turns' = turns /\ turns <= cursor'
      <4>1. cursor' >= cursor /\ turns' = turns
        BY <1>1, <1>6
      <4> QED BY <1>5, <3>1, <4>1
    <3> QED BY <1>5, <1>6, <3>1, <3>2, <3>3
  <2>5. status' \in {"speak", "listen"} \cup Endings
    BY <1>1 DEF Endings
  <2>6. /\ wait' \in 0 .. 3 /\ consumed' \subseteq 1 .. LastSlot
        /\ reuses' \in 0 .. MaxReapprovals /\ uses' \in [Workflow -> 0 .. RevisionLimit]
        /\ spoken' \cup queued' \subseteq 1 .. LastSlot
        /\ \E s \in Scenarios : script' = s[1] /\ prefix' = s[2]
    BY <1>0, <1>1, <1>4 DEF OperatorTypeOK
  <2> QED BY <1>1, <1>4, <1>6, <2>1, <2>3, <2>4, <2>5, <2>6
          DEF OperatorTypeOK, Messages
<1>9. DebtInv'
  <2>1. ASSUME NEW s \in spoken, Kind(s) # "approval"
        PROVE  s <= cursor' /\ \A b \in beats' : s < b
    <3>1. s <= cursor /\ \A b \in beats : s < b
      BY <1>0, <2>1 DEF DebtInv
    <3>2. spoken \subseteq 1 .. LastSlot
      BY <1>0 DEF OperatorTypeOK
    <3>3. s \in Nat
      BY <1>5, <2>1, <3>2
    <3>4. cursor' \in Nat /\ cursor' >= cursor
      BY <1>5, <1>6
    <3>5. s <= cursor'
      BY <1>5, <3>1, <3>3, <3>4
    <3> QED BY <1>6, <3>1, <3>5
  <2> QED BY <1>0, <1>1, <1>4, <1>6, <2>1 DEF DebtInv
<1>10. ChainInv'
  <2>1. Switched' => cursor' >= prefix'
    <3>1. CASE Switched
      <4>1. cursor >= prefix
        BY <1>0, <3>1 DEF ChainInv
      <4>2. cursor' >= cursor /\ cursor' \in Nat
        BY <1>5, <1>6
      <4>3. cursor' >= prefix
        BY <1>5, <4>1, <4>2
      <4> QED BY <1>4, <4>3
    <3> QED BY <1>4, <1>6, <3>1
  <2>2. prefix > 0 => \A s \in beats' \cup ({owed', early'} \ {0}) : s > prefix <=> Switched'
    BY <1>0, <1>6 DEF ChainInv
  <2>3. chain' = "waiting" => prefix > 0 /\ cursor' <= prefix
    BY <1>0, <1>6 DEF ChainInv
  <2> QED BY <1>4, <2>1, <2>2, <2>3 DEF ChainInv
<1>11. QueueInv'
  <2>1. \A s \in queued : Kind(s) # "approval" => s \in beats \cup spoken \cup excused
    BY <1>0, <1>1 DEF QueueInv, Running
  <2> QED BY <1>1, <1>4, <1>6, <2>1 DEF QueueInv
<1>12. QueuedBeatsAreSaid' /\ ApprovalsAreSound'
  BY <1>1 DEF QueuedBeatsAreSaid, ApprovalsAreSound, Sent
<1> QED BY <1>8, <1>9, <1>10, <1>11, <1>12 DEF OperatorIInv

(* The steps that end the run.                                             *)
LEMMA EndsPreserves ==
    OperatorIInv /\ (PrefixFails \/ Interrupted \/ Conclude) => OperatorIInv'
<1> SUFFICES ASSUME OperatorIInv, PrefixFails \/ Interrupted \/ Conclude
             PROVE  OperatorIInv'
  OBVIOUS
<1>0. OperatorTypeOK /\ DebtInv /\ ChainInv /\ QueueInv
  BY DEF OperatorIInv
<1>1. UNCHANGED <<scenario, cursor, turns, ask, disposition, consent, plan, review,
                  facts, said, spoken, queued>>
  BY DEF PrefixFails, Interrupted, Conclude, trace
<1>2. PICK how \in Endings : Ends(how)
  BY DEF PrefixFails, Interrupted, Conclude, Endings
<1>3. /\ status' \in Endings /\ chain' # "waiting" /\ (Switched' <=> Switched)
      /\ chain' \in {chain, "failed", "ungraded"}
  BY <1>2 DEF Ends, Switched
<1>4. LastSlot' = LastSlot /\ prefix' = prefix /\ script' = script
      /\ \A s : Kind(s)' = Kind(s)
  BY <1>1, KindIsFixed DEF scenario
<1>5. /\ beats' \subseteq beats /\ excused \subseteq excused'
      /\ excused' \subseteq excused \cup beats /\ beats \subseteq beats' \cup excused'
  <2>1. CASE Conclude
    BY <2>1 DEF Conclude, Retained
  <2>2. CASE PrefixFails \/ Interrupted
    BY <2>2 DEF PrefixFails, Interrupted, trace
  <2> QED BY <2>1, <2>2
<1>6. OperatorTypeOK'
  <2>1. excused' \subseteq 0 .. LastSlot /\ beats' \subseteq 1 .. cursor
    <3>1. /\ excused \subseteq 0 .. LastSlot /\ beats \subseteq 1 .. cursor
          /\ LastSlot \in Nat /\ cursor \in Nat /\ cursor <= LastSlot
      BY <1>0, Script DEF OperatorTypeOK
    <3>2. 1 .. cursor \subseteq 0 .. LastSlot
      BY <3>1
    <3> QED BY <1>5, <3>1, <3>2
  <2>2. /\ {owed', early', approved'} \subseteq 0 .. LastSlot /\ wait' \in 0 .. 3
        /\ \A s \in {owed', early', approved'} \ {0} : Kind(s)' = "approval"
        /\ cursor' \in 0 .. LastSlot /\ turns' \in 0 .. cursor' /\ beats' \subseteq 1 .. cursor'
        /\ consumed' \subseteq 1 .. LastSlot
    BY <1>0, <1>1, <1>4, <2>1 DEF OperatorTypeOK, consent
  <2>3. /\ workflow' \in Workflow /\ rebound' \in [Workflow -> BOOLEAN]
        /\ uses' \in [Workflow -> 0 .. RevisionLimit] /\ clarified' \subseteq Workflow
        /\ {disposition', published', authorized', factOwed', factServed'} \subseteq BOOLEAN
        /\ finding' \in {"none", "open", "answered"} /\ reuses' \in 0 .. MaxReapprovals
        /\ ask' \in Asks \cup {"start", "repair again", "fact again"}
    BY <1>0, <1>1 DEF OperatorTypeOK, plan, review, facts
  <2>4. said' \in Messages'
    BY <1>0, <1>1, <1>4 DEF OperatorTypeOK, Messages
  <2>5. /\ spoken' \cup queued' \subseteq 1 .. LastSlot
        /\ chain' \in {"none", "waiting", "switched", "ungraded", "failed"}
        /\ status' \in {"speak", "listen"} \cup Endings
        /\ \E s \in Scenarios : script' = s[1] /\ prefix' = s[2]
    BY <1>0, <1>1, <1>3, <1>4 DEF OperatorTypeOK
  <2> QED BY <1>4, <2>1, <2>2, <2>3, <2>4, <2>5 DEF OperatorTypeOK, Messages
<1>7. DebtInv' /\ ChainInv'
  BY <1>0, <1>1, <1>3, <1>4, <1>5 DEF DebtInv, ChainInv, consent
<1>8. QueueInv' /\ ApprovalsAreSound'
  BY <1>3 DEF QueueInv, Running, ApprovalsAreSound, Sent, Endings
<1>9. QueuedBeatsAreSaid'
  <2> SUFFICES ASSUME status' = "completed", NEW s \in queued, Kind(s) # "approval"
               PROVE  s \in spoken \cup excused'
    BY <1>1, <1>4 DEF QueuedBeatsAreSaid, Consent
  <2>1. Conclude /\ beats' = {} /\ status = "speak"
    BY DEF PrefixFails, Interrupted, Conclude, Ends
  <2>2. s \in beats \cup spoken \cup excused
    BY <1>0, <2>1 DEF QueueInv, Running
  <2> QED BY <1>5, <2>1, <2>2
<1> QED BY <1>6, <1>7, <1>8, <1>9 DEF OperatorIInv
-----------------------------------------------------------------------------
(* The theorems *)

LEMMA OperatorInvariant == OperatorSpec => []OperatorIInv
<1>1. OperatorIInv /\ [OperatorNext]_operatorVars => OperatorIInv'
  <2> SUFFICES ASSUME OperatorIInv, [OperatorNext]_operatorVars PROVE OperatorIInv'
    OBVIOUS
  <2>1. CASE GivesUp
    BY <2>1, GivesUpPreserves
  <2>2. CASE Speak
    BY <2>2, SpeakPreserves
  <2>3. CASE PrefixFails \/ Interrupted \/ Conclude
    BY <2>3, EndsPreserves
  <2>4. CASE \E asked \in Asks \cup {"repair again"}, also \in BOOLEAN : Listen(asked, also)
    BY <2>4, ListenPreserves
  <2>5. CASE UNCHANGED operatorVars
    <3>1. UNCHANGED <<status, scenario, cursor, turns, ask, disposition, beats, consent,
                      plan, review, facts, chain, said, trace>>
      BY <2>5 DEF operatorVars
    <3>2. LastSlot' = LastSlot /\ \A s : Kind(s)' = Kind(s)
      BY <3>1, KindIsFixed
    <3>3. OperatorTypeOK'
      <4>1. OperatorTypeOK
        BY DEF OperatorIInv
      <4>2. said' \in Messages'
        BY <3>1, <3>2, <4>1 DEF OperatorTypeOK, Messages
      <4>3. /\ {owed', early', approved'} \subseteq 0 .. LastSlot /\ wait' \in 0 .. 3
            /\ \A s \in {owed', early', approved'} \ {0} : Kind(s)' = "approval"
            /\ cursor' \in 0 .. LastSlot /\ turns' \in 0 .. cursor'
            /\ beats' \subseteq 1 .. cursor' /\ consumed' \subseteq 1 .. LastSlot
            /\ spoken' \cup queued' \subseteq 1 .. LastSlot /\ excused' \subseteq 0 .. LastSlot
            /\ \E s \in Scenarios : script' = s[1] /\ prefix' = s[2]
        BY <3>1, <3>2, <4>1 DEF OperatorTypeOK, scenario, consent, trace
      <4>4. /\ workflow' \in Workflow /\ rebound' \in [Workflow -> BOOLEAN]
            /\ uses' \in [Workflow -> 0 .. RevisionLimit] /\ clarified' \subseteq Workflow
            /\ {disposition', published', authorized', factOwed', factServed'} \subseteq BOOLEAN
            /\ finding' \in {"none", "open", "answered"} /\ reuses' \in 0 .. MaxReapprovals
            /\ ask' \in Asks \cup {"start", "repair again", "fact again"}
            /\ chain' \in {"none", "waiting", "switched", "ungraded", "failed"}
            /\ status' \in {"speak", "listen"} \cup Endings
        BY <3>1, <4>1 DEF OperatorTypeOK, plan, review, facts
      <4> QED BY <3>2, <4>2, <4>3, <4>4 DEF OperatorTypeOK, Messages
    <3>4. DebtInv' /\ ChainInv' /\ QueueInv'
      BY <3>1, <3>2 DEF OperatorIInv, DebtInv, ChainInv, QueueInv, Running, Switched,
                        scenario, consent, trace
    <3>5. QueuedBeatsAreSaid' /\ ApprovalsAreSound'
      BY <3>1, <3>2 DEF OperatorIInv, QueuedBeatsAreSaid, ApprovalsAreSound, Sent, Consent, trace
    <3> QED BY <3>3, <3>4, <3>5 DEF OperatorIInv
  <2> QED BY <2>1, <2>2, <2>3, <2>4, <2>5 DEF OperatorNext
<1> QED BY <1>1, StartInvariant, PTL DEF OperatorSpec

(* The operator's state is well formed: what it owes lies behind the       *)
(* script's position, the approvals it keeps are approvals of the script,  *)
(* and no count exceeds the answer sheet's limit.                          *)
THEOREM OperatorIsTyped == OperatorSpec => []OperatorTypeOK
BY OperatorInvariant, PTL DEF OperatorIInv

(* A run is completed only when every beat that was deferred behind the    *)
(* agent's questions was said, excused, or part of an answer, for any      *)
(* script and any questions.                                               *)
THEOREM DeferredBeatsAreSaid == OperatorSpec => []QueuedBeatsAreSaid
BY OperatorInvariant, PTL DEF OperatorIInv

(* An approval text goes out as an approval, and for a plan that is        *)
(* approved only when it is asked for or overdue.                          *)
THEOREM ApprovalsAreRecorded == OperatorSpec => []ApprovalsAreSound
BY OperatorInvariant, PTL DEF OperatorIInv

(* What a line has to respect when it is sent.                             *)
LEMMA SentInPlace ==
    ASSUME OperatorIInv, OperatorNext, Sent', said'.slot # 0
    PROVE  /\ ~Consent(said') =>
                \A s \in spoken : Kind(s) # "approval" => s < said'.slot
           /\ prefix > 0 /\ ~said'.renews => (said'.slot > prefix <=> Switched)
<1>0. OperatorTypeOK /\ ChainInv /\ DebtInv
  BY DEF OperatorIInv
<1>1. Speak
  BY DEF OperatorNext, Sent, PrefixFails, GivesUp, Interrupted, Conclude, Ends, Listen
<1>2. HasSlot
  BY <1>1 DEF Speak
<1> DEFINE line == Line(Owes)
           m == Message(line)
<1>3. said' = m
  BY <1>1 DEF Speak
<1>4. line = Line(Owes) /\ m = Message(line)
  OBVIOUS
<1> HIDE DEF line, m
<1>5. \/ m.slot = owed /\ PaysOwed(line)
      \/ m.slot = approved /\ Renews(line)
      \/ m.slot = early /\ Repeats(line) /\ early # 0
      \/ m.slot = line
  BY <1>0, <1>3, <1>4, MessageSlot
<1>6. m.renews <=> Renews(line)
  BY <1>4 DEF Message
<1>7. /\ line # 0 /\ prefix > 0 => (line > prefix <=> Switched)
      /\ line # 0 /\ Kind(line) # "approval" =>
           \A s \in spoken : Kind(s) # "approval" => s < line
  BY <1>2, <1>4, LinePlace
<1>8. m.slot \in {owed, early, approved} => Kind(m.slot) = "approval"
  BY <1>0, <1>3 DEF OperatorTypeOK
<1>9. prefix > 0 /\ m.slot \in {owed, early} => (m.slot > prefix <=> Switched)
  BY <1>0, <1>3 DEF ChainInv
<1> QED BY <1>3, <1>5, <1>6, <1>7, <1>8, <1>9 DEF Consent

(* No step sends a line out of its place, whatever was deferred, retired   *)
(* or moved forward before it.                                             *)
THEOREM LinesStayInPlace == OperatorSpec => LinesKeepTheirPlace
<1> DEFINE InPlace ==
             Sent' /\ said'.slot # 0 =>
                 /\ ~Consent(said') =>
                       \A s \in spoken : Kind(s) # "approval" => s < said'.slot
                 /\ prefix > 0 /\ ~said'.renews => (said'.slot > prefix <=> Switched)
<1>1. OperatorIInv /\ [OperatorNext]_operatorVars => [InPlace]_operatorVars
  BY SentInPlace
<1>2. [][InPlace]_operatorVars => LinesKeepTheirPlace
  BY PTL DEF LinesKeepTheirPlace
<1> QED BY <1>1, <1>2, OperatorInvariant, PTL DEF OperatorSpec

(* A run begins with nothing asked, and only approvals are moved forward.  *)
FreshInv ==
    /\ \A s \in consumed : Kind(s) = "approval"
    /\ turns = 0 => ask = "start" /\ ~factOwed
    /\ Sent => turns > 0

LEMMA FreshStart == OperatorInit => FreshInv
BY DEF OperatorInit, FreshInv, Sent

LEMMA MovedIsApproval ==
    ASSUME OperatorIInv, HasSlot, NEW queue, Moves(queue)
    PROVE  Kind(Line(queue)) = "approval"
<1>1. InitialApprovals # {} /\ ~Pulls(queue)
  BY DEF Moves
<1>2. Slot \in Nat /\ prefix \in Nat /\ LastSlot \in Nat
  BY QueueFacts, Script DEF OperatorIInv
<1>3. InitialApprovals \in SUBSET Nat
  BY <1>2 DEF InitialApprovals
<1>4. Line(queue) = Min(InitialApprovals)
  BY <1>1 DEF Line
<1>5. Line(queue) \in InitialApprovals
  BY <1>1, <1>3, <1>4, MinOfSlots
<1> QED BY <1>5 DEF InitialApprovals

LEMMA FreshStep ==
    ASSUME OperatorIInv, FreshInv, [OperatorNext]_operatorVars
    PROVE  FreshInv'
<1>0. OperatorTypeOK /\ turns \in Nat
  BY Script DEF OperatorIInv
<1>1. CASE Speak \/ GivesUp
  <2>1. PICK queue \in {Owes} : TakesLine(queue, Line(queue))
    BY <1>1 DEF Speak, GivesUp
  <2>2. HasSlot /\ UNCHANGED scenario
    BY <1>1 DEF Speak, GivesUp
  <2>3. turns' > 0
    BY <1>0, <2>1 DEF TakesLine
  <2>4. \A s \in consumed' : Kind(s) = "approval"
    BY <2>1, <2>2, MovedIsApproval DEF TakesLine, FreshInv
  <2> QED BY <1>0, <2>2, <2>3, <2>4, KindIsFixed DEF FreshInv
<1>2. CASE PrefixFails \/ Interrupted \/ Conclude
  <2>1. UNCHANGED <<scenario, turns, ask, consumed, factOwed>> /\ ~Sent'
    BY <1>2 DEF PrefixFails, Interrupted, Conclude, Ends, consent, facts, Sent
  <2> QED BY <2>1, KindIsFixed DEF FreshInv
<1>3. CASE \E asked \in Asks \cup {"repair again"}, also \in BOOLEAN : Listen(asked, also)
  <2>1. Sent /\ ~Sent' /\ UNCHANGED <<scenario, turns, consumed>>
    BY <1>3 DEF Listen, Sent
  <2> QED BY <2>1, KindIsFixed DEF FreshInv
<1>4. CASE UNCHANGED operatorVars
  <2>1. UNCHANGED <<scenario, turns, ask, consumed, factOwed, status>>
    BY <1>4 DEF operatorVars, consent, facts
  <2> QED BY <2>1, KindIsFixed DEF FreshInv, Sent
<1> QED BY <1>1, <1>2, <1>3, <1>4 DEF OperatorNext

(* At its own slot a beat is deferred, said, or displaced by a consent.    *)
LEMMA BeatYields ==
    ASSUME OperatorIInv, FreshInv, OperatorNext, Sent', ~Sent,
           Kind(Slot) \in Beats \ {"approval"},
           Slot \notin spoken' \cup queued' \cup excused'
    PROVE  \/ said'.approves /\ owed # 0 /\ owed' = 0
           \/ said'.text = "reapproval" /\ reuses' = reuses + 1
<1>0. OperatorTypeOK /\ turns \in Nat
  BY Script DEF OperatorIInv
<1>1. Speak
  BY DEF OperatorNext, Sent, PrefixFails, GivesUp, Interrupted, Conclude, Ends, Listen
<1>2. HasSlot /\ UNCHANGED scenario
  BY <1>1 DEF Speak
<1> DEFINE queue == Owes
           line == Line(queue)
           m == Message(line)
<1>3. /\ TakesLine(queue, line) /\ said' = m /\ Settles(line, m)
      /\ reuses' = IF Reapproves(line) THEN reuses + 1 ELSE reuses
      /\ spoken' = spoken \cup {s \in {m.slot} : Kind(s) \in Beats}
  BY <1>1 DEF Speak
<1>4. queue = Owes /\ line = Line(queue) /\ m = Message(line)
  OBVIOUS
<1> HIDE DEF queue, line, m
<1>5. ~Obsolete(Slot, ask) /\ ~Deferred /\ Slot \notin consumed
  BY <1>3 DEF TakesLine, FreshInv
<1>6. Scheduled = Slot
  BY <1>5 DEF Scheduled
<1>7. queue = {}
  BY <1>2, <1>4, <1>5, <1>6, QueueFacts
<1>8. ~Decided(Live) /\ ~ClarifiedAsk
  <2>1. CASE turns = 0
    BY <2>1 DEF FreshInv, Live, Promoted, Decided, ClarifiedAsk, Genuine
  <2>2. CASE turns # 0
    BY <1>0, <1>5, <1>6, <2>2 DEF Deferred
  <2> QED BY <2>1, <2>2
<1>9. line = Slot
  <2>1. ~ApprovalDue
    BY <1>8 DEF ApprovalDue
  <2>2. ~Pulls(queue) /\ ~Moves(queue) /\ ~Pops(queue)
    BY <1>7, <2>1 DEF Pulls, Moves, Pops
  <2> QED BY <1>4, <1>5, <1>6, <2>2 DEF Line, FirstLine
<1>10. CASE Reapproves(line)
  <2>1. ~PaysOwed(line) /\ ~Renews(line) /\ ~Repeats(line)
    BY <1>10 DEF PaysOwed, Renews, Eligible, Repeats, Reconfirms
  <2>2. ~Swallowed(line)
    BY <1>9 DEF Swallowed
  <2>3. Content(line) = <<"reapproval", 0>>
    BY <1>8, <1>10, <2>1, <2>2 DEF Content
  <2>4. m.text = "reapproval"
    BY <1>4, <2>3 DEF Message
  <2> QED BY <1>3, <1>10, <2>4
<1>11. CASE PaysOwed(line)
  <2>1. ~Swallowed(line)
    BY <1>9 DEF Swallowed
  <2> QED BY <1>3, <1>4, <1>11, <2>1 DEF Settles, PaysOwed, Message, Approves
<1>12. CASE ~Reapproves(line) /\ ~PaysOwed(line)
  <2>1. ~Swallowed(line) /\ ~Renews(line) /\ SaysLine(line) /\ ~Repeats(line)
    BY <1>9 DEF Swallowed, Renews, Eligible, SaysLine, Repeats, Beats
  <2>2. m.slot = line
    BY <1>4, <1>8, <1>12, <2>1 DEF Message, Content
  <2> QED BY <1>3, <1>9, <2>2
<1> QED BY <1>10, <1>11, <1>12

(* Only a consent takes the turn of a beat: one that the agent is owed, or *)
(* the declared answer to a plan that it revised.                          *)
THEOREM BeatsYieldOnlyToConsent == OperatorSpec => BeatsYieldToConsent
<1> DEFINE Yields ==
             Sent' /\ ~Sent /\ Kind(Slot) \in Beats \ {"approval"}
             /\ Slot \notin spoken' \cup queued' \cup excused' =>
                 \/ said'.approves /\ owed # 0 /\ owed' = 0
                 \/ said'.text = "reapproval" /\ reuses' = reuses + 1
<1>1. OperatorIInv /\ FreshInv /\ [OperatorNext]_operatorVars => FreshInv'
  BY FreshStep
<1>2. OperatorIInv /\ FreshInv /\ [OperatorNext]_operatorVars => [Yields]_operatorVars
  BY BeatYields
<1>3. [][Yields]_operatorVars => BeatsYieldToConsent
  BY PTL DEF BeatsYieldToConsent
<1>4. OperatorSpec => []FreshInv
  BY <1>1, FreshStart, OperatorInvariant, PTL DEF OperatorSpec
<1> QED BY <1>2, <1>3, <1>4, OperatorInvariant, PTL DEF OperatorSpec

(* No step takes a line out of its place, or a beat's turn for anything    *)
(* but a consent.                                                          *)
THEOREM StepsKeepTheScript == OperatorSpec => ScriptIsKept
BY LinesStayInPlace, BeatsYieldOnlyToConsent DEF ScriptIsKept
=============================================================================
