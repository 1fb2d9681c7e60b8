----------------------------- MODULE MockSource -----------------------------
(***************************************************************************)
(* The mock REST source of a scenario (mockrest/server.py, counters.py,    *)
(* behaviors.py): one event loop that answers data requests, keeps an      *)
(* oracle of what it received, an auth budget and a switchable dataset,    *)
(* and whose state the harness snapshots and restores over restarts.       *)
(*                                                                         *)
(* The loop runs one handler until it awaits.  A handler awaits only in    *)
(* the latency of its route: _state_lock is never held over an await, so   *)
(* taking it never suspends.  Requests to slow routes are therefore two    *)
(* steps, Arrive and Respond, and everything else is one.                  *)
(*                                                                         *)
(* One dataset family is modelled.  Page starts are numbered 0, 1, ... and *)
(* a cursor is what its token is hashed from.                              *)
(***************************************************************************)
EXTENDS Integers, Sequences, FiniteSets

CONSTANTS
    Calls,          \* calls that can be in flight at once
    Routes,         \* configured routes
    SlowRoutes,     \* those with a latency
    AuthRoutes,     \* those that need the bearer token
    PagedRoutes,    \* those with pagination, over a dataset with states
    Lacks,          \* what a request may lack: "nothing", "header", "token"
    RefreshPath,    \* the path that refills the auth budget
    LimitEvery,     \* every k-th request of a route is rate limited; 0: none
    Parents,        \* values of the fan-out parameter in a path
    PageCount,      \* pages each parent's collection has
    States,         \* dataset states of the family
    InitialState,
    InitialRequests,
    IdleResets,     \* the counters are reset only while no call is in flight
    MaxEvents,      \* bound: requests the oracle has recorded
    MaxSwitch,      \* bound: dataset generation
    MaxRestart      \* bound: restarts and counter resets; no snapshot after

ASSUME RoutesAssumption ==
    /\ SlowRoutes \subseteq Routes /\ AuthRoutes \subseteq Routes
    /\ PagedRoutes \subseteq Routes
    /\ RefreshPath \notin Routes
ASSUME DataAssumption ==
    /\ PageCount \in [Parents -> Nat] /\ InitialState \in States
ASSUME BoundsAssumption ==
    /\ LimitEvery \in Nat /\ InitialRequests \in Nat /\ IdleResets \in BOOLEAN
    /\ MaxEvents \in Nat /\ MaxSwitch \in Nat /\ MaxRestart \in Nat

VARIABLES
    oracle,      \* the request counters
    remaining,   \* what is left of the auth budget
    current,     \* [state, generation] of the dataset
    cursorMaps,  \* page starts memoised for a route and a dataset key
    inflight,    \* calls waiting for the latency of their route
    saved,       \* the persisted runtime snapshot; {} before the first
    answers,     \* history: what was answered to each recorded request
    spent,       \* history: tokens used since the last refresh
    issued,      \* history: cursors handed out, with the parent they are for
    walked,      \* history: the latest answer, if it was to a cursor
    restarts     \* restarts and counter resets so far

server == <<oracle, remaining, current, cursorMaps>>
history == <<answers, spent, issued, walked>>
vars == <<oracle, remaining, current, cursorMaps, inflight, saved, answers,
          spent, issued, walked, restarts>>

Key == [state : States, generation : Nat]
Cursor == [route : Routes, key : Key, page : Nat]
Request == [route : Routes, parent : Parents, cursor : SUBSET Cursor,
            lacks : Lacks]
-----------------------------------------------------------------------------
(* The oracle: RequestCounters *)

EmptyOracle == [events |-> <<>>, statuses |-> {}, pages |-> <<>>]

\* record(): the request is an event, numbered among those of its route.
Record(o, route) == [o EXCEPT !.events = Append(@, route)]
CountUpto(o, route, n) == Cardinality({i \in 1 .. n : o.events[i] = route})
Count(o, route) == CountUpto(o, route, Len(o.events))

\* record_response(): the n-th event of the route gets the status.  A number
\* the events no longer have raises: the client gets a 500 nobody recorded.
SequenceOf_AnyRoute(o, route, n) == {n} \cap DOMAIN o.events
SequenceOf(o, route, n) ==
    {i \in DOMAIN o.events :
        o.events[i] = route /\ CountUpto(o, route, i) = n}
SetStatus(o, i, status) ==
    [o EXCEPT !.statuses = {x \in @ : x.sequence # i}
                           \cup {[sequence |-> i, status |-> status]}]

\* record_page_observation(): a successful page names its request and state.
SetPage(o, i, state, rows) ==
    [o EXCEPT !.pages =
        Append(@, [sequence |-> i, state |-> state, rows |-> rows])]

\* _decode_snapshot: what restore_snapshot accepts.
Decodes(o) ==
    /\ \A x \in o.statuses : x.sequence \in DOMAIN o.events
    /\ \A i \in DOMAIN o.pages :
          [sequence |-> o.pages[i].sequence, status |-> 200] \in o.statuses
    /\ \A i, j \in DOMAIN o.pages :
          o.pages[i].sequence = o.pages[j].sequence => i = j
-----------------------------------------------------------------------------
(* Answering *)

RateLimited(n) == LimitEvery > 0 /\ n % LimitEvery = 0

Authenticates_Unchecked(q) == q.lacks # "token"
Authenticates(q) == q.lacks # "token" /\ remaining > 0

\* cursor_offsets, memoised under the route and the dataset key by whichever
\* request came first.
PageStarts_ButLast(parent) == 0 .. PageCount[parent] - 2
PageStarts(parent) == 0 .. PageCount[parent] - 1
Memo(q, key) == {m \in cursorMaps : m.route = q.route /\ m.key = key}
ValidPages(q, key) ==
    IF Memo(q, key) = {} THEN PageStarts(q.parent)
    ELSE UNION {m.pages : m \in Memo(q, key)}
CursorValid(q, key) ==
    \A c \in q.cursor :
        c.route = q.route /\ c.key = key /\ c.page \in ValidPages(q, key)

\* The checks of _data_handler, in its order.
Status(q, n, key) ==
    IF q.lacks = "header" THEN 403
    ELSE IF RateLimited(n) THEN 429
    ELSE IF q.route \in AuthRoutes /\ ~Authenticates(q) THEN 401
    ELSE IF CursorValid(q, key) THEN 200
    ELSE 400

\* _route_payload: the rows come from the state the request found on arrival.
RowsOf_Current(key) == current.state
RowsOf(key) == key.state

NextCursors(q, key) ==
    LET page == IF q.cursor = {} THEN 0 ELSE (CHOOSE c \in q.cursor : TRUE).page
    IN  IF page + 1 < PageCount[q.parent]
        THEN {[route |-> q.route, key |-> key, page |-> page + 1]} ELSE {}

\* finish(): status and page of a request that arrived as number n of its
\* route, found the dataset at key and is the own-th event, given the oracle.
Answer(q, n, key, own, o) ==
    LET status == Status(q, n, key)
        tokens == IF q.route \in AuthRoutes /\ status \in {200, 400} THEN 1 ELSE 0
        paged == q.route \in PagedRoutes /\ status \in {200, 400}
        lost == SequenceOf(o, q.route, n) = {}
        sent == IF lost THEN 500 ELSE status
        page == paged /\ sent = 200
    IN  /\ \/ lost /\ oracle' = o
           \/ \E i \in SequenceOf(o, q.route, n) :
                 LET answered == SetStatus(o, i, status)
                 IN  oracle' = IF page
                               THEN SetPage(answered, i, key.state, RowsOf(key))
                               ELSE answered
        /\ remaining' = remaining - tokens /\ spent' = spent + tokens
        /\ cursorMaps' = cursorMaps \cup
              (IF paged /\ Memo(q, key) = {}
               THEN {[route |-> q.route, key |-> key,
                      pages |-> PageStarts(q.parent)]} ELSE {})
        /\ issued' = issued \cup
              {[cursor |-> c, parent |-> q.parent] :
                  c \in IF page THEN NextCursors(q, key) ELSE {}}
        /\ answers' = {x \in answers : x.sequence # own}
                      \cup {[sequence |-> own, status |-> sent]}
        /\ walked' = {[route |-> q.route, parent |-> q.parent, key |-> key,
                       cursor |-> c, status |-> sent, rows |-> RowsOf(key)] :
                         c \in q.cursor}
-----------------------------------------------------------------------------
Init ==
    /\ oracle = EmptyOracle /\ remaining = InitialRequests
    /\ current = [state |-> InitialState, generation |-> 0]
    /\ cursorMaps = {} /\ inflight = [c \in Calls |-> {}] /\ saved = {}
    /\ answers = {} /\ spent = 0 /\ issued = {} /\ walked = {} /\ restarts = 0

Arrives(q) ==
    /\ Len(oracle.events) < MaxEvents
    /\ q.cursor # {} => q.route \in PagedRoutes

\* A request to a slow route is recorded, and sees the dataset as it is now.
Arrive(c, q) ==
    /\ inflight[c] = {} /\ q.route \in SlowRoutes /\ Arrives(q)
    /\ LET o == Record(oracle, q.route)
       IN  /\ oracle' = o
           /\ inflight' = [inflight EXCEPT ![c] =
                  {[request |-> q, number |-> Count(o, q.route),
                    key |-> current, own |-> Len(o.events)]}]
    /\ UNCHANGED <<remaining, current, cursorMaps, saved, history, restarts>>

\* Its latency has passed.
Respond(c) ==
    /\ \E w \in inflight[c] : Answer(w.request, w.number, w.key, w.own, oracle)
    /\ inflight' = [inflight EXCEPT ![c] = {}]
    /\ UNCHANGED <<current, saved, restarts>>

\* A request to a route without latency is recorded and answered at once.
Serve(q) ==
    /\ q.route \notin SlowRoutes /\ Arrives(q)
    /\ LET o == Record(oracle, q.route)
       IN  Answer(q, Count(o, q.route), current, Len(o.events), o)
    /\ UNCHANGED <<current, inflight, saved, restarts>>

\* The refresh path refills the auth budget, and is recorded too.
Refresh ==
    /\ Len(oracle.events) < MaxEvents
    /\ LET o == Record(oracle, RefreshPath)
           own == Len(o.events)
       IN  /\ oracle' = SetStatus(o, own, 200)
           /\ answers' = answers \cup {[sequence |-> own, status |-> 200]}
    /\ remaining' = InitialRequests /\ spent' = 0
    /\ UNCHANGED <<current, cursorMaps, inflight, saved, issued, walked, restarts>>

\* set_dataset_state: another generation, and the memoised cursors go.
SetDatasetState(s) ==
    /\ current.generation < MaxSwitch
    /\ current' = [state |-> s, generation |-> current.generation + 1]
    /\ cursorMaps' = {}
    /\ UNCHANGED <<oracle, remaining, inflight, saved, history, restarts>>

\* The reset path of the control port.
Reset_KeepsPages ==
    /\ restarts < MaxRestart /\ restarts' = restarts + 1
    /\ oracle.events # <<>> /\ \A c \in Calls : inflight[c] = {}
    /\ oracle' = [EmptyOracle EXCEPT !.pages = oracle.pages]
    /\ answers' = {}
    /\ UNCHANGED <<remaining, current, cursorMaps, inflight, saved, spent,
                   issued, walked>>
Reset ==
    /\ restarts < MaxRestart /\ restarts' = restarts + 1
    /\ oracle.events # <<>>
    /\ IdleResets => \A c \in Calls : inflight[c] = {}
    /\ oracle' = EmptyOracle /\ answers' = {}
    /\ UNCHANGED <<remaining, current, cursorMaps, inflight, saved, spent,
                   issued, walked>>
-----------------------------------------------------------------------------
(* Snapshots and restarts *)

\* snapshot_runtime_state; the histories of the same moment come along.
Snapshot == [remaining |-> remaining, current |-> current, oracle |-> oracle,
             answers |-> answers, spent |-> spent]

\* restore_runtime_state accepts it.
Restorable(s) == s.remaining \in 0 .. InitialRequests /\ Decodes(s.oracle)

\* persist_native_source_state, after a committed turn or at cleanup.
Persist ==
    /\ restarts < MaxRestart
    /\ saved' = {Snapshot}
    /\ UNCHANGED <<server, inflight, history, restarts>>

Abandoned == inflight' = [c \in Calls |-> {}] /\ cursorMaps' = {}

\* The source is gone with the calls in flight; a resumed run starts it with
\* the snapshot, before any client knows it is up.
Restart_FullBudget ==
    /\ restarts < MaxRestart
    /\ \E s \in saved :
          /\ Restorable(s)
          /\ oracle' = s.oracle /\ current' = s.current
          /\ remaining' = InitialRequests
          /\ answers' = s.answers /\ spent' = s.spent
    /\ Abandoned /\ restarts' = restarts + 1
    /\ UNCHANGED <<saved, issued, walked>>
Restart ==
    /\ restarts < MaxRestart
    /\ \E s \in saved :
          /\ Restorable(s)
          /\ oracle' = s.oracle /\ current' = s.current
          /\ remaining' = s.remaining
          /\ answers' = s.answers /\ spent' = s.spent
    /\ Abandoned /\ restarts' = restarts + 1
    /\ UNCHANGED <<saved, issued, walked>>
-----------------------------------------------------------------------------
Next ==
    \/ \E q \in [route : Routes, parent : Parents,
                 cursor : {{}} \cup {{x.cursor} : x \in issued},
                 lacks : Lacks] :
          Serve(q) \/ \E c \in Calls : Arrive(c, q)
    \/ \E c \in Calls : Respond(c)
    \/ Refresh \/ Reset
    \/ \E s \in States : SetDatasetState(s)
    \/ Persist \/ Restart

Spec == Init /\ [][Next]_vars
-----------------------------------------------------------------------------
(* Properties *)

OracleType ==
    [events : Seq(Routes \cup {RefreshPath}),
     statuses : SUBSET [sequence : Nat, status : {200, 400, 401, 403, 429}],
     pages : Seq([sequence : Nat, state : States, rows : States])]

\* Every variable has its type; the auth budget never leaves its range.
TypeOK ==
    /\ oracle \in OracleType
    /\ remaining \in 0 .. InitialRequests
    /\ current \in Key
    /\ \A m \in cursorMaps : m.route \in Routes /\ m.key \in Key
    /\ \A c \in Calls : \A w \in inflight[c] :
          /\ w.request \in Request /\ w.key \in Key
          /\ w.number \in Nat /\ w.own \in Nat
    /\ \A s \in saved : s.current \in Key /\ s.oracle \in OracleType
    /\ \A x \in issued : x.cursor \in Cursor /\ x.parent \in Parents
    /\ spent \in Nat /\ restarts \in 0 .. MaxRestart

SnapshotsRestorable ==
    Restorable(Snapshot) /\ \A s \in saved : Restorable(s)
BudgetHonoured == spent + remaining = InitialRequests

\* A snapshot taken at any moment, whatever calls are in flight, is one the
\* next start accepts, and the tokens used since the last refresh and the rest
\* are the initial budget: a resume is never refused for the source's own state,
\* and neither refills the budget nor drains it.
RestartIsFaithful == SnapshotsRestorable /\ BudgetHonoured

\* The oracle says of each request what the client was answered: no status is
\* attached to another request, missing, or made up, although responses come in
\* another order than requests and over restarts.
OracleIsTrue == oracle.statuses = answers

PagesMatchState ==
    /\ \A i \in DOMAIN oracle.pages :
          oracle.pages[i].rows = oracle.pages[i].state
    /\ \A a \in walked : a.status = 200 => a.cursor.key.state = a.rows
IssuedCursorsAccepted ==
    \A a \in walked :
        a.status = 400 =>
            ~ (a.cursor.key = a.key /\ a.cursor.route = a.route
               /\ [cursor |-> a.cursor, parent |-> a.parent] \in issued)

\* A page has the rows of the state its observation names, which is the state
\* the cursor was issued for, although the dataset switches while calls wait;
\* and a walk can finish: a cursor the server issued for this collection is not
\* refused while the dataset is the one it was issued for.
WalkIsSound == PagesMatchState /\ IssuedCursorsAccepted
=============================================================================
