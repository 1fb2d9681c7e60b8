----------------------------- MODULE GrantLedger -----------------------------
(***************************************************************************)
(* The grant ledgers of a set of runs (grantkit/ledger.py) and the checker *)
(* of their cumulative budgets.  Every run has a directory with an event   *)
(* file, a transcript and a summary; its process issues a grant, widens    *)
(* it, and passes provider calls of several threads through dispatch,      *)
(* which writes before the call, outside the lock of the call, and after   *)
(* it.  A process may be killed at any step, and another one may be        *)
(* started over the same directory.                                        *)
(*                                                                         *)
(* Grants are numbered along their widening.  The calls ceiling stands for *)
(* the three; a call's token usage and spend are taken to be known.  The   *)
(* upstream attempts.jsonl and edits of the files are left out.            *)
(***************************************************************************)
EXTENDS Naturals, Sequences, FiniteSets, Functions

CONSTANTS
    Runs,          \* run directories, each with its run_id
    Threads,       \* threads of a run's process
    MaxCalls,      \* max_calls of every grant, a sequence
    MaxDispatch,   \* bound: call numbers all processes hand out
    MaxReopens     \* bound: processes started over a used directory

ASSUME GrantsAssumption == MaxCalls \in Seq(Nat) /\ Len(MaxCalls) > 0
ASSUME BoundAssumption == MaxDispatch \in Nat /\ MaxReopens \in Nat

Grant == 1 .. Len(MaxCalls)
CallId == 1 .. MaxDispatch
NoGrant == 0
Idle == [at |-> "idle", id |-> 0, grant |-> NoGrant]

VARIABLES
    process,      \* "none", "up" or "gone"
    current,      \* _current
    nextCall,     \* _next_call
    calls,        \* _calls
    thread,       \* the dispatch each thread is in
    defined,      \* grants the event file defines
    reserved,     \* provider_call_reserved events
    started,      \* provider_call_started records
    settled,      \* provider_call records
    torn,         \* a line was cut short by a kill
    summary,      \* ids claimed by run-summary.json; <<>> in a set, or none
    invoked,      \* history: provider calls made, by grant
    reopened,     \* history: directories used again
    handed        \* history: how many call numbers were handed out

memory == <<process, current, nextCall, calls, thread>>
files == <<defined, reserved, started, settled, torn, summary>>
counts == <<invoked, reopened, handed>>
grantVars == <<memory, files, counts>>

GrantInit ==
    /\ process = [r \in Runs |-> "none"] /\ current = [r \in Runs |-> NoGrant]
    /\ nextCall = [r \in Runs |-> 1] /\ calls = [r \in Runs |-> <<>>]
    /\ thread = [r \in Runs |-> [t \in Threads |-> Idle]]
    /\ defined = [r \in Runs |-> {}] /\ reserved = [r \in Runs |-> {}]
    /\ started = [r \in Runs |-> {}] /\ settled = [r \in Runs |-> <<>>]
    /\ torn = [r \in Runs |-> FALSE] /\ summary = [r \in Runs |-> {}]
    /\ invoked = [r \in Runs |-> [g \in Grant |-> 0]]
    /\ reopened = {} /\ handed = 0
-----------------------------------------------------------------------------
(* A run's process *)

\* GrantLedger.__init__: nothing of the directory is read.
Open(r) ==
    /\ process[r] # "up"
    /\ process[r] = "gone" => Cardinality(reopened) < MaxReopens /\ r \notin reopened
    /\ reopened' = IF process[r] = "gone" THEN reopened \cup {r} ELSE reopened
    /\ process' = [process EXCEPT ![r] = "up"]
    /\ current' = [current EXCEPT ![r] = NoGrant]
    /\ nextCall' = [nextCall EXCEPT ![r] = 1]
    /\ calls' = [calls EXCEPT ![r] = <<>>]
    /\ UNCHANGED <<thread, files, invoked, handed>>

\* The ledger's lock is held from the reservation to the start record.
Unlocked(r) == \A t \in Threads : thread[r][t].at # "reserved"

Issue(r) ==
    /\ process[r] = "up" /\ Unlocked(r) /\ current[r] = NoGrant
    /\ current' = [current EXCEPT ![r] = 1]
    /\ defined' = [defined EXCEPT ![r] = @ \cup {1}]
    /\ UNCHANGED <<process, nextCall, calls, thread, reserved, started, settled,
                   torn, summary, counts>>

\* validate_widening: only towards a later grant.
Expand(r, g) ==
    /\ process[r] = "up" /\ Unlocked(r)
    /\ current[r] # NoGrant /\ g > current[r]
    /\ current' = [current EXCEPT ![r] = g]
    /\ defined' = [defined EXCEPT ![r] = @ \cup {current[r], g}]
    /\ UNCHANGED <<process, nextCall, calls, thread, reserved, started, settled,
                   torn, summary, counts>>

Dispatches(r, t) ==
    /\ process[r] = "up" /\ Unlocked(r) /\ thread[r][t].at = "idle"
    /\ current[r] # NoGrant /\ handed < MaxDispatch /\ handed' = handed + 1
    /\ nextCall' = [nextCall EXCEPT ![r] = @ + 1]

\* A malformed turn or token count is refused after its number was taken.
Refuse(r, t) ==
    /\ Dispatches(r, t)
    /\ UNCHANGED <<process, current, calls, thread, files, invoked, reopened>>

Reserve(r, t) ==
    /\ Dispatches(r, t)
    /\ thread' = [thread EXCEPT ![r][t] =
                    [at |-> "reserved", id |-> nextCall[r], grant |-> current[r]]]
    /\ reserved' = [reserved EXCEPT ![r] = @ \cup {nextCall[r]}]
    /\ UNCHANGED <<process, current, calls, defined, started, settled, torn,
                   summary, invoked, reopened>>

At(r, t, place) == process[r] = "up" /\ thread[r][t].at = place
Moves(r, t, place) == thread' = [thread EXCEPT ![r][t].at = place]

Start(r, t) ==
    /\ At(r, t, "reserved") /\ Moves(r, t, "started")
    /\ started' = [started EXCEPT ![r] = @ \cup {thread[r][t].id}]
    /\ UNCHANGED <<process, current, nextCall, calls, defined, reserved, settled,
                   torn, summary, counts>>

\* The provider is called, and answers or raises.
Invoke(r, t) ==
    /\ At(r, t, "started") /\ Moves(r, t, "called")
    /\ invoked' = [invoked EXCEPT ![r][thread[r][t].grant] = @ + 1]
    /\ UNCHANGED <<process, current, nextCall, calls, files, reopened, handed>>

\* Mutant: the call is recorded under the last number handed out.
SettledRow_LastNumber(r, t) == [id |-> nextCall[r] - 1, grant |-> thread[r][t].grant]

SettledRow(r, t) == [id |-> thread[r][t].id, grant |-> thread[r][t].grant]

\* The finally of dispatch, whatever the provider did.
Settle(r, t) ==
    /\ At(r, t, "called") /\ Unlocked(r)
    /\ thread' = [thread EXCEPT ![r][t] = Idle]
    /\ settled' = [settled EXCEPT ![r] = Append(@, SettledRow(r, t))]
    /\ calls' = [calls EXCEPT ![r] = Append(@, thread[r][t].id)]
    /\ UNCHANGED <<process, current, nextCall, defined, reserved, started, torn,
                   summary, counts>>

\* The append of the finally raises: the call is done and not recorded.
SettleFails(r, t) ==
    /\ At(r, t, "called") /\ Unlocked(r)
    /\ thread' = [thread EXCEPT ![r][t] = Idle]
    /\ UNCHANGED <<process, current, nextCall, calls, files, counts>>

\* close: the process claims what it remembers, and may go on.
WriteSummary(r) ==
    /\ process[r] = "up" /\ Unlocked(r)
    /\ summary' = [summary EXCEPT ![r] = {calls[r]}]
    /\ UNCHANGED <<memory, defined, reserved, started, settled, torn, counts>>

\* The process ends or is killed, perhaps inside an append.
Ends(r, tears) ==
    /\ process[r] = "up" /\ process' = [process EXCEPT ![r] = "gone"]
    /\ thread' = [thread EXCEPT ![r] = [t \in Threads |-> Idle]]
    /\ torn' = [torn EXCEPT ![r] = @ \/ tears]
    /\ UNCHANGED <<current, nextCall, calls, defined, reserved, started, settled,
                   summary, counts>>

GrantNext ==
    \E r \in Runs :
        \/ Open(r) \/ Issue(r) \/ WriteSummary(r)
        \/ \E g \in Grant : Expand(r, g)
        \/ \E tears \in BOOLEAN : Ends(r, tears)
        \/ \E t \in Threads :
             \/ Refuse(r, t) \/ Reserve(r, t) \/ Start(r, t) \/ Invoke(r, t)
             \/ Settle(r, t) \/ SettleFails(r, t)

GrantSpec == GrantInit /\ [][GrantNext]_grantVars
-----------------------------------------------------------------------------
(* check_cumulative_budgets over a set of run directories *)

SettledRows(r) == {settled[r][i] : i \in DOMAIN settled[r]}
Completed(r) == {row.id : row \in SettledRows(r)}
Lifecycle(r) == started[r] \cup reserved[r]

Loads(r) ==
    /\ ~torn[r] /\ summary[r] # {}
    /\ started[r] # {} \/ settled[r] # <<>>

\* Mutant: a call that was started counts as completed.
NothingIncomplete_Started(r) == Lifecycle(r) \subseteq started[r] \cup Completed(r)
NothingIncomplete(r) == Lifecycle(r) \subseteq Completed(r)

Contiguous(ids) == ids = 1 .. Cardinality(ids)

Reconciles(r) ==
    \A claim \in summary[r] :
        /\ Len(claim) = Len(settled[r])
        /\ {claim[i] : i \in DOMAIN claim} = Completed(r)
        /\ Cardinality(Completed(r)) = Len(claim)

Clean(r) ==
    /\ Loads(r) /\ NothingIncomplete(r) /\ Reconciles(r)
    /\ Cardinality(Completed(r)) = Len(settled[r])
    /\ Contiguous(Lifecycle(r) \cup Completed(r))
    /\ \A row \in SettledRows(r) : row.grant \in defined[r]

Charged(r, g) == {i \in DOMAIN settled[r] : settled[r][i].grant = g}
Usage(S, g) == SumFunction([r \in S |-> Cardinality(Charged(r, g))])

Passed(S) ==
    /\ S # {} /\ \A r \in S : Clean(r)
    /\ \A g \in Grant : Usage(S, g) <= MaxCalls[g]
-----------------------------------------------------------------------------
(* Properties *)

Place == {"idle", "reserved", "started", "called"}
Row == [id : CallId, grant : Grant]

\* Files and threads have their types; a row settles a started call and a
\* started call was reserved; threads of a process hold different numbers.
GrantTypeOK ==
    /\ process \in [Runs -> {"none", "up", "gone"}]
    /\ current \in [Runs -> Grant \cup {NoGrant}]
    /\ nextCall \in [Runs -> 1 .. MaxDispatch + 1]
    /\ calls \in [Runs -> Seq(CallId)]
    /\ thread \in [Runs -> [Threads -> [at : Place, id : CallId \cup {0},
                                        grant : Grant \cup {NoGrant}]]]
    /\ defined \in [Runs -> SUBSET Grant]
    /\ reserved \in [Runs -> SUBSET CallId] /\ started \in [Runs -> SUBSET CallId]
    /\ settled \in [Runs -> Seq(Row)] /\ torn \in [Runs -> BOOLEAN]
    /\ summary \in [Runs -> SUBSET Seq(CallId)]
    /\ invoked \in [Runs -> [Grant -> Nat]]
    /\ reopened \subseteq Runs /\ handed \in 0 .. MaxDispatch
    /\ \A r \in Runs :
         /\ Completed(r) \subseteq started[r] /\ started[r] \subseteq reserved[r]
         /\ \A t, u \in Threads :
              (/\ t # u /\ thread[r][t].at # "idle" /\ thread[r][u].at # "idle")
              => thread[r][t].id # thread[r][u].id

\* When the checker passes a set of runs, every provider call their processes
\* made is in the total of the grant it was made under, and no grant's calls
\* exceed its ceiling, whatever was in flight, killed or not recorded when the
\* summaries were written.  (Runs whose directory was used again are excused:
\* __init__ starts the numbers again, and the second process's calls hide the
\* first one's.)
PassedMeansAccounted ==
    \A S \in SUBSET (Runs \ reopened) :
        Passed(S) =>
            \A g \in Grant :
                LET made == SumFunction([r \in S |-> invoked[r][g]])
                IN  Usage(S, g) = made /\ made <= MaxCalls[g]

\* A run whose every call was settled, and whose summary was written after the
\* last one, is not accused by the checker: neither of calls in another order
\* than their numbers nor of a grant that was widened meanwhile.  (A refused
\* dispatch takes a number that is never settled.)
OrderlyRunIsClean ==
    \A r \in Runs \ reopened :
        (/\ ~torn[r] /\ settled[r] # <<>>
         /\ nextCall[r] = Len(settled[r]) + 1
         /\ summary[r] = {calls[r]})
        => Clean(r)
=============================================================================
