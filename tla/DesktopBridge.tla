---------------------------- MODULE DesktopBridge ----------------------------
(***************************************************************************)
(* The stdio bridge between an evaluated agent and its supervisor          *)
(* (evals/desktop_stdio.py), outside its NEX mode.  The agent's MCP client *)
(* starts a proxy process: a main thread takes requests, timer threads     *)
(* answer those with an injected deadline, a reader thread passes the      *)
(* responses on and drops the late ones.  The runner starts a supervisor   *)
(* child for every connection, with a thread for each direction; the state *)
(* that holds tool calls while a review is pending is shared by all        *)
(* connections.  The client may restart the proxy at any time.             *)
(*                                                                         *)
(* Requests are numbered in the order they are sent.  The client gives an  *)
(* id to another request once it has an answer for it.  The children share *)
(* the supervisor's data; a child writes a response as it executes.        *)
(* A call to inspect the workflow or to read the captured input passes and  *)
(* is held like a report that is refused, and is not a kind of its own.    *)
(* Traces, tool lists, the review reader and its allow-list are left out.  *)
(***************************************************************************)
EXTENDS Naturals, Sequences

CONSTANTS
    MaxRequests,   \* bound: requests of the client
    MaxConns,      \* bound: connections, one after the other
    MaxCrashes,    \* bound: children that end with their input still open
    MaxIds,        \* bound: JSON-RPC ids of a connection, taken in order
    Faulted,       \* kinds with an injected deadline
    Budget,        \* how many requests get it ("once": 1)
    None

ASSUME BoundAssumption ==
    MaxRequests \in Nat /\ MaxConns \in Nat /\ MaxCrashes \in Nat
    /\ MaxIds \in Nat /\ Budget \in Nat
ASSUME NoneAssumption == None \notin Nat

Kinds == {"capture", "report", "act"}
Requests == 1 .. MaxRequests
Conns == 1 .. MaxConns
Ids == 1 .. MaxIds

VARIABLES
    req,        \* the requests
    conn,       \* connections: none, open, cut by the bridge, draining, closed
    child,      \* their supervisor children
    reading,    \* a thread reads the child's output
    queue,      \* lines on their way to the bridge
    holder,     \* the request the client awaits, or last awaited, under an id
    pending,    \* pending: the request with a deadline under an id
    timer,      \* timer threads
    budget,     \* what is left of the fault
    lines,      \* history: request, holder of its id, and what the client read
    inFlight,   \* _review_capture_in_flight
    guard,      \* _review_guard_state is set
    supervisor, \* its capture waits for a review
    crashes,
    raced,      \* history: a capture was admitted while another was on its way
    overtaken   \* history: calls let through before the last capture was
                \*   forwarded, and not executed yet

proxy == <<holder, pending, timer, budget, lines>>
review == <<inFlight, guard>>
runner == <<conn, child, reading>>
history == <<raced, overtaken>>
vars == <<req, runner, queue, proxy, review, supervisor, crashes, history>>

Unsent == [kind |-> "act", id |-> None, conn |-> 0, at |-> "unsent", answer |-> "none"]

Init ==
    /\ req = [r \in Requests |-> Unsent]
    /\ conn = [c \in Conns |-> "none"] /\ child = [c \in Conns |-> "none"]
    /\ reading = [c \in Conns |-> FALSE] /\ queue = [c \in Conns |-> <<>>]
    /\ holder = [c \in Conns |-> [i \in Ids |-> None]]
    /\ pending = [c \in Conns |-> [i \in Ids |-> None]]
    /\ timer = [r \in Requests |-> "none"] /\ budget = Budget /\ lines = {}
    /\ inFlight = FALSE /\ guard = FALSE /\ supervisor = FALSE
    /\ crashes = 0 /\ raced = FALSE /\ overtaken = {}

Of(r) == req[r].conn
Live(c) == conn[c] \in {"open", "cut"}      \* the client is there
Up(c) == Live(c) \/ conn[c] = "draining"
Answered(r) == \E line \in lines : line[2] = r
Holder(r) == holder[Of(r)][req[r].id]
Reads(r, what) == lines' = lines \cup {<<r, Holder(r), what>>}
Moves(r, place) == req' = [req EXCEPT ![r].at = place]

\* Mutant: an answer counts as late as soon as its request has a deadline.
TimedOut_Set(r) == timer[r] # "none"

TimedOut(r) == timer[r] \in {"marked", "fired"}
-----------------------------------------------------------------------------
(* The client and the proxy's main thread *)

Connect(c) ==
    /\ conn[c] = "none" /\ \A d \in Conns : ~Live(d) /\ (d < c => conn[d] # "none")
    /\ conn' = [conn EXCEPT ![c] = "open"] /\ child' = [child EXCEPT ![c] = "up"]
    /\ reading' = [reading EXCEPT ![c] = TRUE]
    /\ UNCHANGED <<req, queue, proxy, review, supervisor, crashes, history>>

Duplicate(c, i) == pending[c][i] # None

\* Mutant: the fault has no budget.
Spends_Unlimited(c, i, kind) == kind \in Faulted /\ ~Duplicate(c, i)

Spends(c, i, kind) == kind \in Faulted /\ budget > 0 /\ ~Duplicate(c, i)

Unset(c) == [r \in Requests |-> IF Of(r) = c /\ timer[r] = "set" THEN "none" ELSE timer[r]]

Asks(r, kind, c, i, place) ==
    /\ req[r].at = "unsent" /\ \A q \in 1 .. r - 1 : req[q].at # "unsent"
    /\ holder[c][i] # None => Answered(holder[c][i])
    /\ \A j \in 1 .. i - 1 : holder[c][j] # None
    /\ req' = [req EXCEPT ![r] = [kind |-> kind, id |-> i, conn |-> c, answer |-> "none",
                                  at |-> place]]
    /\ holder' = [holder EXCEPT ![c][i] = r]

\* An id with a deadline is refused before the fault is spent.
SendDuplicate(r, kind, c, i) ==
    /\ Live(c) /\ Duplicate(c, i) /\ Asks(r, kind, c, i, "done")
    /\ lines' = lines \cup {<<r, r, "duplicate">>}
    /\ UNCHANGED <<runner, queue, pending, timer, budget, review, supervisor, crashes,
                   history>>

Send(r, kind, c, i) ==
    /\ conn[c] = "open" /\ ~Duplicate(c, i) /\ Asks(r, kind, c, i, "bridge")
    /\ queue' = [queue EXCEPT ![c] = Append(@, r)]
    /\ IF Spends(c, i, kind)
       THEN /\ budget' = budget - 1
            /\ pending' = [pending EXCEPT ![c][i] = r]
            /\ timer' = [timer EXCEPT ![r] = "set"]
       ELSE UNCHANGED <<budget, pending, timer>>
    /\ UNCHANGED <<runner, lines, review, supervisor, crashes, history>>

\* The bridge is gone: the line is lost, or cannot be written, and then the
\* proxy ends as if its input had.
SendIsLost(r, kind, c, i) ==
    /\ conn[c] = "cut" /\ ~Duplicate(c, i) /\ Asks(r, kind, c, i, "lost")
    /\ \/ /\ IF Spends(c, i, kind)
             THEN /\ budget' = budget - 1
                  /\ pending' = [pending EXCEPT ![c][i] = r]
                  /\ timer' = [timer EXCEPT ![r] = "set"]
             ELSE UNCHANGED <<budget, pending, timer>>
          /\ UNCHANGED conn
       \/ /\ conn' = [conn EXCEPT ![c] = "draining"] /\ timer' = Unset(c)
          /\ UNCHANGED <<budget, pending>>
    /\ UNCHANGED <<child, reading, queue, lines, review, supervisor, crashes, history>>

\* End of input: no deadline is answered any more.
ClientCloses(c) ==
    /\ Live(c) /\ conn' = [conn EXCEPT ![c] = "draining"] /\ timer' = Unset(c)
    /\ UNCHANGED <<req, child, reading, queue, holder, pending, budget, lines, review,
                   supervisor, crashes, history>>

\* The proxy has waited for the reader, or was killed.
ProxyEnds(c) ==
    /\ conn[c] = "draining" /\ conn' = [conn EXCEPT ![c] = "closed"]
    /\ pending' = [pending EXCEPT ![c] = [i \in Ids |-> None]]
    /\ UNCHANGED <<req, child, reading, queue, holder, timer, budget, lines, review,
                   supervisor, crashes, history>>
-----------------------------------------------------------------------------
(* The proxy's timer threads and its reader *)

\* Mutant: the timer does not look whether its request is still pending.
StillPending_Any(r) == Live(Of(r))

\* timeout_response looks under the lock.
StillPending(r) == Live(Of(r)) /\ pending[Of(r)][req[r].id] = r

TimerMarks(r) ==
    /\ timer[r] = "set" /\ StillPending(r)
    /\ timer' = [timer EXCEPT ![r] = "marked"]
    /\ UNCHANGED <<req, runner, queue, holder, pending, budget, lines, review,
                   supervisor, crashes, history>>

TimerWrites(r) ==
    /\ timer[r] = "marked" /\ Up(Of(r)) /\ Reads(r, "deadline")
    /\ timer' = [timer EXCEPT ![r] = "fired"]
    /\ UNCHANGED <<req, runner, queue, holder, pending, budget, review, supervisor,
                   crashes, history>>

\* forward_responses: the pending request is popped under the lock.  A timer
\* that runs already finds it gone.
ReaderPops(r) ==
    LET c == Of(r)
        p == pending[c][req[r].id]
    IN  /\ req[r].at = "back" /\ Up(c)
        /\ \A q \in Requests : ~(req[q].at = "popped" /\ Of(q) = c)
        /\ pending' = [pending EXCEPT ![c][req[r].id] = None]
        /\ Moves(r, IF p # None /\ TimedOut(p) THEN "done" ELSE "popped")
        /\ UNCHANGED <<runner, queue, holder, timer, budget, lines, review, supervisor,
                       crashes, history>>

ReaderWrites(r) ==
    /\ req[r].at = "popped" /\ Up(Of(r)) /\ Moves(r, "done") /\ Reads(r, "answer")
    /\ UNCHANGED <<runner, queue, holder, pending, timer, budget, review, supervisor,
                   crashes, history>>
-----------------------------------------------------------------------------
(* The bridge: forward_to_server *)

\* Mutant: calls are held only once the capture has been answered.
Blocked_Answered(kind) == guard /\ kind \in {"capture", "act"}

Blocked(kind) == inFlight \/ (guard /\ kind \in {"capture", "act"})

IsHead(c, r, place) == queue[c] # <<>> /\ Head(queue[c]) = r /\ req[r].at = place

Block(c, r) ==
    /\ IsHead(c, r, "bridge") /\ Blocked(req[r].kind)
    /\ req' = [req EXCEPT ![r].at = IF Up(c) THEN "back" ELSE "lost",
                          ![r].answer = "held"]
    /\ queue' = [queue EXCEPT ![c] = IF Up(c) THEN Tail(@) ELSE <<>>]
    /\ UNCHANGED <<runner, proxy, review, supervisor, crashes, history>>

\* A capture is being worked on, or its answer is still to be read.
OnItsWay(r) ==
    /\ req[r].kind = "capture"
    /\ req[r].at \in {"admitted", "server"} \/ (req[r].at = "stdout" /\ reading[Of(r)])

Admit(c, r) ==
    /\ IsHead(c, r, "bridge") /\ ~Blocked(req[r].kind) /\ Moves(r, "admitted")
    /\ raced' = (raced \/ (req[r].kind = "capture" /\ \E q \in Requests : OnItsWay(q)))
    /\ UNCHANGED <<runner, queue, proxy, review, supervisor, crashes, overtaken>>

\* A call that a review holds has been let through to the supervisor.
LetThrough(r) ==
    req[r].at \in {"admitted", "server"} /\ req[r].kind \in {"capture", "act"}

\* The flag is set before the line is written, and no other call is looked at
\* again: one that was let through before goes on.  A write to a child that is
\* gone ends the thread and, once the reader has seen the end of the child's
\* output, the connection.
Forward(c, r) ==
    /\ IsHead(c, r, "admitted")
    /\ inFlight' = (inFlight \/ req[r].kind = "capture")
    /\ overtaken' = IF req[r].kind = "capture"
                    THEN {q \in Requests \ {r} : LetThrough(q)} ELSE overtaken
    /\ IF child[c] = "up"
       THEN /\ Moves(r, "server") /\ queue' = [queue EXCEPT ![c] = Tail(@)]
            /\ UNCHANGED conn
       ELSE /\ req' = [q \in Requests |-> IF q \in {queue[c][k] : k \in DOMAIN queue[c]}
                                         THEN [req[q] EXCEPT !.at = "lost"] ELSE req[q]]
            /\ queue' = [queue EXCEPT ![c] = <<>>]
            /\ conn' = [conn EXCEPT ![c] = IF @ = "open" THEN "cut" ELSE @]
    /\ UNCHANGED <<child, reading, proxy, guard, supervisor, crashes, raced>>
-----------------------------------------------------------------------------
(* The supervisor children (external) *)

Responds(r, answer) == req' = [req EXCEPT ![r].at = "stdout", ![r].answer = answer]

\* "other": an error, or an answer that neither asks for a review nor ends one.
Execute(r, answer) ==
    /\ req[r].at = "server" /\ child[Of(r)] = "up" /\ Responds(r, answer)
    /\ \/ answer = "other" /\ UNCHANGED supervisor
       \/ req[r].kind = "capture" /\ answer = "review" /\ supervisor' = TRUE
       \/ req[r].kind = "report" /\ answer = "accepted" /\ supervisor
          /\ supervisor' = FALSE
    /\ overtaken' = overtaken \ {r}
    /\ UNCHANGED <<runner, queue, proxy, review, crashes, raced>>

\* A child ends when its input does, or crashes; what it was doing is lost.
ChildEnds(c) ==
    /\ child[c] = "up" /\ child' = [child EXCEPT ![c] = "gone"]
    /\ crashes < MaxCrashes /\ crashes' = crashes + 1
    /\ req' = [r \in Requests |-> IF Of(r) = c /\ req[r].at = "server"
                                  THEN [req[r] EXCEPT !.at = "lost"] ELSE req[r]]
    /\ UNCHANGED <<conn, reading, queue, proxy, review, supervisor, history>>
-----------------------------------------------------------------------------
(* The bridge: forward_from_server and update_review_guard *)

Passes(r) ==
    LET c == Of(r)
        capture == req[r].kind = "capture"
    IN  /\ req[r].at = "stdout" /\ reading[c]
        /\ inFlight' = (inFlight /\ ~capture)
        /\ guard' = CASE capture /\ req[r].answer = "review" -> TRUE
                      [] req[r].kind = "report" /\ req[r].answer = "accepted" -> FALSE
                      [] OTHER -> guard
        /\ Moves(r, IF Up(c) THEN "back" ELSE "lost")
        /\ reading' = [reading EXCEPT ![c] = Up(c)]
        /\ UNCHANGED <<conn, child, queue, proxy, supervisor, crashes, history>>
-----------------------------------------------------------------------------
Next ==
    \/ \E c \in Conns :
         \/ Connect(c) \/ ClientCloses(c) \/ ProxyEnds(c) \/ ChildEnds(c)
         \/ \E r \in Requests : Block(c, r) \/ Admit(c, r) \/ Forward(c, r)
         \/ \E r \in Requests, kind \in Kinds, i \in Ids :
              Send(r, kind, c, i) \/ SendDuplicate(r, kind, c, i) \/ SendIsLost(r, kind, c, i)
    \/ \E r \in Requests :
         \/ TimerMarks(r) \/ TimerWrites(r) \/ ReaderPops(r) \/ ReaderWrites(r) \/ Passes(r)
         \/ \E answer \in {"review", "accepted", "other"} : Execute(r, answer)

\* Timer threads and a reader go on while their process lives.
Timers == \E r \in Requests : TimerMarks(r) \/ TimerWrites(r)
Reader == \E r \in Requests : ReaderWrites(r)
Spec == Init /\ [][Next]_vars /\ WF_vars(Timers) /\ WF_vars(Reader)
-----------------------------------------------------------------------------
(* Properties *)

\* Every variable has its type, a line queued for a bridge thread is of its
\* connection and not forwarded yet, and the fault is not overspent.
TypeOK ==
    /\ \A r \in Requests :
         /\ req[r].kind \in Kinds /\ req[r].conn \in 0 .. MaxConns
         /\ req[r].at \in {"unsent", "bridge", "admitted", "server", "stdout", "back",
                           "popped", "done", "lost"}
         /\ timer[r] \in {"none", "set", "marked", "fired"}
    /\ conn \in [Conns -> {"none", "open", "cut", "draining", "closed"}]
    /\ child \in [Conns -> {"none", "up", "gone"}]
    /\ \A c \in Conns : \A r \in {queue[c][k] : k \in DOMAIN queue[c]} :
         Of(r) = c /\ req[r].at \in {"bridge", "admitted"}
    /\ budget \in 0 .. Budget /\ crashes \in 0 .. MaxCrashes
    /\ {inFlight, guard, supervisor, raced} \subseteq BOOLEAN

\* The client reads one line for a request, the answer of the supervisor, its
\* injected deadline or a refusal of its id, and reads none for another
\* request under the same id, however the answer races the timer and however
\* late it comes.
OneAnswer ==
    /\ \A line \in lines : line[1] = line[2]
    /\ \A a, b \in lines : a[1] = b[1] => a = b

\* While the supervisor waits for a review, no capture and no action is on its
\* way to it from any connection, admitted, written to a child or at work there,
\* but those the bridge had let through before it forwarded that capture: nothing
\* that is decided from then on gets past the review.  (Unless two bridge
\* threads let a capture through at the same time.)
NothingPassesReview ==
    supervisor /\ ~raced =>
        \A r \in Requests : LetThrough(r) => r \in overtaken

\* What should_block says of a pending review (desktop_stdio.py:3564): "only the
\* captured-input reader, workflow inspection and the review report cross the
\* tool boundary".  The bridge writes no other call to a child while it knows of
\* a pending review.  The code breaks it: a call is not looked at again between
\* its decision and the write.
ReviewIsABoundary ==
    [][guard /\ ~raced =>
         \A r \in Requests :
             LetThrough(r) /\ req[r].at = "admitted" => req'[r].at # "server"]_vars

\* A request with an injected deadline is answered as long as the client is
\* there, by its timer or by the supervisor, also when a late answer is dropped:
\* again and again, none is outstanding.
Outstanding ==
    {r \in Requests : /\ timer[r] \in {"set", "marked"} /\ ~Answered(r)
                      /\ Live(Of(r))}
DeadlineIsMet == []<>(Outstanding = {})

\* What that rests on: no race takes an injected deadline out of everybody's
\* hands.  Until the client has its line the timer will find its request
\* pending, or has marked it, or the reader has taken the answer over.
DeadlineHasAKeeper ==
    \A r \in Outstanding :
        StillPending(r) \/ timer[r] = "marked" \/ req[r].at = "popped"

\* Timer, reader and main thread race for a request without its client reading
\* two answers, or another request's, and without losing its deadline.
AnswersSurviveRaces == OneAnswer /\ DeadlineHasAKeeper
=============================================================================
