------------------------- MODULE DesktopBridgeProofs -------------------------
(***************************************************************************)
(* Proofs about DesktopBridge for any number of requests, connections, ids *)
(* and crashes, any budget of the fault and any kinds it is injected in.   *)
(***************************************************************************)
EXTENDS DesktopBridge, TLAPS

Places == {"unsent", "bridge", "admitted", "server", "stdout", "back", "popped", "done", "lost"}
Request == [kind : Kinds, id : Ids \cup {None}, conn : 0 .. MaxConns, at : Places,
            answer : {"none", "held", "review", "accepted", "other"}]
Table == [Conns -> [Ids -> Requests \cup {None}]]

(* A request has a connection and an id once it is sent.                   *)
RequestTypes ==
    /\ req \in [Requests -> Request]
    /\ \A r \in Requests :
         /\ req[r].at = "unsent" => Of(r) = 0
         /\ req[r].at # "unsent" => Of(r) \in Conns /\ req[r].id \in Ids /\ conn[Of(r)] # "none"

RunnerTypes ==
    /\ conn \in [Conns -> {"none", "open", "cut", "draining", "closed"}]
    /\ child \in [Conns -> {"none", "up", "gone"}] /\ reading \in [Conns -> BOOLEAN]
    /\ crashes \in 0 .. MaxCrashes
    /\ inFlight \in BOOLEAN /\ guard \in BOOLEAN /\ supervisor \in BOOLEAN /\ raced \in BOOLEAN

ProxyTypes ==
    /\ holder \in Table /\ pending \in Table /\ budget \in 0 .. Budget
    /\ timer \in [Requests -> {"none", "set", "marked", "fired"}]

(* The lines on their way to a bridge are requests of its connection, each *)
(* once.                                                                   *)
Line(c, q) == \A k \in DOMAIN q : Of(q[k]) = c /\ req[q[k]].at \in {"bridge", "admitted"}
Once(q) == \A j, k \in DOMAIN q : q[j] = q[k] => j = k
Queues ==
    /\ queue \in [Conns -> Seq(Requests)]
    /\ \A c \in Conns : Line(c, queue[c]) /\ Once(queue[c])

Typed == RequestTypes /\ RunnerTypes /\ ProxyTypes /\ Queues

LEMMA NoneIs == None \notin Requests /\ None \notin Ids
BY NoneAssumption DEF Requests, Ids

LEMMA TypedInit == Init => Typed
<1> SUFFICES ASSUME Init PROVE Typed
  OBVIOUS
<1>1. RequestTypes
  <2>1. Unsent \in Request
    BY BoundAssumption DEF Unsent, Request, Places, Kinds
  <2> QED BY <2>1 DEF Init, RequestTypes, Unsent, Of
<1>2. RunnerTypes
  <2>1. crashes \in 0 .. MaxCrashes
    BY BoundAssumption DEF Init
  <2>2. inFlight \in BOOLEAN /\ guard \in BOOLEAN /\ supervisor \in BOOLEAN /\ raced \in BOOLEAN
    BY DEF Init
  <2>3. /\ conn \in [Conns -> {"none", "open", "cut", "draining", "closed"}]
        /\ child \in [Conns -> {"none", "up", "gone"}] /\ reading \in [Conns -> BOOLEAN]
    BY DEF Init
  <2> QED BY <2>1, <2>2, <2>3 DEF RunnerTypes
<1>3. ProxyTypes
  BY BoundAssumption DEF Init, ProxyTypes, Table
<1>4. Queues
  <2>1. \A c \in Conns : queue[c] = <<>> /\ DOMAIN queue[c] = {}
    BY DEF Init
  <2> QED BY <2>1 DEF Init, Queues, Line, Once
<1> QED BY <1>1, <1>2, <1>3, <1>4 DEF Typed

(* What happens to the requests when none is sent.                         *)
Kept ==
    \A q \in Requests :
        /\ req'[q].kind = req[q].kind /\ req'[q].id = req[q].id /\ req'[q].conn = req[q].conn
        /\ req[q].at = "unsent" <=> req'[q].at = "unsent"

LEMMA RequestsStayTyped ==
    ASSUME RequestTypes, req' \in [Requests -> Request], Kept,
           \A c \in Conns : conn[c] # "none" => conn'[c] # "none"
    PROVE  RequestTypes'
BY DEF RequestTypes, Kept, Of

LEMMA MoveIs ==
    ASSUME RequestTypes, NEW r \in Requests, NEW place \in Places \ {"unsent"}, Moves(r, place),
           req[r].at # "unsent"
    PROVE  /\ req' \in [Requests -> Request] /\ Kept
           /\ req'[r].at = place /\ req'[r].answer = req[r].answer
           /\ \A q \in Requests : q # r => req'[q] = req[q]
<1>1. req \in [Requests -> Request]
  BY DEF RequestTypes
<1>2. req' = [req EXCEPT ![r] = [req[r] EXCEPT !.at = place]]
  BY DEF Moves
<1>3. [req[r] EXCEPT !.at = place] \in Request
  BY <1>1 DEF Request
<1>4. /\ req'[r] = [req[r] EXCEPT !.at = place]
      /\ \A q \in Requests : q # r => req'[q] = req[q]
  BY <1>1, <1>2
<1>5. /\ req'[r].kind = req[r].kind /\ req'[r].id = req[r].id /\ req'[r].conn = req[r].conn
      /\ req'[r].at = place /\ req'[r].answer = req[r].answer
  BY <1>1, <1>4 DEF Request
<1> QED BY <1>1, <1>2, <1>3, <1>4, <1>5 DEF Kept

LEMMA AnswerIs ==
    ASSUME RequestTypes, NEW r \in Requests, NEW place \in Places \ {"unsent"},
           NEW answer \in {"held", "review", "accepted", "other"}, req[r].at # "unsent",
           req' = [req EXCEPT ![r].at = place, ![r].answer = answer]
    PROVE  /\ req' \in [Requests -> Request] /\ Kept
           /\ req'[r].at = place /\ req'[r].answer = answer
           /\ \A q \in Requests : q # r => req'[q] = req[q]
<1>1. req \in [Requests -> Request]
  BY DEF RequestTypes
<1> DEFINE new == [[req[r] EXCEPT !.at = place] EXCEPT !.answer = answer]
<1>2. req' = [req EXCEPT ![r] = new]
  BY <1>1
<1>3. new \in Request /\ new.kind = req[r].kind /\ new.id = req[r].id /\ new.conn = req[r].conn
      /\ new.at = place /\ new.answer = answer
  BY <1>1 DEF Request
<1> HIDE DEF new
<1>4. req'[r] = new /\ \A q \in Requests : q # r => req'[q] = req[q]
  BY <1>1, <1>2
<1> QED BY <1>1, <1>2, <1>3, <1>4 DEF Kept

LEMMA LostIs ==
    ASSUME RequestTypes, NEW S \in SUBSET Requests, \A q \in S : req[q].at # "unsent",
           req' = [q \in Requests |-> IF q \in S THEN [req[q] EXCEPT !.at = "lost"] ELSE req[q]]
    PROVE  /\ req' \in [Requests -> Request] /\ Kept
           /\ \A q \in S : req'[q].at = "lost" /\ req'[q].answer = req[q].answer
           /\ \A q \in Requests \ S : req'[q] = req[q]
<1>1. req \in [Requests -> Request]
  BY DEF RequestTypes
<1>2. \A q \in S : /\ req'[q] \in Request /\ req'[q].kind = req[q].kind /\ req'[q].id = req[q].id
                   /\ req'[q].conn = req[q].conn /\ req'[q].at = "lost"
                   /\ req'[q].answer = req[q].answer
  BY <1>1 DEF Request, Places
<1>3. \A q \in Requests \ S : req'[q] = req[q]
  OBVIOUS
<1> QED BY <1>1, <1>2, <1>3 DEF Kept

(* The queues: a step of another request, the head taken, all lost.        *)
LEMMA QueuesStay ==
    ASSUME Queues, Kept, queue' = queue,
           \A q \in Requests :
              req[q].at \in {"bridge", "admitted"} => req'[q].at \in {"bridge", "admitted"}
    PROVE  Queues'
<1> SUFFICES ASSUME NEW c \in Conns
             PROVE  Line(c, queue[c])' /\ Once(queue'[c])
  BY DEF Queues, Once
<1>1. queue[c] \in Seq(Requests) /\ Line(c, queue[c]) /\ Once(queue[c])
  BY DEF Queues
<1>2. \A k \in DOMAIN queue[c] : queue[c][k] \in Requests
  BY <1>1
<1> QED BY <1>1, <1>2 DEF Line, Kept, Of

LEMMA QueuePops ==
    ASSUME Queues, Kept, NEW c \in Conns, queue[c] # <<>>,
           queue' = [queue EXCEPT ![c] = Tail(@)],
           \A q \in Requests : q # Head(queue[c]) => req'[q] = req[q]
    PROVE  Queues'
<1>1. \A d \in Conns : /\ queue[d] \in Seq(Requests) /\ Line(d, queue[d]) /\ Once(queue[d])
                       /\ \A k \in DOMAIN queue[d] : queue[d][k] \in Requests
  BY DEF Queues
<1>2. /\ Tail(queue[c]) \in Seq(Requests) /\ Head(queue[c]) = queue[c][1] /\ 1 \in DOMAIN queue[c]
      /\ \A k \in DOMAIN Tail(queue[c]) : /\ k + 1 \in DOMAIN queue[c] /\ k + 1 # 1
                                          /\ Tail(queue[c])[k] = queue[c][k + 1]
      /\ \A k \in DOMAIN Tail(queue[c]) : k \in Nat
  BY <1>1
<1>3. queue'[c] = Tail(queue[c]) /\ \A d \in Conns : d # c => queue'[d] = queue[d]
  BY DEF Queues
<1>4. queue' \in [Conns -> Seq(Requests)]
  BY <1>1, <1>2 DEF Queues
<1>5. \A k \in DOMAIN Tail(queue[c]) : Tail(queue[c])[k] # Head(queue[c])
  BY <1>1, <1>2 DEF Once
<1>6. Line(c, queue[c])' /\ Once(queue'[c])
  <2>1. \A k \in DOMAIN Tail(queue[c]) :
           /\ req'[Tail(queue[c])[k]].conn = c
           /\ req'[Tail(queue[c])[k]].at \in {"bridge", "admitted"}
    <3> TAKE k \in DOMAIN Tail(queue[c])
    <3>1. Tail(queue[c])[k] = queue[c][k + 1] /\ k + 1 \in DOMAIN queue[c]
      BY <1>2
    <3>2. queue[c][k + 1] \in Requests /\ queue[c][k + 1] # Head(queue[c])
      BY <3>1, <1>1, <1>5
    <3>3. Of(queue[c][k + 1]) = c /\ req[queue[c][k + 1]].at \in {"bridge", "admitted"}
      BY <3>1, <1>1 DEF Line
    <3>4. req'[queue[c][k + 1]] = req[queue[c][k + 1]]
      BY <3>2
    <3> QED BY <3>1, <3>3, <3>4 DEF Of
  <2>2. Once(Tail(queue[c]))
    BY <1>1, <1>2 DEF Once
  <2>3. Line(c, queue[c])'
    BY <2>1, <1>3 DEF Line, Of
  <2> QED BY <2>2, <2>3, <1>3
<1>7. \A d \in Conns : d # c => Line(d, queue[d])' /\ Once(queue'[d])
  <2> SUFFICES ASSUME NEW d \in Conns, d # c
               PROVE  Line(d, queue[d])' /\ Once(queue'[d])
    OBVIOUS
  <2>1. \A k \in DOMAIN queue[d] : queue[d][k] # Head(queue[c])
    BY <1>1, <1>2 DEF Line
  <2> QED BY <1>1, <1>3, <2>1 DEF Line, Of
<1> QED BY <1>4, <1>6, <1>7 DEF Queues, Once

LEMMA QueueEmpties ==
    ASSUME Queues, Kept, NEW c \in Conns, queue' = [queue EXCEPT ![c] = <<>>],
           \A q \in Requests : q \notin {queue[c][k] : k \in DOMAIN queue[c]} => req'[q] = req[q]
    PROVE  Queues'
<1>1. \A d \in Conns : /\ queue[d] \in Seq(Requests) /\ Line(d, queue[d]) /\ Once(queue[d])
                       /\ \A k \in DOMAIN queue[d] : queue[d][k] \in Requests
  BY DEF Queues
<1>2. queue'[c] = <<>> /\ \A d \in Conns : d # c => queue'[d] = queue[d]
  BY DEF Queues
<1>3. queue' \in [Conns -> Seq(Requests)]
  BY <1>1 DEF Queues
<1>4. Line(c, queue[c])' /\ Once(queue'[c])
  <2>1. DOMAIN <<>> = {}
    OBVIOUS
  <2> QED BY <1>2, <2>1 DEF Line, Once
<1>5. \A d \in Conns : d # c => Line(d, queue[d])' /\ Once(queue'[d])
  <2> SUFFICES ASSUME NEW d \in Conns, d # c
               PROVE  Line(d, queue[d])' /\ Once(queue'[d])
    OBVIOUS
  <2>1. \A k \in DOMAIN queue[d] : queue[d][k] \notin {queue[c][j] : j \in DOMAIN queue[c]}
    BY <1>1 DEF Line
  <2> QED BY <1>1, <1>2, <2>1 DEF Line, Of
<1> QED BY <1>3, <1>4, <1>5 DEF Queues, Once

LEMMA QueuesAround ==
    ASSUME Queues, NEW r \in Requests, queue' = queue, req[r].at = "unsent",
           \A q \in Requests : q # r => req'[q] = req[q]
    PROVE  Queues'
<1> SUFFICES ASSUME NEW c \in Conns
             PROVE  Line(c, queue[c])' /\ Once(queue'[c])
  BY DEF Queues, Once
<1>1. queue[c] \in Seq(Requests) /\ Line(c, queue[c]) /\ Once(queue[c])
  BY DEF Queues
<1>2. \A k \in DOMAIN queue[c] : queue[c][k] \in Requests
  BY <1>1
<1>3. \A k \in DOMAIN queue[c] : queue[c][k] # r
  BY <1>1 DEF Line
<1> QED BY <1>1, <1>2, <1>3 DEF Line, Of

LEMMA QueueAppends ==
    ASSUME Queues, RequestTypes, NEW c \in Conns, NEW r \in Requests, req[r].at = "unsent",
           queue' = [queue EXCEPT ![c] = Append(@, r)],
           req'[r].conn = c, req'[r].at = "bridge",
           \A q \in Requests : q # r => req'[q] = req[q]
    PROVE  Queues'
<1>1. \A d \in Conns : /\ queue[d] \in Seq(Requests) /\ Line(d, queue[d]) /\ Once(queue[d])
                       /\ \A k \in DOMAIN queue[d] : queue[d][k] \in Requests /\ queue[d][k] # r
  <2>1. \A d \in Conns : queue[d] \in Seq(Requests) /\ Line(d, queue[d]) /\ Once(queue[d])
    BY DEF Queues
  <2>2. \A d \in Conns : \A k \in DOMAIN queue[d] : queue[d][k] \in Requests
    BY <2>1
  <2>3. \A d \in Conns : \A k \in DOMAIN queue[d] : queue[d][k] # r
    BY <2>1 DEF Line
  <2> QED BY <2>1, <2>2, <2>3
<1>2. queue'[c] = Append(queue[c], r) /\ \A d \in Conns : d # c => queue'[d] = queue[d]
  BY DEF Queues
<1>3. queue' \in [Conns -> Seq(Requests)]
  BY <1>1 DEF Queues
<1>4. \A k \in DOMAIN Append(queue[c], r) :
         \/ k \in DOMAIN queue[c] /\ Append(queue[c], r)[k] = queue[c][k]
         \/ k = Len(queue[c]) + 1 /\ Append(queue[c], r)[k] = r
  BY <1>1
<1>5. Line(c, queue[c])' /\ Once(queue'[c])
  <2>1. Line(c, queue[c])'
    BY <1>1, <1>2, <1>4 DEF Line, Of
  <2>2. Once(Append(queue[c], r))
    BY <1>1, <1>4 DEF Once
  <2> QED BY <1>2, <2>1, <2>2
<1>6. \A d \in Conns : d # c => Line(d, queue[d])' /\ Once(queue'[d])
  BY <1>1, <1>2 DEF Line, Of
<1> QED BY <1>3, <1>5, <1>6 DEF Queues, Once
-----------------------------------------------------------------------------
(* A new request, and what the deadline costs.                             *)
LEMMA AsksIs ==
    ASSUME Typed, NEW r \in Requests, NEW kind \in Kinds, NEW c \in Conns, NEW i \in Ids,
           NEW place \in Places \ {"unsent"}, Asks(r, kind, c, i, place), conn[c] # "none",
           \A d \in Conns : conn[d] # "none" => conn'[d] # "none"
    PROVE  /\ RequestTypes' /\ holder' \in Table /\ req[r].at = "unsent"
           /\ req'[r].kind = kind /\ req'[r].id = i /\ req'[r].conn = c /\ req'[r].at = place
           /\ req'[r].answer = "none"
           /\ \A q \in Requests : q # r => req'[q] = req[q]
<1>1. req \in [Requests -> Request] /\ holder \in Table
  BY DEF Typed, RequestTypes, ProxyTypes
<1> DEFINE new == [kind |-> kind, id |-> i, conn |-> c, answer |-> "none", at |-> place]
<1>2. new \in Request
  BY DEF Request, Conns
<1>3. req' = [req EXCEPT ![r] = new] /\ req[r].at = "unsent"
  BY DEF Asks
<1>4. /\ new.kind = kind /\ new.id = i /\ new.conn = c /\ new.at = place /\ new.answer = "none"
  OBVIOUS
<1> HIDE DEF new
<1>5. req'[r] = new /\ (\A q \in Requests : q # r => req'[q] = req[q]) /\ req' \in [Requests -> Request]
  BY <1>1, <1>2, <1>3
<1>6. holder' \in Table
  BY <1>1 DEF Asks, Table
<1>7. RequestTypes'
  <2>1. \A q \in Requests : q # r =>
           /\ req'[q].at = "unsent" => req'[q].conn = 0
           /\ req'[q].at # "unsent" => /\ req'[q].conn \in Conns /\ req'[q].id \in Ids
                                       /\ conn'[req'[q].conn] # "none"
    BY <1>5 DEF Typed, RequestTypes, Of
  <2>2. req'[r].at # "unsent" /\ req'[r].conn \in Conns /\ req'[r].id \in Ids /\ conn'[req'[r].conn] # "none"
    BY <1>4, <1>5
  <2> QED BY <1>5, <2>1, <2>2 DEF RequestTypes, Of
<1> QED BY <1>3, <1>4, <1>5, <1>6, <1>7

LEMMA SpendsIs ==
    ASSUME Typed, NEW r \in Requests, NEW kind \in Kinds, NEW c \in Conns, NEW i \in Ids,
           IF Spends(c, i, kind)
           THEN /\ budget' = budget - 1
                /\ pending' = [pending EXCEPT ![c][i] = r]
                /\ timer' = [timer EXCEPT ![r] = "set"]
           ELSE UNCHANGED <<budget, pending, timer>>
    PROVE  /\ budget' \in 0 .. Budget /\ pending' \in Table
           /\ timer' \in [Requests -> {"none", "set", "marked", "fired"}]
<1>1. /\ pending \in Table /\ budget \in 0 .. Budget
      /\ timer \in [Requests -> {"none", "set", "marked", "fired"}]
  BY DEF Typed, ProxyTypes
<1>2. CASE Spends(c, i, kind)
  <2>1. budget > 0 /\ budget' = budget - 1
    BY <1>2 DEF Spends
  <2>2. budget' \in 0 .. Budget
    BY <1>1, <2>1, BoundAssumption
  <2> QED BY <1>1, <1>2, <2>2 DEF Table
<1>3. CASE ~Spends(c, i, kind)
  BY <1>1, <1>3
<1> QED BY <1>2, <1>3

LEMMA UnsetIs ==
    ASSUME Typed, NEW c \in Conns, timer' = Unset(c)
    PROVE  timer' \in [Requests -> {"none", "set", "marked", "fired"}]
BY DEF Typed, ProxyTypes, Unset

LEMMA TypedSends ==
    ASSUME Typed, NEW r \in Requests, NEW kind \in Kinds, NEW c \in Conns, NEW i \in Ids,
           Send(r, kind, c, i) \/ SendDuplicate(r, kind, c, i) \/ SendIsLost(r, kind, c, i)
    PROVE  Typed'
<1>0. /\ Queues /\ RunnerTypes /\ ProxyTypes /\ RequestTypes
      /\ \A d \in Conns : conn[d] \in {"none", "open", "cut", "draining", "closed"}
  BY DEF Typed, RunnerTypes
<1>1. CASE Send(r, kind, c, i)
  <2>1. Asks(r, kind, c, i, "bridge") /\ conn[c] # "none" /\ conn' = conn
    BY <1>1 DEF Send, runner
  <2>2. /\ RequestTypes' /\ holder' \in Table /\ req[r].at = "unsent"
        /\ req'[r].conn = c /\ req'[r].at = "bridge" /\ \A q \in Requests : q # r => req'[q] = req[q]
    BY <2>1, AsksIs DEF Places
  <2>3. ProxyTypes'
    BY <1>1, <2>2, SpendsIs DEF Send, ProxyTypes
  <2>4. Queues'
    BY <1>0, <1>1, <2>2, QueueAppends DEF Send
  <2>5. RunnerTypes'
    BY <1>0, <1>1 DEF Send, runner, review, history, RunnerTypes
  <2> QED BY <2>2, <2>3, <2>4, <2>5 DEF Typed
<1>2. CASE SendDuplicate(r, kind, c, i)
  <2>1. Asks(r, kind, c, i, "done") /\ conn[c] # "none" /\ conn' = conn /\ queue' = queue
    BY <1>2 DEF SendDuplicate, runner, Live
  <2>2. /\ RequestTypes' /\ holder' \in Table /\ req[r].at = "unsent"
        /\ \A q \in Requests : q # r => req'[q] = req[q]
    BY <2>1, AsksIs DEF Places
  <2>3. ProxyTypes'
    BY <1>0, <1>2, <2>2 DEF SendDuplicate, ProxyTypes
  <2>4. Queues'
    BY <1>0, <2>1, <2>2, QueuesAround
  <2>5. RunnerTypes'
    BY <1>0, <1>2 DEF SendDuplicate, runner, review, history, RunnerTypes
  <2> QED BY <2>2, <2>3, <2>4, <2>5 DEF Typed
<1>3. CASE SendIsLost(r, kind, c, i)
  <2>1. Asks(r, kind, c, i, "lost") /\ conn[c] # "none" /\ queue' = queue
    BY <1>3 DEF SendIsLost
  <2>2. /\ \A d \in Conns : conn[d] # "none" => conn'[d] # "none"
        /\ conn' \in [Conns -> {"none", "open", "cut", "draining", "closed"}]
    BY <1>0, <1>3 DEF SendIsLost, RunnerTypes
  <2>3. /\ RequestTypes' /\ holder' \in Table /\ req[r].at = "unsent"
        /\ \A q \in Requests : q # r => req'[q] = req[q]
    BY <2>1, <2>2, AsksIs DEF Places
  <2>4. ProxyTypes'
    <3>1. CASE timer' = Unset(c) /\ UNCHANGED <<budget, pending>>
      BY <1>0, <2>3, <3>1, UnsetIs DEF ProxyTypes
    <3>2. CASE ~(timer' = Unset(c) /\ UNCHANGED <<budget, pending>>)
      BY <1>3, <2>3, <3>2, SpendsIs DEF ProxyTypes, SendIsLost
    <3> QED BY <3>1, <3>2
  <2>5. Queues'
    BY <1>0, <2>1, <2>3, QueuesAround
  <2>6. RunnerTypes'
    BY <1>0, <1>3, <2>2 DEF SendIsLost, runner, review, history, RunnerTypes
  <2> QED BY <2>3, <2>4, <2>5, <2>6 DEF Typed
<1> QED BY <1>1, <1>2, <1>3

LEMMA TypedProxy ==
    ASSUME Typed, NEW r \in Requests,
           TimerMarks(r) \/ TimerWrites(r) \/ ReaderPops(r) \/ ReaderWrites(r)
    PROVE  Typed'
<1>0. Queues /\ RunnerTypes /\ ProxyTypes /\ RequestTypes
  BY DEF Typed
<1>1. RunnerTypes' /\ conn' = conn /\ queue' = queue
  BY <1>0 DEF RunnerTypes, TimerMarks, TimerWrites, ReaderPops, ReaderWrites, runner, review, history
<1>2. CASE TimerMarks(r) \/ TimerWrites(r)
  <2>1. req' = req /\ holder' = holder /\ pending' = pending /\ budget' = budget
    BY <1>2 DEF TimerMarks, TimerWrites
  <2>2. timer' \in [Requests -> {"none", "set", "marked", "fired"}]
    BY <1>0, <1>2 DEF ProxyTypes, TimerMarks, TimerWrites
  <2>3. RequestTypes' /\ Queues'
    BY <1>0, <1>1, <2>1 DEF RequestTypes, Queues, Line, Of
  <2> QED BY <1>0, <1>1, <2>1, <2>2, <2>3 DEF Typed, ProxyTypes
<1>3. CASE ReaderPops(r) \/ ReaderWrites(r)
  <2>1. PICK place \in {"popped", "done"} : Moves(r, place)
    BY <1>3 DEF ReaderPops, ReaderWrites
  <2>2. req[r].at \in {"back", "popped"}
    BY <1>3 DEF ReaderPops, ReaderWrites
  <2>3. /\ req' \in [Requests -> Request] /\ Kept /\ \A q \in Requests : q # r => req'[q] = req[q]
    BY <1>0, <2>1, <2>2, MoveIs DEF Places
  <2>4. RequestTypes'
    BY <1>0, <1>1, <2>3, RequestsStayTyped
  <2>5. Queues'
    BY <1>0, <1>1, <2>2, <2>3, QueuesStay
  <2>6. ProxyTypes'
    <3>1. holder' = holder /\ budget' = budget /\ timer' = timer
      BY <1>3 DEF ReaderPops, ReaderWrites
    <3>2. pending' = pending \/ pending' = [pending EXCEPT ![Of(r)][req[r].id] = None]
      BY <1>3 DEF ReaderPops, ReaderWrites
    <3>3. pending' \in Table
      BY <1>0, <3>2 DEF ProxyTypes, Table
    <3> QED BY <1>0, <3>1, <3>3 DEF ProxyTypes
  <2> QED BY <1>1, <2>4, <2>5, <2>6 DEF Typed
<1> QED BY <1>2, <1>3

LEMMA TypedConnection ==
    ASSUME Typed, NEW c \in Conns, Connect(c) \/ ClientCloses(c) \/ ProxyEnds(c)
    PROVE  Typed'
<1>0. Queues /\ RunnerTypes /\ ProxyTypes /\ RequestTypes
  BY DEF Typed
<1>1. req' = req /\ queue' = queue /\ holder' = holder /\ budget' = budget
  BY DEF Connect, ClientCloses, ProxyEnds, proxy
<1>2. RunnerTypes'
  <2>1. /\ conn' \in [Conns -> {"none", "open", "cut", "draining", "closed"}]
        /\ child' \in [Conns -> {"none", "up", "gone"}]
    BY <1>0 DEF RunnerTypes, Connect, ClientCloses, ProxyEnds
  <2>2. reading' \in [Conns -> BOOLEAN]
    BY <1>0 DEF RunnerTypes, Connect, ClientCloses, ProxyEnds
  <2>3. UNCHANGED <<inFlight, guard, supervisor, raced, crashes>>
    BY DEF Connect, ClientCloses, ProxyEnds, review, history
  <2> QED BY <1>0, <2>1, <2>2, <2>3 DEF RunnerTypes
<1>3. RequestTypes'
  <2>1. \A d \in Conns : conn[d] # "none" => conn'[d] # "none"
    BY <1>0 DEF RunnerTypes, Connect, ClientCloses, ProxyEnds
  <2> QED BY <1>0, <1>1, <2>1 DEF RequestTypes, Of
<1>4. ProxyTypes'
  <2>1. timer' \in [Requests -> {"none", "set", "marked", "fired"}]
    BY <1>0, UnsetIs DEF Connect, ClientCloses, ProxyEnds, ProxyTypes, proxy
  <2>2. pending' \in Table
    BY <1>0 DEF Connect, ClientCloses, ProxyEnds, ProxyTypes, Table, proxy
  <2> QED BY <1>0, <1>1, <2>1, <2>2 DEF ProxyTypes
<1>5. Queues'
  BY <1>0, <1>1 DEF Queues, Line, Of
<1> QED BY <1>2, <1>3, <1>4, <1>5 DEF Typed

LEMMA InQueue ==
    ASSUME Queues, NEW c \in Conns, NEW r, NEW place, IsHead(c, r, place)
    PROVE  /\ r \in Requests /\ req[r].at \in {"bridge", "admitted"} /\ req[r].at = place
           /\ queue[c] # <<>> /\ Head(queue[c]) = r /\ Of(r) = c
           /\ {queue[c][k] : k \in DOMAIN queue[c]} \in SUBSET Requests
           /\ \A q \in {queue[c][k] : k \in DOMAIN queue[c]} : req[q].at \in {"bridge", "admitted"}
           /\ r \in {queue[c][k] : k \in DOMAIN queue[c]}
<1>1. queue[c] \in Seq(Requests) /\ Line(c, queue[c]) /\ queue[c] # <<>>
  BY DEF Queues, IsHead
<1>2. 1 \in DOMAIN queue[c] /\ queue[c][1] = r /\ \A k \in DOMAIN queue[c] : queue[c][k] \in Requests
  BY <1>1 DEF IsHead
<1> QED BY <1>1, <1>2 DEF IsHead, Line

LEMMA BlockIs ==
    ASSUME Typed, NEW c \in Conns, NEW r \in Requests, Block(c, r)
    PROVE  /\ Typed' /\ Kept /\ req[r].at = "bridge" /\ req'[r].at \in {"back", "lost"}
           /\ \A q \in Requests : q # r => req'[q] = req[q]
<1>0. Queues /\ RunnerTypes /\ ProxyTypes /\ RequestTypes
  BY DEF Typed
<1>1. req[r].at = "bridge" /\ queue[c] # <<>> /\ Head(queue[c]) = r
  BY <1>0, InQueue DEF Block
<1> DEFINE place == IF Up(c) THEN "back" ELSE "lost"
<1>2. place \in Places \ {"unsent"} /\ place \in {"back", "lost"}
  BY DEF Places
<1>3. req' = [req EXCEPT ![r].at = place, ![r].answer = "held"]
  BY DEF Block
<1> HIDE DEF place
<1>4. /\ req' \in [Requests -> Request] /\ Kept /\ req'[r].at = place
      /\ \A q \in Requests : q # r => req'[q] = req[q]
  BY <1>0, <1>1, <1>2, <1>3, AnswerIs
<1>5. UNCHANGED <<runner, proxy, review, supervisor, crashes, history>>
  BY DEF Block
<1>6. RunnerTypes' /\ ProxyTypes'
  BY <1>0, <1>5 DEF RunnerTypes, ProxyTypes, runner, proxy, review, history
<1>7. RequestTypes'
  BY <1>0, <1>4, <1>5, RequestsStayTyped DEF runner
<1>8. Queues'
  <2>1. CASE Up(c)
    BY <1>0, <1>1, <1>4, <2>1, QueuePops DEF Block
  <2>2. CASE ~Up(c)
    <3>1. queue' = [queue EXCEPT ![c] = <<>>]
      BY <2>2 DEF Block
    <3>2. r \in {queue[c][k] : k \in DOMAIN queue[c]}
      BY <1>0, InQueue DEF Block
    <3> QED BY <1>0, <1>4, <3>1, <3>2, QueueEmpties
  <2> QED BY <2>1, <2>2
<1> QED BY <1>1, <1>2, <1>4, <1>6, <1>7, <1>8 DEF Typed

LEMMA AdmitIs ==
    ASSUME Typed, NEW c \in Conns, NEW r \in Requests, Admit(c, r)
    PROVE  /\ Typed' /\ Kept /\ req[r].at = "bridge" /\ req'[r].at = "admitted"
           /\ \A q \in Requests : q # r => req'[q] = req[q]
<1>0. Queues /\ RunnerTypes /\ ProxyTypes /\ RequestTypes
  BY DEF Typed
<1>1. req[r].at = "bridge" /\ Moves(r, "admitted")
  BY <1>0, InQueue DEF Admit
<1>2. /\ req' \in [Requests -> Request] /\ Kept /\ req'[r].at = "admitted"
      /\ \A q \in Requests : q # r => req'[q] = req[q]
  BY <1>0, <1>1, MoveIs DEF Places
<1>3. UNCHANGED <<runner, queue, proxy, review, supervisor, crashes, overtaken>>
  BY DEF Admit
<1>4. RunnerTypes'
  <2>1. raced' \in BOOLEAN
    BY <1>0 DEF Admit, RunnerTypes
  <2> QED BY <1>0, <1>3, <2>1 DEF RunnerTypes, runner, review
<1>5. ProxyTypes'
  BY <1>0, <1>3 DEF ProxyTypes, proxy
<1>6. RequestTypes'
  BY <1>0, <1>2, <1>3, RequestsStayTyped DEF runner
<1>7. Queues'
  BY <1>0, <1>1, <1>2, <1>3, QueuesStay
<1> QED BY <1>1, <1>2, <1>4, <1>5, <1>6, <1>7 DEF Typed

LEMMA ForwardIs ==
    ASSUME Typed, NEW c \in Conns, NEW r \in Requests, Forward(c, r)
    PROVE  /\ Typed' /\ Kept /\ req[r].at = "admitted" /\ req'[r].at \in {"server", "lost"}
           /\ \A q \in Requests : q # r =>
                req'[q] = req[q] \/ (req[q].at \in {"bridge", "admitted"} /\ req'[q].at = "lost")
           /\ \A d \in Conns : (conn[d] = "closed" <=> conn'[d] = "closed")
<1>0. Queues /\ RunnerTypes /\ ProxyTypes /\ RequestTypes
  BY DEF Typed
<1>1. /\ req[r].at = "admitted" /\ queue[c] # <<>> /\ Head(queue[c]) = r
      /\ {queue[c][k] : k \in DOMAIN queue[c]} \in SUBSET Requests
      /\ \A q \in {queue[c][k] : k \in DOMAIN queue[c]} : req[q].at \in {"bridge", "admitted"}
      /\ r \in {queue[c][k] : k \in DOMAIN queue[c]}
  BY <1>0, InQueue DEF Forward
<1>2. UNCHANGED <<child, reading, proxy, guard, supervisor, crashes, raced>>
  BY DEF Forward
<1>3. ProxyTypes'
  BY <1>0, <1>2 DEF ProxyTypes, proxy
<1>4. /\ \A d \in Conns : conn[d] # "none" => conn'[d] # "none"
      /\ \A d \in Conns : (conn[d] = "closed" <=> conn'[d] = "closed")
      /\ conn' \in [Conns -> {"none", "open", "cut", "draining", "closed"}]
  BY <1>0 DEF Forward, RunnerTypes
<1>5. RunnerTypes'
  <2>1. inFlight' \in BOOLEAN
    BY <1>0 DEF Forward, RunnerTypes
  <2> QED BY <1>0, <1>2, <1>4, <2>1 DEF RunnerTypes
<1>6. CASE child[c] = "up"
  <2>1. Moves(r, "server") /\ queue' = [queue EXCEPT ![c] = Tail(@)]
    BY <1>6 DEF Forward
  <2>2. /\ req' \in [Requests -> Request] /\ Kept /\ req'[r].at = "server"
        /\ \A q \in Requests : q # r => req'[q] = req[q]
    BY <1>0, <1>1, <2>1, MoveIs DEF Places
  <2>3. RequestTypes'
    BY <1>0, <1>4, <2>2, RequestsStayTyped
  <2>4. Queues'
    BY <1>0, <1>1, <2>1, <2>2, QueuePops
  <2> QED BY <1>1, <1>3, <1>4, <1>5, <2>2, <2>3, <2>4 DEF Typed
<1>7. CASE child[c] # "up"
  <2> DEFINE S == {queue[c][k] : k \in DOMAIN queue[c]}
  <2>1. /\ req' = [q \in Requests |-> IF q \in S THEN [req[q] EXCEPT !.at = "lost"] ELSE req[q]]
        /\ queue' = [queue EXCEPT ![c] = <<>>]
    BY <1>7 DEF Forward
  <2>2. S \in SUBSET Requests /\ (\A q \in S : req[q].at \in {"bridge", "admitted"}) /\ r \in S
    BY <1>1
  <2> HIDE DEF S
  <2>3. /\ req' \in [Requests -> Request] /\ Kept
        /\ \A q \in S : req'[q].at = "lost"
        /\ \A q \in Requests \ S : req'[q] = req[q]
    BY <1>0, <2>1, <2>2, LostIs
  <2>4. RequestTypes'
    BY <1>0, <1>4, <2>3, RequestsStayTyped
  <2>5. Queues'
    <3>1. \A q \in Requests : q \notin {queue[c][k] : k \in DOMAIN queue[c]} => req'[q] = req[q]
      BY <2>3 DEF S
    <3> QED BY <1>0, <2>1, <2>3, <3>1, QueueEmpties
  <2> QED BY <1>1, <1>3, <1>4, <1>5, <2>2, <2>3, <2>4, <2>5 DEF Typed
<1> QED BY <1>6, <1>7

LEMMA ExecuteIs ==
    ASSUME Typed, NEW r \in Requests, NEW answer \in {"review", "accepted", "other"},
           Execute(r, answer)
    PROVE  /\ Typed' /\ Kept /\ req[r].at = "server"
           /\ req'[r].at = "stdout" /\ req'[r].answer = answer
           /\ \A q \in Requests : q # r => req'[q] = req[q]
<1>0. Queues /\ RunnerTypes /\ ProxyTypes /\ RequestTypes
  BY DEF Typed
<1>1. /\ req[r].at = "server" /\ req' = [req EXCEPT ![r].at = "stdout", ![r].answer = answer]
      /\ UNCHANGED <<runner, queue, proxy, review, crashes, raced>>
  BY DEF Execute, Responds
<1>2. /\ req' \in [Requests -> Request] /\ Kept /\ req'[r].at = "stdout" /\ req'[r].answer = answer
      /\ \A q \in Requests : q # r => req'[q] = req[q]
  BY <1>0, <1>1, AnswerIs DEF Places
<1>3. RunnerTypes'
  <2>1. supervisor' \in BOOLEAN
    BY <1>0 DEF Execute, RunnerTypes
  <2> QED BY <1>0, <1>1, <2>1 DEF RunnerTypes, runner, review
<1>4. ProxyTypes' /\ conn' = conn
  BY <1>0, <1>1 DEF ProxyTypes, proxy, runner
<1>5. RequestTypes'
  BY <1>0, <1>2, <1>4, RequestsStayTyped
<1>6. Queues'
  BY <1>0, <1>1, <1>2, QueuesStay
<1> QED BY <1>1, <1>2, <1>3, <1>4, <1>5, <1>6 DEF Typed

LEMMA ChildEndsIs ==
    ASSUME Typed, NEW c \in Conns, ChildEnds(c)
    PROVE  /\ Typed' /\ Kept
           /\ \A q \in Requests :
                req'[q] = req[q] \/ (req[q].at = "server" /\ req'[q].at = "lost")
<1>0. Queues /\ RunnerTypes /\ ProxyTypes /\ RequestTypes
  BY DEF Typed
<1> DEFINE S == {r \in Requests : Of(r) = c /\ req[r].at = "server"}
<1>1. req' = [r \in Requests |-> IF r \in S THEN [req[r] EXCEPT !.at = "lost"] ELSE req[r]]
  BY DEF ChildEnds
<1>2. S \in SUBSET Requests /\ \A q \in S : req[q].at = "server"
  OBVIOUS
<1> HIDE DEF S
<1>3. /\ req' \in [Requests -> Request] /\ Kept
      /\ \A q \in S : req'[q].at = "lost"
      /\ \A q \in Requests \ S : req'[q] = req[q]
  BY <1>0, <1>1, <1>2, LostIs
<1>4. UNCHANGED <<conn, reading, queue, proxy, review, supervisor, history>>
  BY DEF ChildEnds
<1>5. RunnerTypes'
  <2>1. child' \in [Conns -> {"none", "up", "gone"}]
    BY <1>0 DEF ChildEnds, RunnerTypes
  <2>2. crashes' \in 0 .. MaxCrashes
    BY <1>0, BoundAssumption DEF ChildEnds, RunnerTypes
  <2> QED BY <1>0, <1>4, <2>1, <2>2 DEF RunnerTypes, review, history
<1>6. ProxyTypes'
  BY <1>0, <1>4 DEF ProxyTypes, proxy
<1>7. RequestTypes'
  BY <1>0, <1>3, <1>4, RequestsStayTyped
<1>8. Queues'
  <2>1. \A q \in Requests : req[q].at \in {"bridge", "admitted"} => req'[q].at \in {"bridge", "admitted"}
    BY <1>2, <1>3
  <2> QED BY <1>0, <1>3, <1>4, <2>1, QueuesStay
<1> QED BY <1>2, <1>3, <1>5, <1>6, <1>7, <1>8 DEF Typed

LEMMA PassesIs ==
    ASSUME Typed, NEW r \in Requests, Passes(r)
    PROVE  /\ Typed' /\ Kept /\ req[r].at = "stdout" /\ req'[r].at \in {"back", "lost"}
           /\ \A q \in Requests : q # r => req'[q] = req[q]
           /\ Of(r) \in Conns /\ reading[Of(r)]
           /\ reading' = [reading EXCEPT ![Of(r)] = Up(Of(r))]
<1>0. Queues /\ RunnerTypes /\ ProxyTypes /\ RequestTypes
  BY DEF Typed
<1> DEFINE place == IF Up(Of(r)) THEN "back" ELSE "lost"
<1>1. place \in Places \ {"unsent"} /\ place \in {"back", "lost"}
  BY DEF Places
<1>2. req[r].at = "stdout" /\ Moves(r, place)
  BY DEF Passes
<1> HIDE DEF place
<1>3. /\ req' \in [Requests -> Request] /\ Kept /\ req'[r].at = place
      /\ \A q \in Requests : q # r => req'[q] = req[q]
  BY <1>0, <1>1, <1>2, MoveIs
<1>4. /\ UNCHANGED <<conn, child, queue, proxy, supervisor, crashes, history>>
      /\ reading[Of(r)] /\ reading' = [reading EXCEPT ![Of(r)] = Up(Of(r))]
  BY DEF Passes
<1>5. RunnerTypes'
  <2>1. inFlight' \in BOOLEAN
    BY <1>0 DEF Passes, RunnerTypes
  <2>2. guard' \in BOOLEAN
    BY <1>0 DEF Passes, RunnerTypes
  <2>3. reading' \in [Conns -> BOOLEAN]
    <3>1. Up(Of(r)) \in BOOLEAN
      BY DEF Up, Live
    <3>2. \A b \in BOOLEAN : [reading EXCEPT ![Of(r)] = b] \in [Conns -> BOOLEAN]
      BY <1>0 DEF RunnerTypes
    <3> QED BY <1>4, <3>1, <3>2
  <2> QED BY <1>0, <1>4, <2>1, <2>2, <2>3 DEF RunnerTypes, history
<1>6. ProxyTypes'
  BY <1>0, <1>4 DEF ProxyTypes, proxy
<1>7. RequestTypes'
  BY <1>0, <1>3, <1>4, RequestsStayTyped
<1>8. Queues'
  BY <1>0, <1>2, <1>3, <1>4, QueuesStay
<1>9. Of(r) \in Conns
  BY <1>0, <1>2 DEF RequestTypes
<1> QED BY <1>1, <1>2, <1>3, <1>4, <1>5, <1>6, <1>7, <1>8, <1>9 DEF Typed

LEMMA TypedStep == Typed /\ [Next]_vars => Typed'
<1> SUFFICES ASSUME Typed, [Next]_vars PROVE Typed'
  OBVIOUS
<1>1. ASSUME NEW c \in Conns, Connect(c) \/ ClientCloses(c) \/ ProxyEnds(c) PROVE Typed'
  BY <1>1, TypedConnection
<1>2. ASSUME NEW c \in Conns, ChildEnds(c) PROVE Typed'
  BY <1>2, ChildEndsIs
<1>3. ASSUME NEW c \in Conns, NEW r \in Requests, Block(c, r) \/ Admit(c, r) \/ Forward(c, r)
      PROVE  Typed'
  BY <1>3, BlockIs, AdmitIs, ForwardIs
<1>4. ASSUME NEW c \in Conns, NEW r \in Requests, NEW kind \in Kinds, NEW i \in Ids,
             Send(r, kind, c, i) \/ SendDuplicate(r, kind, c, i) \/ SendIsLost(r, kind, c, i)
      PROVE  Typed'
  BY <1>4, TypedSends
<1>5. ASSUME NEW r \in Requests,
             TimerMarks(r) \/ TimerWrites(r) \/ ReaderPops(r) \/ ReaderWrites(r)
      PROVE  Typed'
  BY <1>5, TypedProxy
<1>6. ASSUME NEW r \in Requests, Passes(r) PROVE Typed'
  BY <1>6, PassesIs
<1>7. ASSUME NEW r \in Requests, NEW answer \in {"review", "accepted", "other"}, Execute(r, answer)
      PROVE  Typed'
  BY <1>7, ExecuteIs
<1>8. CASE UNCHANGED vars
  BY <1>8 DEF Typed, RequestTypes, RunnerTypes, ProxyTypes, Queues, Line, Of,
              vars, runner, proxy, review, history
<1> QED BY <1>1, <1>2, <1>3, <1>4, <1>5, <1>6, <1>7, <1>8 DEF Next

LEMMA TypedIsTypeOK == Typed => TypeOK
<1> SUFFICES ASSUME Typed PROVE TypeOK
  OBVIOUS
<1>1. \A r \in Requests :
         /\ req[r].kind \in Kinds /\ req[r].conn \in 0 .. MaxConns
         /\ req[r].at \in {"unsent", "bridge", "admitted", "server", "stdout", "back",
                           "popped", "done", "lost"}
         /\ timer[r] \in {"none", "set", "marked", "fired"}
  BY DEF Typed, RequestTypes, ProxyTypes, Request, Places
<1>2. \A c \in Conns : \A r \in {queue[c][k] : k \in DOMAIN queue[c]} :
         Of(r) = c /\ req[r].at \in {"bridge", "admitted"}
  BY DEF Typed, Queues, Line
<1>3. {inFlight, guard, supervisor, raced} \subseteq BOOLEAN
  BY DEF Typed, RunnerTypes
<1>4. /\ conn \in [Conns -> {"none", "open", "cut", "draining", "closed"}]
      /\ child \in [Conns -> {"none", "up", "gone"}]
      /\ budget \in 0 .. Budget /\ crashes \in 0 .. MaxCrashes
  BY DEF Typed, RunnerTypes, ProxyTypes
<1> QED BY <1>1, <1>2, <1>3, <1>4 DEF TypeOK

(* The fields of requests, queues, connections and flags keep their types, *)
(* and a bridge's queue holds lines of its own connection.                 *)
THEOREM BridgeIsTyped == Spec => []TypeOK
<1>1. Spec => []Typed
  BY TypedInit, TypedStep, PTL DEF Spec
<1> QED BY <1>1, TypedIsTypeOK, PTL
-----------------------------------------------------------------------------
(* Answers: the holder of an id gives it up only once it is answered, so a *)
(* request that is not answered still holds its id.  A request on its way  *)
(* has been answered only by its timer, which leaves it pending: its late  *)
(* answer is recognized.  A pending id has no other request on its way.    *)
OnTheWay == {"bridge", "admitted", "server", "stdout", "back"}
Active(r) == req[r].at \in OnTheWay
PendingFor(r) == req[r].at # "unsent" /\ pending[Of(r)][req[r].id] = r
Uses(q, c, i) == req[q].at # "unsent" /\ Of(q) = c /\ req[q].id = i

UnsentIs(r) == req[r].at = "unsent" => timer[r] = "none" /\ ~Answered(r)
Holds(r) == req[r].at # "unsent" /\ ~Answered(r) => Holder(r) = r
OnlyByTimer(r) ==
    Active(r) /\ conn[Of(r)] # "closed" =>
        /\ Answered(r) => timer[r] = "fired"
        /\ timer[r] \in {"marked", "fired"} => PendingFor(r)
PoppedIs(r) ==
    req[r].at = "popped" =>
        ~Answered(r) /\ timer[r] \notin {"marked", "fired"} /\ ~PendingFor(r)
TimerIs(r) ==
    timer[r] = "marked" \/ (timer[r] = "set" /\ PendingFor(r)) => ~Answered(r)
PendingIs(c, i) ==
    pending[c][i] # None =>
        /\ Uses(pending[c][i], c, i)
        /\ \A q \in Requests : Uses(q, c, i) /\ q # pending[c][i] => req[q].at \in {"done", "lost"}
AnswerInv ==
    /\ OneAnswer
    /\ \A r \in Requests :
         UnsentIs(r) /\ Holds(r) /\ OnlyByTimer(r) /\ PoppedIs(r) /\ TimerIs(r)
    /\ \A c \in Conns, i \in Ids : PendingIs(c, i)

LEMMA AnswerInit == Init => AnswerInv
<1> SUFFICES ASSUME Init PROVE AnswerInv
  OBVIOUS
<1>1. \A r \in Requests : req[r].at = "unsent" /\ timer[r] = "none" /\ ~Answered(r)
  BY DEF Init, Unsent, Answered
<1>2. \A c \in Conns, i \in Ids : PendingIs(c, i)
  BY DEF Init, PendingIs
<1>3. OneAnswer
  BY DEF Init, OneAnswer
<1> QED BY <1>1, <1>2, <1>3 DEF AnswerInv, UnsentIs, Holds, OnlyByTimer, PoppedIs, TimerIs, Active, OnTheWay

(* A step that only moves requests on their way.                           *)
LEMMA AnswersStay ==
    ASSUME Typed, AnswerInv, Kept, UNCHANGED proxy,
           \A c \in Conns : conn[c] = "closed" => conn'[c] = "closed",
           \A q \in Requests :
              req'[q].at = req[q].at \/ (Active(q) /\ req'[q].at \in OnTheWay \cup {"lost"})
    PROVE  AnswerInv'
<1>1. /\ holder' = holder /\ pending' = pending /\ timer' = timer /\ lines' = lines
      /\ \A q \in Requests : (Answered(q)' <=> Answered(q)) /\ Of(q)' = Of(q) /\ req'[q].id = req[q].id
      /\ \A q \in Requests : req[q].at # "unsent" => Of(q) \in Conns
  BY DEF proxy, Answered, Of, Kept, Typed, RequestTypes
<1>2. OneAnswer'
  BY <1>1 DEF AnswerInv, OneAnswer
<1>3. ASSUME NEW r \in Requests
      PROVE  (UnsentIs(r) /\ Holds(r) /\ OnlyByTimer(r) /\ PoppedIs(r) /\ TimerIs(r))'
  <2>0. UnsentIs(r) /\ Holds(r) /\ OnlyByTimer(r) /\ PoppedIs(r) /\ TimerIs(r)
    BY DEF AnswerInv
  <2>1. (PendingFor(r)' <=> PendingFor(r)) /\ Holder(r)' = Holder(r)
    BY <1>1 DEF PendingFor, Holder, Of, Kept
  <2>2. UnsentIs(r)' /\ Holds(r)'
    BY <1>1, <2>0, <2>1 DEF UnsentIs, Holds, Kept
  <2>3. OnlyByTimer(r)'
    <3>1. Active(r)' => Active(r)
      BY DEF Active, OnTheWay
    <3>2. Active(r) /\ conn'[Of(r)'] # "closed" => conn[Of(r)] # "closed"
      BY <1>1 DEF Active, OnTheWay
    <3> QED BY <1>1, <2>0, <2>1, <3>1, <3>2 DEF OnlyByTimer
  <2>4. PoppedIs(r)' /\ TimerIs(r)'
    BY <1>1, <2>0, <2>1 DEF PoppedIs, TimerIs, OnTheWay
  <2> QED BY <2>2, <2>3, <2>4
<1>4. ASSUME NEW c \in Conns, NEW i \in Ids PROVE PendingIs(c, i)'
  <2>1. PendingIs(c, i)
    BY DEF AnswerInv
  <2>2. \A q \in Requests : Uses(q, c, i)' <=> Uses(q, c, i)
    BY <1>1 DEF Uses, Kept, Of
  <2>3. pending[c][i] # None => pending[c][i] \in Requests
    BY DEF Typed, ProxyTypes, Table
  <2> QED BY <1>1, <2>1, <2>2, <2>3 DEF PendingIs, Active, OnTheWay
<1> QED BY <1>2, <1>3, <1>4 DEF AnswerInv

LEMMA LineAdded ==
    ASSUME OneAnswer, NEW r, NEW what, ~Answered(r), lines' = lines \cup {<<r, r, what>>}
    PROVE  OneAnswer' /\ \A q : Answered(q)' <=> Answered(q) \/ q = r
<1>1. \A line \in lines : line[1] = line[2] /\ line[2] # r
  BY DEF OneAnswer, Answered
<1>2. <<r, r, what>>[1] = r /\ <<r, r, what>>[2] = r
  OBVIOUS
<1> HIDE DEF Answered
<1>3. OneAnswer'
  BY <1>1, <1>2 DEF OneAnswer
<1>4. \A q : Answered(q)' <=> Answered(q) \/ q = r
  BY <1>2 DEF Answered
<1> QED BY <1>3, <1>4

(* The client asks again: what the id knew of before is answered and is    *)
(* not on its way, unless the request is refused.                          *)
LEMMA AnswerAsks ==
    ASSUME Typed, AnswerInv, NEW r \in Requests, NEW kind \in Kinds, NEW c \in Conns,
           NEW i \in Ids, NEW place \in {"bridge", "done", "lost"}, Asks(r, kind, c, i, place),
           req' \in [Requests -> Request], holder' \in Table, Live(c),
           req'[r].id = i, req'[r].conn = c, req'[r].at = place,
           \A q \in Requests : q # r => req'[q] = req[q],
           \A d \in Conns : conn[d] = "closed" => conn'[d] = "closed",
           Duplicate(c, i) => place = "done",
           IF place = "done" THEN lines' = lines \cup {<<r, r, "duplicate">>} ELSE lines' = lines,
           pending' = pending
              \/ (pending' = [pending EXCEPT ![c][i] = r] /\ ~Duplicate(c, i) /\ place # "done"),
           timer'[r] = "none" \/ (timer'[r] = "set" /\ place # "done"),
           \A q \in Requests : q # r =>
              timer'[q] = timer[q] \/ (timer[q] = "set" /\ timer'[q] = "none")
    PROVE  AnswerInv'
<1>0. /\ req \in [Requests -> Request] /\ pending \in Table /\ holder \in Table
      /\ req[r].at = "unsent" /\ ~Answered(r) /\ conn[c] # "closed"
      /\ \A q \in Requests : req[q].at # "unsent" => Of(q) \in Conns /\ req[q].id \in Ids
      /\ \A q \in Requests : req[q].at = "unsent" => Of(q) = 0
  BY DEF Typed, RequestTypes, ProxyTypes, Asks, AnswerInv, UnsentIs, Live
<1>1. OneAnswer' /\ \A q \in Requests : q # r => (Answered(q)' <=> Answered(q))
  <2>1. CASE place = "done"
    BY <1>0, <2>1, LineAdded DEF AnswerInv
  <2>2. CASE place # "done"
    BY <2>2 DEF AnswerInv, OneAnswer, Answered
  <2> QED BY <2>1, <2>2
<1>2. place # "done" => ~Answered(r)'
  BY <1>0 DEF Answered
<1>3. holder'[c][i] = r /\ \A d \in Conns, j \in Ids : ~(d = c /\ j = i) => holder'[d][j] = holder[d][j]
  BY <1>0 DEF Asks, Table
<1>4. /\ pending' # pending => pending'[c][i] = r /\ pending[c][i] = None /\ place # "done"
      /\ \A d \in Conns, j \in Ids : ~(d = c /\ j = i) => pending'[d][j] = pending[d][j]
  BY <1>0 DEF Table, Duplicate
<1>5. ASSUME NEW q \in Requests, q # r
      PROVE  (UnsentIs(q) /\ Holds(q) /\ OnlyByTimer(q) /\ PoppedIs(q) /\ TimerIs(q))'
  <2>0. /\ UnsentIs(q) /\ Holds(q) /\ OnlyByTimer(q) /\ PoppedIs(q) /\ TimerIs(q)
        /\ req'[q] = req[q] /\ Of(q)' = Of(q) /\ (Answered(q)' <=> Answered(q)) /\ q # None
        /\ timer'[q] = timer[q] \/ (timer[q] = "set" /\ timer'[q] = "none")
    BY <1>1, <1>5, NoneIs DEF AnswerInv, Of
  <2>1. PendingFor(q)' <=> PendingFor(q)
    BY <1>0, <1>4, <1>5, <2>0 DEF PendingFor, Of
  <2>2. UnsentIs(q)'
    BY <2>0 DEF UnsentIs
  <2>3. Holds(q)'
    <3>1. req[q].at # "unsent" /\ ~Answered(q) => ~(Of(q) = c /\ req[q].id = i)
      BY <2>0 DEF Holds, Holder, Asks
    <3> QED BY <1>0, <1>3, <2>0, <3>1 DEF Holds, Holder, Of
  <2>4. OnlyByTimer(q)'
    <3>1. Active(q)' => Active(q) /\ Of(q) \in Conns
      BY <1>0, <2>0 DEF Active, OnTheWay
    <3> QED BY <2>0, <2>1, <3>1 DEF OnlyByTimer
  <2>5. PoppedIs(q)' /\ TimerIs(q)'
    BY <2>0, <2>1 DEF PoppedIs, TimerIs
  <2> QED BY <2>2, <2>3, <2>4, <2>5
<1>6. (UnsentIs(r) /\ Holds(r) /\ OnlyByTimer(r) /\ PoppedIs(r) /\ TimerIs(r))'
  <2>1. Holder(r)' = r
    BY <1>3 DEF Holder, Of
  <2>2. UnsentIs(r)' /\ Holds(r)' /\ PoppedIs(r)'
    BY <2>1 DEF UnsentIs, Holds, PoppedIs
  <2>3. TimerIs(r)'
    BY <1>2 DEF TimerIs
  <2>4. OnlyByTimer(r)'
    <3>1. Active(r)' => place # "done"
      BY DEF Active, OnTheWay
    <3> QED BY <1>2, <3>1 DEF OnlyByTimer
  <2> QED BY <2>2, <2>3, <2>4
<1>7. ASSUME NEW d \in Conns, NEW j \in Ids PROVE PendingIs(d, j)'
  <2>0. PendingIs(d, j) /\ \A q \in Requests : q # r => (Uses(q, d, j)' <=> Uses(q, d, j))
    BY DEF AnswerInv, Uses, Of
  <2>1. CASE pending' # pending /\ d = c /\ j = i
    <3>1. Uses(r, c, i)' /\ pending'[c][i] = r
      BY <1>4, <2>1 DEF Uses, Of
    <3>2. ASSUME NEW q \in Requests, q # r, Uses(q, c, i) PROVE req[q].at \in {"done", "lost"}
      <4>1. ~PendingFor(q) /\ q # None /\ Of(q) = c /\ req[q].id = i /\ req[q].at # "unsent"
        BY <1>4, <2>1, <3>2, NoneIs DEF PendingFor, Uses
      <4>2. Answered(q)
        BY <4>1 DEF AnswerInv, Holds, Holder, Asks
      <4>3. ~Active(q)
        BY <1>0, <4>1, <4>2 DEF AnswerInv, OnlyByTimer
      <4>4. req[q].at # "popped"
        BY <4>2 DEF AnswerInv, PoppedIs
      <4>5. req[q].at \in Places
        BY <1>0 DEF Request
      <4> QED BY <4>1, <4>3, <4>4, <4>5 DEF Active, OnTheWay, Places
    <3> QED BY <2>0, <2>1, <3>1, <3>2 DEF PendingIs
  <2>2. CASE ~(pending' # pending /\ d = c /\ j = i)
    <3>1. pending'[d][j] = pending[d][j]
      BY <1>4, <2>2
    <3>2. pending[d][j] # None => pending[d][j] \in Requests /\ pending[d][j] # r
      BY <1>0, <2>0 DEF PendingIs, Uses, Table
    <3>3. pending[d][j] # None /\ Uses(r, d, j)' => place = "done"
      BY DEF Uses, Of, Duplicate
    <3> QED BY <2>0, <3>1, <3>2, <3>3 DEF PendingIs
  <2> QED BY <2>1, <2>2
<1> QED BY <1>1, <1>5, <1>6, <1>7 DEF AnswerInv

LEMMA AnswerSends ==
    ASSUME Typed, AnswerInv, NEW r \in Requests, NEW kind \in Kinds, NEW c \in Conns, NEW i \in Ids,
           Send(r, kind, c, i) \/ SendDuplicate(r, kind, c, i) \/ SendIsLost(r, kind, c, i)
    PROVE  AnswerInv'
<1>0. /\ RunnerTypes /\ ProxyTypes
      /\ \A q \in Requests : req[q].at = "unsent" => timer[q] = "none"
      /\ \A d \in Conns : conn[d] \in {"none", "open", "cut", "draining", "closed"}
  BY DEF Typed, RunnerTypes, AnswerInv, UnsentIs
<1>1. ASSUME NEW place \in {"bridge", "done", "lost"}, Asks(r, kind, c, i, place), Live(c),
             \A d \in Conns : conn[d] # "none" => conn'[d] # "none"
      PROVE  /\ req' \in [Requests -> Request] /\ holder' \in Table /\ req[r].at = "unsent"
             /\ req'[r].id = i /\ req'[r].conn = c /\ req'[r].at = place
             /\ \A q \in Requests : q # r => req'[q] = req[q]
  <2>1. conn[c] # "none" /\ place \in Places \ {"unsent"}
    BY <1>1 DEF Live, Places
  <2> QED BY <1>1, <2>1, AsksIs DEF RequestTypes
<1>2. CASE Send(r, kind, c, i)
  <2>1. /\ Asks(r, kind, c, i, "bridge") /\ Live(c) /\ conn' = conn /\ lines' = lines
        /\ ~Duplicate(c, i)
    BY <1>2 DEF Send, runner, Live
  <2>2. /\ req' \in [Requests -> Request] /\ holder' \in Table /\ req[r].at = "unsent"
        /\ req'[r].id = i /\ req'[r].conn = c /\ req'[r].at = "bridge"
        /\ \A q \in Requests : q # r => req'[q] = req[q]
    BY <1>1, <2>1
  <2>3. /\ pending' = pending \/ pending' = [pending EXCEPT ![c][i] = r]
        /\ timer'[r] \in {"none", "set"} /\ \A q \in Requests : q # r => timer'[q] = timer[q]
    BY <1>0, <1>2, <2>2 DEF Send, ProxyTypes
  <2> QED BY <2>1, <2>2, <2>3, AnswerAsks
<1>3. CASE SendDuplicate(r, kind, c, i)
  <2>1. /\ Asks(r, kind, c, i, "done") /\ Live(c) /\ conn' = conn
        /\ lines' = lines \cup {<<r, r, "duplicate">>}
        /\ pending' = pending /\ timer' = timer
    BY <1>3 DEF SendDuplicate, runner
  <2>2. /\ req' \in [Requests -> Request] /\ holder' \in Table /\ req[r].at = "unsent"
        /\ req'[r].id = i /\ req'[r].conn = c /\ req'[r].at = "done"
        /\ \A q \in Requests : q # r => req'[q] = req[q]
    BY <1>1, <2>1
  <2> QED BY <1>0, <2>1, <2>2, AnswerAsks
<1>4. CASE SendIsLost(r, kind, c, i)
  <2>1. /\ Asks(r, kind, c, i, "lost") /\ Live(c) /\ lines' = lines /\ ~Duplicate(c, i)
        /\ conn[c] = "cut" /\ (conn' = conn \/ conn' = [conn EXCEPT ![c] = "draining"])
    BY <1>4 DEF SendIsLost, Live
  <2>2. /\ \A d \in Conns : conn[d] # "none" => conn'[d] # "none"
        /\ \A d \in Conns : conn[d] = "closed" => conn'[d] = "closed"
    BY <1>0, <2>1 DEF RunnerTypes
  <2>3. /\ req' \in [Requests -> Request] /\ holder' \in Table /\ req[r].at = "unsent"
        /\ req'[r].id = i /\ req'[r].conn = c /\ req'[r].at = "lost"
        /\ \A q \in Requests : q # r => req'[q] = req[q]
    BY <1>1, <2>1, <2>2
  <2>4. /\ pending' = pending \/ pending' = [pending EXCEPT ![c][i] = r]
        /\ timer'[r] \in {"none", "set"}
        /\ \A q \in Requests : q # r =>
              timer'[q] = timer[q] \/ (timer[q] = "set" /\ timer'[q] = "none")
    <3>1. CASE timer' = Unset(c) /\ pending' = pending
      BY <1>0, <2>3, <3>1 DEF Unset
    <3>2. CASE ~(timer' = Unset(c) /\ pending' = pending)
      BY <1>0, <1>4, <2>3, <3>2 DEF SendIsLost, ProxyTypes
    <3> QED BY <3>1, <3>2
  <2> QED BY <2>1, <2>2, <2>3, <2>4, AnswerAsks
<1> QED BY <1>2, <1>3, <1>4

LEMMA AnswerTimer ==
    ASSUME Typed, AnswerInv, NEW r \in Requests, TimerMarks(r) \/ TimerWrites(r)
    PROVE  AnswerInv'
<1>0. /\ UnsentIs(r) /\ Holds(r) /\ OnlyByTimer(r) /\ PoppedIs(r) /\ TimerIs(r)
      /\ req' = req /\ conn' = conn /\ holder' = holder /\ pending' = pending
      /\ \A q \in Requests : q # r => timer'[q] = timer[q]
      /\ timer \in [Requests -> {"none", "set", "marked", "fired"}]
  BY DEF AnswerInv, TimerMarks, TimerWrites, runner, Typed, ProxyTypes
<1>1. \A c \in Conns, i \in Ids : PendingIs(c, i)'
  BY <1>0 DEF AnswerInv, PendingIs, Uses, Of
<1>2. CASE TimerMarks(r)
  <2>1. /\ timer[r] = "set" /\ req[r].at # "unsent" /\ PendingFor(r) /\ timer'[r] = "marked"
        /\ lines' = lines
    BY <1>0, <1>2 DEF TimerMarks, UnsentIs, StillPending, PendingFor
  <2>2. \A q \in Requests : (Answered(q)' <=> Answered(q)) /\ (PendingFor(q)' <=> PendingFor(q))
    BY <1>0, <2>1 DEF Answered, PendingFor, Of
  <2>3. ~Answered(r)
    BY <1>0, <2>1 DEF TimerIs
  <2>4. (UnsentIs(r) /\ Holds(r) /\ OnlyByTimer(r) /\ PoppedIs(r) /\ TimerIs(r))'
    BY <1>0, <2>1, <2>2, <2>3
       DEF UnsentIs, Holds, Holder, Of, OnlyByTimer, Active, PoppedIs, TimerIs
  <2>5. ASSUME NEW q \in Requests, q # r
        PROVE  (UnsentIs(q) /\ Holds(q) /\ OnlyByTimer(q) /\ PoppedIs(q) /\ TimerIs(q))'
    BY <1>0, <2>2, <2>5
       DEF AnswerInv, UnsentIs, Holds, Holder, Of, OnlyByTimer, Active, PoppedIs, TimerIs
  <2>6. OneAnswer'
    BY <2>1 DEF AnswerInv, OneAnswer
  <2> QED BY <1>1, <2>4, <2>5, <2>6 DEF AnswerInv
<1>3. CASE TimerWrites(r)
  <2>1. timer[r] = "marked" /\ ~Answered(r) /\ req[r].at # "unsent" /\ Holder(r) = r
    BY <1>0, <1>3 DEF TimerWrites, UnsentIs, TimerIs, Holds
  <2>2. lines' = lines \cup {<<r, r, "deadline">>} /\ timer'[r] = "fired"
    BY <1>0, <1>3, <2>1 DEF TimerWrites, Reads
  <2>3. OneAnswer' /\ \A q : Answered(q)' <=> Answered(q) \/ q = r
    BY <2>1, <2>2, LineAdded DEF AnswerInv
  <2>4. \A q \in Requests : PendingFor(q)' <=> PendingFor(q)
    BY <1>0 DEF PendingFor, Of
  <2>5. (UnsentIs(r) /\ Holds(r) /\ OnlyByTimer(r) /\ PoppedIs(r) /\ TimerIs(r))'
    BY <1>0, <2>1, <2>2, <2>3, <2>4
       DEF UnsentIs, Holds, Holder, Of, OnlyByTimer, Active, PoppedIs, TimerIs
  <2>6. ASSUME NEW q \in Requests, q # r
        PROVE  (UnsentIs(q) /\ Holds(q) /\ OnlyByTimer(q) /\ PoppedIs(q) /\ TimerIs(q))'
    BY <1>0, <2>3, <2>4, <2>6
       DEF AnswerInv, UnsentIs, Holds, Holder, Of, OnlyByTimer, Active, PoppedIs, TimerIs
  <2> QED BY <1>1, <2>3, <2>5, <2>6 DEF AnswerInv
<1> QED BY <1>2, <1>3

(* The reader pops what is pending under the id: the request's own deadline *)
(* or none.                                                                *)
LEMMA AnswerPops ==
    ASSUME Typed, AnswerInv, NEW r \in Requests, ReaderPops(r)
    PROVE  AnswerInv'
<1> DEFINE p == pending[Of(r)][req[r].id]
           place == IF p # None /\ TimedOut(p) THEN "done" ELSE "popped"
<1>0. /\ UnsentIs(r) /\ Holds(r) /\ OnlyByTimer(r) /\ PoppedIs(r) /\ TimerIs(r)
      /\ conn' = conn /\ holder' = holder /\ timer' = timer /\ lines' = lines
      /\ req[r].at = "back" /\ Of(r) \in Conns /\ req[r].id \in Ids /\ conn[Of(r)] # "closed"
      /\ pending \in Table
      /\ \A q \in Requests : req[q].at # "unsent" => Of(q) \in Conns /\ req[q].id \in Ids
  BY DEF AnswerInv, ReaderPops, runner, Typed, RequestTypes, ProxyTypes, Up, Live
<1>1. p = None \/ p = r
  BY <1>0 DEF AnswerInv, PendingIs, Uses
<1>2. /\ req' \in [Requests -> Request] /\ Kept /\ req'[r].at = place
      /\ \A q \in Requests : q # r => req'[q] = req[q]
  <2>1. Moves(r, place) /\ place \in Places \ {"unsent"} /\ RequestTypes
    BY DEF ReaderPops, Places, Typed
  <2> HIDE DEF place
  <2> QED BY <1>0, <2>1, MoveIs
<1>3. /\ pending'[Of(r)][req[r].id] = None
      /\ \A d \in Conns, j \in Ids : ~(d = Of(r) /\ j = req[r].id) => pending'[d][j] = pending[d][j]
  BY <1>0 DEF ReaderPops, Table
<1>4. ~PendingFor(r)' /\ \A q \in Requests : q # r => (PendingFor(q)' <=> PendingFor(q))
  <2>1. ~PendingFor(r)'
    BY <1>2, <1>3, NoneIs DEF PendingFor, Of, Kept
  <2>2. ASSUME NEW q \in Requests, q # r PROVE PendingFor(q)' <=> PendingFor(q)
    BY <1>0, <1>1, <1>2, <1>3, <2>2, NoneIs DEF PendingFor, Of
  <2> QED BY <2>1, <2>2
<1>5. place = "popped" => ~Answered(r) /\ timer[r] \notin {"marked", "fired"}
  <2>1. Active(r) /\ (PendingFor(r) <=> p = r)
    BY <1>0 DEF Active, OnTheWay, PendingFor
  <2>2. p = r => r # None
    BY NoneIs
  <2> QED BY <1>0, <2>1, <2>2 DEF OnlyByTimer, TimedOut
<1>6. place \in {"done", "popped"}
  OBVIOUS
<1> HIDE DEF p, place
<1>7. \A q : Answered(q)' <=> Answered(q)
  BY <1>0 DEF Answered
<1>8. (UnsentIs(r) /\ Holds(r) /\ OnlyByTimer(r) /\ PoppedIs(r) /\ TimerIs(r))'
  <2>1. UnsentIs(r)' /\ OnlyByTimer(r)'
    BY <1>2, <1>6 DEF UnsentIs, OnlyByTimer, Active, OnTheWay
  <2>2. Holds(r)'
    BY <1>0, <1>2, <1>7 DEF Holds, Holder, Of, Kept
  <2>3. PoppedIs(r)' /\ TimerIs(r)'
    BY <1>0, <1>2, <1>4, <1>5, <1>7 DEF PoppedIs, TimerIs
  <2> QED BY <2>1, <2>2, <2>3
<1>9. ASSUME NEW q \in Requests, q # r
      PROVE  (UnsentIs(q) /\ Holds(q) /\ OnlyByTimer(q) /\ PoppedIs(q) /\ TimerIs(q))'
  BY <1>0, <1>2, <1>4, <1>7, <1>9
     DEF AnswerInv, UnsentIs, Holds, Holder, Of, OnlyByTimer, Active, PoppedIs, TimerIs
<1>10. ASSUME NEW d \in Conns, NEW j \in Ids PROVE PendingIs(d, j)'
  <2>0. PendingIs(d, j) /\ \A q \in Requests : Uses(q, d, j)' <=> Uses(q, d, j)
    BY <1>2 DEF AnswerInv, Uses, Of, Kept
  <2>1. CASE d = Of(r) /\ j = req[r].id
    BY <1>3, <2>1 DEF PendingIs
  <2>2. CASE ~(d = Of(r) /\ j = req[r].id)
    <3>1. pending'[d][j] = pending[d][j] /\ ~Uses(r, d, j)
      BY <1>3, <2>2 DEF Uses
    <3>2. pending[d][j] # None => pending[d][j] \in Requests
      BY <1>0 DEF Table
    <3> QED BY <1>2, <2>0, <3>1, <3>2 DEF PendingIs
  <2> QED BY <2>1, <2>2
<1>11. OneAnswer'
  BY <1>0 DEF AnswerInv, OneAnswer
<1> QED BY <1>8, <1>9, <1>10, <1>11 DEF AnswerInv

LEMMA AnswerWrites ==
    ASSUME Typed, AnswerInv, NEW r \in Requests, ReaderWrites(r)
    PROVE  AnswerInv'
<1>0. /\ UnsentIs(r) /\ Holds(r) /\ PoppedIs(r) /\ TimerIs(r)
      /\ conn' = conn /\ holder' = holder /\ timer' = timer /\ pending' = pending
      /\ req[r].at = "popped" /\ Moves(r, "done") /\ RequestTypes /\ pending \in Table
  BY DEF AnswerInv, ReaderWrites, runner, Typed, ProxyTypes
<1>1. ~Answered(r) /\ ~PendingFor(r) /\ timer[r] \notin {"marked", "fired"} /\ Holder(r) = r
  BY <1>0 DEF PoppedIs, Holds
<1>2. /\ req' \in [Requests -> Request] /\ Kept /\ req'[r].at = "done"
      /\ \A q \in Requests : q # r => req'[q] = req[q]
  BY <1>0, MoveIs DEF Places
<1>3. OneAnswer' /\ \A q : Answered(q)' <=> Answered(q) \/ q = r
  BY <1>1, LineAdded DEF AnswerInv, ReaderWrites, Reads
<1>4. \A q \in Requests : PendingFor(q)' <=> PendingFor(q)
  BY <1>0, <1>2 DEF PendingFor, Of, Kept
<1>5. (UnsentIs(r) /\ Holds(r) /\ OnlyByTimer(r) /\ PoppedIs(r) /\ TimerIs(r))'
  BY <1>0, <1>1, <1>2, <1>3, <1>4
     DEF UnsentIs, Holds, OnlyByTimer, Active, OnTheWay, PoppedIs, TimerIs
<1>6. ASSUME NEW q \in Requests, q # r
      PROVE  (UnsentIs(q) /\ Holds(q) /\ OnlyByTimer(q) /\ PoppedIs(q) /\ TimerIs(q))'
  BY <1>0, <1>2, <1>3, <1>4, <1>6
     DEF AnswerInv, UnsentIs, Holds, Holder, Of, OnlyByTimer, Active, PoppedIs, TimerIs
<1>7. ASSUME NEW d \in Conns, NEW j \in Ids PROVE PendingIs(d, j)'
  <2>1. PendingIs(d, j) /\ \A q \in Requests : Uses(q, d, j)' <=> Uses(q, d, j)
    BY <1>2 DEF AnswerInv, Uses, Of, Kept
  <2>2. pending[d][j] # None => pending[d][j] \in Requests
    BY <1>0 DEF Table
  <2> QED BY <1>0, <1>2, <2>1, <2>2 DEF PendingIs
<1> QED BY <1>3, <1>5, <1>6, <1>7 DEF AnswerInv

LEMMA AnswerEnds ==
    ASSUME Typed, AnswerInv, NEW c \in Conns, ClientCloses(c) \/ ProxyEnds(c)
    PROVE  AnswerInv'
<1>0. /\ req' = req /\ holder' = holder /\ lines' = lines /\ pending \in Table
      /\ conn \in [Conns -> {"none", "open", "cut", "draining", "closed"}]
      /\ timer \in [Requests -> {"none", "set", "marked", "fired"}]
      /\ \A q \in Requests : req[q].at # "unsent" => Of(q) \in Conns /\ req[q].id \in Ids
      /\ \A q : Answered(q)' <=> Answered(q)
  BY DEF ClientCloses, ProxyEnds, Typed, RequestTypes, RunnerTypes, ProxyTypes, Answered
<1>1. OneAnswer'
  BY <1>0 DEF AnswerInv, OneAnswer
<1>2. CASE ClientCloses(c)
  <2>1. /\ pending' = pending /\ \A d \in Conns : conn[d] = "closed" => conn'[d] = "closed"
        /\ \A q \in Requests : timer'[q] = timer[q] \/ (timer[q] = "set" /\ timer'[q] = "none")
    BY <1>0, <1>2 DEF ClientCloses, Live, Unset
  <2>2. \A q \in Requests : PendingFor(q)' <=> PendingFor(q)
    BY <1>0, <2>1 DEF PendingFor, Of
  <2>3. ASSUME NEW q \in Requests
        PROVE  (UnsentIs(q) /\ Holds(q) /\ OnlyByTimer(q) /\ PoppedIs(q) /\ TimerIs(q))'
    <3>1. (UnsentIs(q) /\ Holds(q) /\ PoppedIs(q) /\ TimerIs(q))'
      BY <1>0, <2>1, <2>2 DEF AnswerInv, UnsentIs, Holds, Holder, Of, PoppedIs, TimerIs
    <3>2. OnlyByTimer(q)'
      <4>1. Active(q) /\ conn'[Of(q)] # "closed" => conn[Of(q)] # "closed"
        BY <1>0, <2>1 DEF Active, OnTheWay
      <4> QED BY <1>0, <2>1, <2>2, <4>1 DEF AnswerInv, OnlyByTimer, Active, Of
    <3> QED BY <3>1, <3>2
  <2>4. \A d \in Conns, j \in Ids : PendingIs(d, j)'
    BY <1>0, <2>1 DEF AnswerInv, PendingIs, Uses, Of
  <2> QED BY <1>1, <2>3, <2>4 DEF AnswerInv
<1>3. CASE ProxyEnds(c)
  <2>1. /\ timer' = timer /\ conn'[c] = "closed" /\ \A d \in Conns : d # c => conn'[d] = conn[d]
        /\ \A j \in Ids : pending'[c][j] = None
        /\ \A d \in Conns, j \in Ids : d # c => pending'[d][j] = pending[d][j]
    BY <1>0, <1>3 DEF ProxyEnds, Table
  <2>2. \A q \in Requests : PendingFor(q)' <=> PendingFor(q) /\ Of(q) # c
    BY <1>0, <2>1, NoneIs DEF PendingFor, Of
  <2>3. ASSUME NEW q \in Requests
        PROVE  (UnsentIs(q) /\ Holds(q) /\ OnlyByTimer(q) /\ PoppedIs(q) /\ TimerIs(q))'
    <3>1. (UnsentIs(q) /\ Holds(q) /\ PoppedIs(q) /\ TimerIs(q))'
      BY <1>0, <2>1, <2>2 DEF AnswerInv, UnsentIs, Holds, Holder, Of, PoppedIs, TimerIs
    <3>2. OnlyByTimer(q)'
      <4>1. Active(q) => Of(q) \in Conns
        BY <1>0 DEF Active, OnTheWay
      <4> QED BY <1>0, <2>1, <2>2, <4>1 DEF AnswerInv, OnlyByTimer, Active, Of
    <3> QED BY <3>1, <3>2
  <2>4. ASSUME NEW d \in Conns, NEW j \in Ids PROVE PendingIs(d, j)'
    <3>1. CASE d = c
      BY <2>1, <3>1 DEF PendingIs
    <3>2. CASE d # c
      BY <1>0, <2>1, <3>2 DEF AnswerInv, PendingIs, Uses, Of
    <3> QED BY <3>1, <3>2
  <2> QED BY <1>1, <2>3, <2>4 DEF AnswerInv
<1> QED BY <1>2, <1>3

LEMMA AnswerStep == Typed /\ AnswerInv /\ [Next]_vars => AnswerInv'
<1> SUFFICES ASSUME Typed, AnswerInv, [Next]_vars PROVE AnswerInv'
  OBVIOUS
<1>1. ASSUME NEW c \in Conns, Connect(c) PROVE AnswerInv'
  <2>1. /\ req' = req /\ UNCHANGED proxy /\ conn[c] = "none"
        /\ conn' = [conn EXCEPT ![c] = "open"]
    BY <1>1 DEF Connect
  <2>2. Kept /\ \A q \in Requests : req'[q].at = req[q].at
    BY <2>1 DEF Kept
  <2>3. \A d \in Conns : conn[d] = "closed" => conn'[d] = "closed"
    BY <2>1 DEF Typed, RunnerTypes
  <2> QED BY <2>1, <2>2, <2>3, AnswersStay
<1>2. ASSUME NEW c \in Conns, ClientCloses(c) \/ ProxyEnds(c) PROVE AnswerInv'
  BY <1>2, AnswerEnds
<1>3. ASSUME NEW c \in Conns, ChildEnds(c) PROVE AnswerInv'
  <2>1. UNCHANGED proxy /\ conn' = conn
    BY <1>3 DEF ChildEnds
  <2> QED BY <1>3, <2>1, ChildEndsIs, AnswersStay DEF Active, OnTheWay
<1>4. ASSUME NEW c \in Conns, NEW r \in Requests, Block(c, r) \/ Admit(c, r) PROVE AnswerInv'
  <2>1. UNCHANGED proxy /\ conn' = conn
    BY <1>4 DEF Block, Admit, runner
  <2> QED BY <1>4, <2>1, BlockIs, AdmitIs, AnswersStay DEF Active, OnTheWay
<1>5. ASSUME NEW c \in Conns, NEW r \in Requests, Forward(c, r) PROVE AnswerInv'
  <2>1. UNCHANGED proxy
    BY <1>5 DEF Forward
  <2> QED BY <1>5, <2>1, ForwardIs, AnswersStay DEF Active, OnTheWay
<1>6. ASSUME NEW c \in Conns, NEW r \in Requests, NEW kind \in Kinds, NEW i \in Ids,
             Send(r, kind, c, i) \/ SendDuplicate(r, kind, c, i) \/ SendIsLost(r, kind, c, i)
      PROVE  AnswerInv'
  BY <1>6, AnswerSends
<1>7. ASSUME NEW r \in Requests,
             TimerMarks(r) \/ TimerWrites(r) \/ ReaderPops(r) \/ ReaderWrites(r)
      PROVE  AnswerInv'
  BY <1>7, AnswerTimer, AnswerPops, AnswerWrites
<1>8. ASSUME NEW r \in Requests, Passes(r) PROVE AnswerInv'
  <2>1. UNCHANGED proxy /\ conn' = conn
    BY <1>8 DEF Passes
  <2> QED BY <1>8, <2>1, PassesIs, AnswersStay DEF Active, OnTheWay
<1>9. ASSUME NEW r \in Requests, NEW answer \in {"review", "accepted", "other"}, Execute(r, answer)
      PROVE  AnswerInv'
  <2>1. UNCHANGED proxy /\ conn' = conn
    BY <1>9 DEF Execute, runner
  <2> QED BY <1>9, <2>1, ExecuteIs, AnswersStay DEF Active, OnTheWay
<1>10. CASE UNCHANGED vars
  <2>1. UNCHANGED proxy /\ req' = req /\ conn' = conn
    BY <1>10 DEF vars, runner
  <2>2. Kept
    BY <2>1 DEF Kept
  <2> QED BY <2>1, <2>2, AnswersStay
<1> QED BY <1>1, <1>2, <1>3, <1>4, <1>5, <1>6, <1>7, <1>8, <1>9, <1>10 DEF Next

(* The client reads at most one line for a request, and only for the       *)
(* request that holds its id, whichever of timer, reader and refusal comes *)
(* first and however often the id is used again.                           *)
THEOREM EachRequestIsAnsweredOnce == Spec => []OneAnswer
<1>1. Init => Typed /\ AnswerInv
  BY TypedInit, AnswerInit
<1>2. Typed /\ AnswerInv /\ [Next]_vars => (Typed /\ AnswerInv)'
  BY TypedStep, AnswerStep
<1>3. Typed /\ AnswerInv => OneAnswer
  BY DEF AnswerInv
<1> QED BY <1>1, <1>2, <1>3, PTL DEF Spec
-----------------------------------------------------------------------------
(* Deadlines: a timer that is still to run finds its request pending, or   *)
(* the reader has taken over the answer of that request, not another's.    *)
Waits(r) == timer[r] = "set" /\ ~Answered(r) /\ Live(Of(r))
KeeperInv ==
    \A r \in Requests : Waits(r) => PendingFor(r) \/ req[r].at = "popped"

LEMMA KeeperInit == Init => KeeperInv
BY DEF Init, KeeperInv, Waits

(* A step that leaves a request's deadline, or ends it.                    *)
LEMMA KeeperStays ==
    ASSUME NEW r \in Requests, KeeperInv, Waits(r)' => Waits(r),
           Waits(r)' /\ PendingFor(r) => PendingFor(r)' \/ req'[r].at = "popped",
           Waits(r)' /\ req[r].at = "popped" => req'[r].at = "popped"
    PROVE  (Waits(r) => PendingFor(r) \/ req[r].at = "popped")'
BY DEF KeeperInv

LEMMA KeeperElsewhere ==
    ASSUME Typed, AnswerInv, KeeperInv, Kept, UNCHANGED proxy,
           \A c \in Conns : (Live(c))' => Live(c) \/ conn[c] = "none",
           \A q \in Requests : req[q].at = "popped" => req'[q].at = "popped"
    PROVE  KeeperInv'
<1> SUFFICES ASSUME NEW r \in Requests
             PROVE  (Waits(r) => PendingFor(r) \/ req[r].at = "popped")'
  BY DEF KeeperInv
<1>1. /\ timer' = timer /\ pending' = pending /\ lines' = lines
      /\ Of(r)' = Of(r) /\ req'[r].id = req[r].id
      /\ req[r].at = "unsent" <=> req'[r].at = "unsent"
  BY DEF proxy, Kept, Of
<1>2. (Answered(r)' <=> Answered(r)) /\ (PendingFor(r) => PendingFor(r)')
  BY <1>1 DEF Answered, PendingFor
<1>3. Waits(r)' => Waits(r)
  <2>1. req[r].at # "unsent" => Of(r) \in Conns /\ conn[Of(r)] # "none"
    BY DEF Typed, RequestTypes
  <2>2. CASE req[r].at = "unsent"
    BY <1>1, <2>2 DEF AnswerInv, UnsentIs, Waits
  <2>3. CASE req[r].at # "unsent"
    <3>1. Live(Of(r))' => Live(Of(r))
      BY <1>1, <2>1, <2>3 DEF Live
    <3> QED BY <1>1, <1>2, <3>1 DEF Waits
  <2> QED BY <2>2, <2>3
<1> QED BY <1>2, <1>3, KeeperStays

LEMMA KeeperSends ==
    ASSUME Typed, AnswerInv, KeeperInv, NEW r \in Requests, NEW kind \in Kinds,
           NEW c \in Conns, NEW i \in Ids,
           Send(r, kind, c, i) \/ SendDuplicate(r, kind, c, i) \/ SendIsLost(r, kind, c, i)
    PROVE  KeeperInv'
<1>0. /\ pending \in Table /\ timer \in [Requests -> {"none", "set", "marked", "fired"}]
      /\ \A d \in Conns : conn[d] \in {"none", "open", "cut", "draining", "closed"}
      /\ RunnerTypes /\ RequestTypes /\ r \notin {None}
  BY NoneIs DEF Typed, ProxyTypes, RunnerTypes
<1>1. PICK place \in {"bridge", "done", "lost"} : Asks(r, kind, c, i, place)
  BY DEF Send, SendDuplicate, SendIsLost
<1>2. /\ Live(c)
      /\ \A d \in Conns : (Live(d))' => Live(d)
      /\ \A d \in Conns : conn[d] # "none" => conn'[d] # "none"
  BY <1>0 DEF Send, SendDuplicate, SendIsLost, runner, Live, RunnerTypes
<1>3. /\ req[r].at = "unsent" /\ req'[r].at # "unsent" /\ Of(r)' = c /\ req'[r].id = i
      /\ \A q \in Requests : q # r => req'[q] = req[q]
  <2>1. conn[c] # "none" /\ place \in Places \ {"unsent"}
    BY <1>2 DEF Live, Places
  <2> QED BY <1>0, <1>1, <1>2, <2>1, AsksIs DEF Of
<1>4. timer[r] = "none" /\ lines \subseteq lines'
  BY <1>3 DEF AnswerInv, UnsentIs, Send, SendDuplicate, SendIsLost
<1>5. \/ UNCHANGED <<pending, timer>>
      \/ UNCHANGED pending /\ timer' = Unset(c)
      \/ /\ pending' = [pending EXCEPT ![c][i] = r] /\ timer' = [timer EXCEPT ![r] = "set"]
         /\ pending[c][i] = None
  BY DEF Send, SendDuplicate, SendIsLost, Duplicate
<1>6. ASSUME NEW q \in Requests, q # r
      PROVE  (Waits(q) => PendingFor(q) \/ req[q].at = "popped")'
  <2>1. req'[q] = req[q] /\ Of(q)' = Of(q) /\ q # None
    BY <1>3, <1>6, NoneIs DEF Of
  <2>2. timer'[q] = "set" => timer[q] = "set"
    BY <1>0, <1>5, <1>6 DEF Unset
  <2>3. Answered(q) => Answered(q)'
    BY <1>4 DEF Answered
  <2>4. CASE req[q].at = "unsent"
    BY <2>1, <2>2, <2>4 DEF AnswerInv, UnsentIs, Waits
  <2>5. CASE req[q].at # "unsent"
    <3>1. Of(q) \in Conns /\ req[q].id \in Ids
      BY <1>0, <2>5 DEF RequestTypes
    <3>2. PendingFor(q) => PendingFor(q)'
      BY <1>0, <1>5, <2>1, <3>1 DEF PendingFor, Table
    <3>3. Live(Of(q))' => Live(Of(q))
      BY <1>2, <2>1, <3>1 DEF Live
    <3>4. Waits(q)' => Waits(q)
      BY <2>2, <2>3, <3>3 DEF Waits
    <3> QED BY <2>1, <3>2, <3>4, KeeperStays
  <2> QED BY <2>4, <2>5
<1>7. (Waits(r) => PendingFor(r) \/ req[r].at = "popped")'
  <2>1. timer'[r] = "set" => pending'[c][i] = r
    BY <1>0, <1>4, <1>5 DEF Unset, Table
  <2> QED BY <1>3, <2>1 DEF Waits, PendingFor, Of
<1> QED BY <1>6, <1>7 DEF KeeperInv

LEMMA KeeperTimer ==
    ASSUME Typed, AnswerInv, KeeperInv, NEW r \in Requests,
           TimerMarks(r) \/ TimerWrites(r) \/ ReaderWrites(r)
    PROVE  KeeperInv'
<1>0. /\ conn' = conn /\ pending' = pending /\ lines \subseteq lines'
      /\ timer \in [Requests -> {"none", "set", "marked", "fired"}] /\ RequestTypes
  BY DEF TimerMarks, TimerWrites, ReaderWrites, Reads, runner, Typed, ProxyTypes
<1>1. \A q \in Requests : timer'[q] = "set" => timer[q] = "set"
  BY <1>0 DEF TimerMarks, TimerWrites, ReaderWrites
<1>2. \A q \in Requests : (Answered(q) => Answered(q)') /\ (Live(Of(q))' <=> Live(Of(q)'))
  BY <1>0 DEF Answered, Live
<1>3. CASE TimerMarks(r) \/ TimerWrites(r)
  <2>1. req' = req
    BY <1>3 DEF TimerMarks, TimerWrites
  <2>2. ASSUME NEW q \in Requests PROVE (Waits(q) => PendingFor(q) \/ req[q].at = "popped")'
    <3>1. (PendingFor(q)' <=> PendingFor(q)) /\ (Waits(q)' => Waits(q))
      BY <1>0, <1>1, <1>2, <2>1 DEF PendingFor, Waits, Of, Live
    <3> QED BY <2>1, <3>1, KeeperStays
  <2> QED BY <2>2 DEF KeeperInv
<1>4. CASE ReaderWrites(r)
  <2>1. req[r].at = "popped" /\ Moves(r, "done") /\ Reads(r, "answer")
    BY <1>4 DEF ReaderWrites
  <2>2. \A q \in Requests : q # r => req'[q] = req[q]
    BY <1>0, <2>1, MoveIs DEF Places
  <2>3. Answered(r)'
    <3>1. Holder(r) = r
      BY <2>1 DEF AnswerInv, PoppedIs, Holds
    <3>2. <<r, r, "answer">> \in lines' /\ <<r, r, "answer">>[2] = r
      BY <2>1, <3>1 DEF Reads
    <3> QED BY <3>2 DEF Answered
  <2>4. ASSUME NEW q \in Requests, q # r
        PROVE  (Waits(q) => PendingFor(q) \/ req[q].at = "popped")'
    <3>1. (PendingFor(q)' <=> PendingFor(q)) /\ (Waits(q)' => Waits(q)) /\ req'[q] = req[q]
      BY <1>0, <1>1, <1>2, <2>2, <2>4 DEF PendingFor, Waits, Of, Live
    <3> QED BY <3>1, KeeperStays
  <2> QED BY <2>3, <2>4 DEF KeeperInv, Waits
<1> QED BY <1>3, <1>4

(* What the reader pops is the deadline of the request whose answer it has *)
(* in hand, and it drops only an answer that its timer has marked.         *)
LEMMA KeeperPops ==
    ASSUME Typed, AnswerInv, KeeperInv, NEW r \in Requests, ReaderPops(r)
    PROVE  KeeperInv'
<1> DEFINE p == pending[Of(r)][req[r].id]
           place == IF p # None /\ TimedOut(p) THEN "done" ELSE "popped"
<1>0. /\ conn' = conn /\ timer' = timer /\ lines' = lines
      /\ req[r].at = "back" /\ Of(r) \in Conns /\ req[r].id \in Ids
      /\ pending \in Table /\ RequestTypes
      /\ \A q \in Requests : req[q].at # "unsent" => Of(q) \in Conns /\ req[q].id \in Ids
  BY DEF ReaderPops, runner, Typed, RequestTypes, ProxyTypes
<1>1. p = None \/ p = r
  BY <1>0 DEF AnswerInv, PendingIs, Uses
<1>2. /\ Kept /\ req'[r].at = place /\ \A q \in Requests : q # r => req'[q] = req[q]
  <2>1. Moves(r, place) /\ place \in Places \ {"unsent"}
    BY DEF ReaderPops, Places
  <2> HIDE DEF place
  <2> QED BY <1>0, <2>1, MoveIs
<1>3. \A d \in Conns, j \in Ids : ~(d = Of(r) /\ j = req[r].id) => pending'[d][j] = pending[d][j]
  BY <1>0 DEF ReaderPops, Table
<1>4. \A q \in Requests : (Answered(q)' <=> Answered(q)) /\ (Waits(q)' <=> Waits(q))
  BY <1>0, <1>2 DEF Answered, Waits, Live, Of, Kept
<1>5. ASSUME NEW q \in Requests, q # r
      PROVE  (Waits(q) => PendingFor(q) \/ req[q].at = "popped")'
  <2>1. PendingFor(q) => PendingFor(q)'
    BY <1>0, <1>1, <1>2, <1>3, <1>5, NoneIs DEF PendingFor, Of
  <2> QED BY <1>2, <1>4, <1>5, <2>1, KeeperStays
<1>6. (Waits(r) => PendingFor(r) \/ req[r].at = "popped")'
  <2>1. timer[r] = "set" => place = "popped"
    BY <1>1 DEF TimedOut
  <2>2. Waits(r)' => timer[r] = "set"
    BY <1>0 DEF Waits
  <2> QED BY <1>2, <2>1, <2>2
<1> QED BY <1>5, <1>6 DEF KeeperInv

LEMMA KeeperEnds ==
    ASSUME Typed, AnswerInv, KeeperInv, NEW c \in Conns, ClientCloses(c) \/ ProxyEnds(c)
    PROVE  KeeperInv'
<1>0. /\ req' = req /\ lines' = lines /\ pending \in Table
      /\ conn \in [Conns -> {"none", "open", "cut", "draining", "closed"}]
      /\ timer \in [Requests -> {"none", "set", "marked", "fired"}]
      /\ \A q \in Requests : req[q].at # "unsent" => Of(q) \in Conns /\ req[q].id \in Ids
  BY DEF ClientCloses, ProxyEnds, Typed, RequestTypes, RunnerTypes, ProxyTypes
<1>1. /\ \A d \in Conns : d # c => conn'[d] = conn[d] /\ pending'[d] = pending[d]
      /\ ~(Live(c))'
      /\ \A q \in Requests : timer'[q] = "set" => timer[q] = "set"
  BY <1>0 DEF ClientCloses, ProxyEnds, Live, Unset, Table
<1>2. ASSUME NEW q \in Requests PROVE (Waits(q) => PendingFor(q) \/ req[q].at = "popped")'
  <2>1. CASE req[q].at = "unsent"
    BY <1>1, <2>1 DEF AnswerInv, UnsentIs, Waits
  <2>2. CASE req[q].at # "unsent"
    <3>1. Of(q)' = Of(q) /\ Of(q) \in Conns /\ (Answered(q)' <=> Answered(q))
      BY <1>0, <2>2 DEF Of, Answered
    <3>2. CASE Of(q) = c
      BY <1>1, <3>1, <3>2 DEF Waits, Live
    <3>3. CASE Of(q) # c
      <4>1. (PendingFor(q)' <=> PendingFor(q)) /\ (Live(Of(q))' <=> Live(Of(q)))
        BY <1>0, <1>1, <3>1, <3>3 DEF PendingFor, Live
      <4>2. Waits(q)' => Waits(q)
        BY <1>1, <3>1, <4>1 DEF Waits
      <4> QED BY <1>0, <4>1, <4>2, KeeperStays
    <3> QED BY <3>2, <3>3
  <2> QED BY <2>1, <2>2
<1> QED BY <1>2 DEF KeeperInv

LEMMA KeeperStep == Typed /\ AnswerInv /\ KeeperInv /\ [Next]_vars => KeeperInv'
<1> SUFFICES ASSUME Typed, AnswerInv, KeeperInv, [Next]_vars PROVE KeeperInv'
  OBVIOUS
<1>1. ASSUME NEW c \in Conns, Connect(c) PROVE KeeperInv'
  <2>1. /\ req' = req /\ UNCHANGED proxy /\ conn[c] = "none"
        /\ conn' = [conn EXCEPT ![c] = "open"]
    BY <1>1 DEF Connect
  <2>2. Kept /\ \A q \in Requests : req'[q].at = req[q].at
    BY <2>1 DEF Kept
  <2>3. \A d \in Conns : (Live(d))' => Live(d) \/ conn[d] = "none"
    BY <2>1 DEF Typed, RunnerTypes, Live
  <2> QED BY <2>1, <2>2, <2>3, KeeperElsewhere
<1>2. ASSUME NEW c \in Conns, ClientCloses(c) \/ ProxyEnds(c) PROVE KeeperInv'
  BY <1>2, KeeperEnds
<1>3. ASSUME NEW c \in Conns, ChildEnds(c) PROVE KeeperInv'
  <2>1. UNCHANGED proxy /\ conn' = conn
    BY <1>3 DEF ChildEnds
  <2> QED BY <1>3, <2>1, ChildEndsIs, KeeperElsewhere DEF Live
<1>4. ASSUME NEW c \in Conns, NEW r \in Requests, Block(c, r) \/ Admit(c, r) PROVE KeeperInv'
  <2>1. UNCHANGED proxy /\ conn' = conn
    BY <1>4 DEF Block, Admit, runner
  <2> QED BY <1>4, <2>1, BlockIs, AdmitIs, KeeperElsewhere DEF Live
<1>5. ASSUME NEW c \in Conns, NEW r \in Requests, Forward(c, r) PROVE KeeperInv'
  <2>1. UNCHANGED proxy /\ \A d \in Conns : (Live(d))' => Live(d)
    BY <1>5 DEF Forward, Live, Typed, RunnerTypes
  <2> QED BY <1>5, <2>1, ForwardIs, KeeperElsewhere
<1>6. ASSUME NEW c \in Conns, NEW r \in Requests, NEW kind \in Kinds, NEW i \in Ids,
             Send(r, kind, c, i) \/ SendDuplicate(r, kind, c, i) \/ SendIsLost(r, kind, c, i)
      PROVE  KeeperInv'
  BY <1>6, KeeperSends
<1>7. ASSUME NEW r \in Requests,
             TimerMarks(r) \/ TimerWrites(r) \/ ReaderPops(r) \/ ReaderWrites(r)
      PROVE  KeeperInv'
  BY <1>7, KeeperTimer, KeeperPops
<1>8. ASSUME NEW r \in Requests, Passes(r) PROVE KeeperInv'
  <2>1. UNCHANGED proxy /\ conn' = conn
    BY <1>8 DEF Passes
  <2> QED BY <1>8, <2>1, PassesIs, KeeperElsewhere DEF Live
<1>9. ASSUME NEW r \in Requests, NEW answer \in {"review", "accepted", "other"}, Execute(r, answer)
      PROVE  KeeperInv'
  <2>1. UNCHANGED proxy /\ conn' = conn
    BY <1>9 DEF Execute, runner
  <2> QED BY <1>9, <2>1, ExecuteIs, KeeperElsewhere DEF Live
<1>10. CASE UNCHANGED vars
  <2>1. UNCHANGED proxy /\ req' = req /\ conn' = conn
    BY <1>10 DEF vars, runner
  <2>2. Kept
    BY <2>1 DEF Kept
  <2> QED BY <2>1, <2>2, KeeperElsewhere DEF Live
<1> QED BY <1>1, <1>2, <1>3, <1>4, <1>5, <1>6, <1>7, <1>8, <1>9, <1>10 DEF Next

(* Whatever the reader, the timers, a refused id and a restart of the      *)
(* proxy do to one another, an injected deadline that the client still     *)
(* waits for is in the hands of a thread that will answer it.              *)
THEOREM DeadlinesAreNotDropped == Spec => []DeadlineHasAKeeper
<1>1. Init => Typed /\ AnswerInv /\ KeeperInv
  BY TypedInit, AnswerInit, KeeperInit
<1>2. Typed /\ AnswerInv /\ KeeperInv /\ [Next]_vars => (Typed /\ AnswerInv /\ KeeperInv)'
  BY TypedStep, AnswerStep, KeeperStep
<1>3. KeeperInv => DeadlineHasAKeeper
  BY DEF KeeperInv, Waits, PendingFor, DeadlineHasAKeeper, Outstanding, StillPending
<1> QED BY <1>1, <1>2, <1>3, PTL DEF Spec

(* So no race of the timers, the reader and the main thread gives a client *)
(* two answers, the answer of another request, or none where a deadline    *)
(* was injected that somebody still had to meet.                           *)
THEOREM RacesKeepTheAnswers == Spec => []AnswersSurviveRaces
BY EachRequestIsAnsweredOnce, DeadlinesAreNotDropped, PTL DEF AnswersSurviveRaces
-----------------------------------------------------------------------------
(* Review: until two captures race, one is on its way at a time.  From the *)
(* moment the supervisor waits for a review to the moment the bridge sees  *)
(* it accepted, the guard is set or the capture's answer is still to be    *)
(* read and the next call is held by the capture in flight.  Whatever the  *)
(* bridge has let through and holds no more was decided before that.       *)
Accepts(r) == /\ req[r].kind = "report" /\ req[r].at = "stdout" /\ req[r].answer = "accepted"
              /\ reading[Of(r)]
Awaiting(r) == req[r].at = "stdout" /\ req[r].answer = "review"
InHand(r) == OnItsWay(r) /\ req[r].at # "admitted"
Decided(r) == LetThrough(r) /\ req[r].kind = "act"
Held == guard \/ (inFlight /\ \A q \in Requests : OnItsWay(q) => Awaiting(q))
ReviewInv == ~raced =>
    /\ \A q, r \in Requests : OnItsWay(q) /\ OnItsWay(r) => q = r
    /\ guard => \A q \in Requests : ~OnItsWay(q)
    /\ supervisor => Held
    /\ \A r \in Requests : Accepts(r) => Held /\ ~supervisor
    /\ \A q, r \in Requests : Accepts(q) /\ Accepts(r) => q = r
    /\ \A r \in Requests : InHand(r) => inFlight
    /\ inFlight \/ guard => \A r \in Requests : Decided(r) => r \in overtaken

LEMMA ReviewInit == Init => ReviewInv
<1> SUFFICES ASSUME Init PROVE ReviewInv
  OBVIOUS
<1>1. \A r \in Requests : req[r].at = "unsent" /\ req[r].kind = "act"
  BY DEF Init, Unsent
<1> QED BY <1>1 DEF Init, ReviewInv, OnItsWay, InHand, Decided, LetThrough, Accepts

(* A step that puts no call on its way and changes no flag.                *)
LEMMA ReviewShrinks ==
    ASSUME Typed, ReviewInv, UNCHANGED <<review, supervisor, history>>,
           \A q \in Requests :
              \/ req'[q] = req[q]
              \/ req'[q].at \notin {"admitted", "server", "stdout"},
           \A q \in Requests : req[q].at = "stdout" => (reading'[Of(q)] => reading[Of(q)])
    PROVE  ReviewInv'
<1> SUFFICES ASSUME ~raced PROVE ReviewInv'
  BY DEF ReviewInv, history
<1>1. ASSUME NEW q \in Requests
      PROVE  /\ OnItsWay(q)' => OnItsWay(q) /\ req'[q] = req[q]
             /\ Accepts(q)' => Accepts(q)
             /\ (InHand(q)' => InHand(q)) /\ (Decided(q)' => Decided(q))
  BY DEF OnItsWay, InHand, Decided, LetThrough, Accepts, Of
<1>2. UNCHANGED <<inFlight, guard, supervisor, raced, overtaken>>
  BY DEF review, history
<1>3. Held => Held'
  BY <1>1, <1>2 DEF Held, Awaiting
<1> QED BY <1>1, <1>2, <1>3 DEF ReviewInv

LEMMA ReviewAdmit ==
    ASSUME Typed, ReviewInv, NEW c \in Conns, NEW r \in Requests, Admit(c, r)
    PROVE  ReviewInv'
<1> SUFFICES ASSUME ~raced' PROVE ReviewInv'
  BY DEF ReviewInv
<1>0. /\ ~raced
      /\ req[r].kind = "capture" => \A q \in Requests : ~OnItsWay(q)
      /\ ~inFlight /\ (guard => req[r].kind = "report")
      /\ reading' = reading /\ inFlight' = inFlight /\ guard' = guard /\ supervisor' = supervisor
      /\ req[r].kind \in Kinds
  BY DEF Admit, Blocked, ReviewInv, runner, review, Typed, RequestTypes, Request, Kinds
<1>1. /\ Kept /\ req[r].at = "bridge" /\ req'[r].at = "admitted"
      /\ \A q \in Requests : q # r => req'[q] = req[q]
  BY AdmitIs
<1>2. ASSUME NEW q \in Requests
      PROVE  /\ OnItsWay(q)' => OnItsWay(q) \/ (q = r /\ req[r].kind = "capture")
             /\ Accepts(q)' => Accepts(q)
             /\ InHand(q)' => InHand(q)
             /\ Decided(q)' => Decided(q) \/ (q = r /\ req[r].kind = "act")
  BY <1>0, <1>1 DEF OnItsWay, InHand, Decided, LetThrough, Accepts, Of, Kept
<1>3. Held => guard
  BY <1>0 DEF Held
<1>4. overtaken' = overtaken
  BY DEF Admit
<1>5. guard => Held'
  BY <1>0 DEF Held
<1> QED BY <1>0, <1>2, <1>3, <1>4, <1>5 DEF ReviewInv

LEMMA ReviewForward ==
    ASSUME Typed, ReviewInv, NEW c \in Conns, NEW r \in Requests, Forward(c, r)
    PROVE  ReviewInv'
<1> SUFFICES ASSUME ~raced PROVE ReviewInv'
  BY DEF ReviewInv, Forward
<1>0. /\ reading' = reading /\ guard' = guard /\ supervisor' = supervisor
      /\ raced' = raced /\ inFlight' = (inFlight \/ req[r].kind = "capture")
      /\ overtaken' = IF req[r].kind = "capture"
                      THEN {q \in Requests \ {r} : LetThrough(q)} ELSE overtaken
  BY DEF Forward
<1>1. /\ Kept /\ req[r].at = "admitted" /\ req'[r].at \in {"server", "lost"}
      /\ \A q \in Requests : q # r =>
            req'[q] = req[q] \/ (req[q].at \in {"bridge", "admitted"} /\ req'[q].at = "lost")
  BY ForwardIs
<1>2. ASSUME NEW q \in Requests
      PROVE  /\ OnItsWay(q)' => OnItsWay(q)
             /\ Accepts(q)' => Accepts(q)
             /\ Awaiting(q) => Awaiting(q)'
             /\ InHand(q)' => InHand(q) \/ req[r].kind = "capture"
             /\ Decided(q)' => Decided(q)
  BY <1>0, <1>1 DEF OnItsWay, InHand, Decided, LetThrough, Accepts, Awaiting, Of, Kept
<1>3. Held => Held'
  BY <1>0, <1>2 DEF Held
<1>4. inFlight' \/ guard' => \A q \in Requests : Decided(q)' => q \in overtaken'
  <2>1. CASE req[r].kind = "capture"
    BY <1>0, <1>2, <2>1 DEF Decided
  <2>2. CASE req[r].kind # "capture"
    BY <1>0, <1>2, <2>2 DEF ReviewInv
  <2> QED BY <2>1, <2>2
<1> QED BY <1>0, <1>2, <1>3, <1>4 DEF ReviewInv

LEMMA ReviewExecute ==
    ASSUME Typed, ReviewInv, NEW r \in Requests, NEW answer \in {"review", "accepted", "other"},
           Execute(r, answer)
    PROVE  ReviewInv'
<1> SUFFICES ASSUME ~raced PROVE ReviewInv'
  BY DEF ReviewInv, Execute
<1>0. /\ reading' = reading /\ guard' = guard /\ inFlight' = inFlight
      /\ raced' = raced /\ overtaken' = overtaken \ {r}
  BY DEF Execute, runner, review
<1>1. /\ Kept /\ req[r].at = "server" /\ req'[r].at = "stdout" /\ req'[r].answer = answer
      /\ \A q \in Requests : q # r => req'[q] = req[q]
  BY ExecuteIs
<1>2. ASSUME NEW q \in Requests
      PROVE  /\ OnItsWay(q)' => OnItsWay(q)
             /\ q # r => (Accepts(q)' <=> Accepts(q)) /\ (Awaiting(q)' <=> Awaiting(q))
             /\ InHand(q)' => InHand(q)
             /\ Decided(q)' => Decided(q) /\ q # r
  BY <1>0, <1>1 DEF OnItsWay, InHand, Decided, LetThrough, Accepts, Awaiting, Of, Kept
<1>3. CASE answer = "other" /\ UNCHANGED supervisor
  <2>1. ~Accepts(r)'
    BY <1>1, <1>3 DEF Accepts
  <2>2. Held => Held'
    BY <1>0, <1>1, <1>2 DEF Held, Awaiting
  <2> QED BY <1>0, <1>2, <1>3, <2>1, <2>2 DEF ReviewInv
<1>4. CASE req[r].kind = "capture" /\ answer = "review" /\ supervisor' = TRUE
  <2>1. OnItsWay(r) /\ InHand(r) /\ ~Awaiting(r)
    BY <1>1, <1>4 DEF OnItsWay, InHand, Awaiting
  <2>2. ~guard /\ inFlight /\ ~Held /\ \A q \in Requests : OnItsWay(q) => q = r
    BY <1>1, <1>4, <2>1 DEF ReviewInv, Held
  <2>3. \A q \in Requests : ~Accepts(q)'
    <3>1. \A q \in Requests : ~Accepts(q)
      BY <2>2 DEF ReviewInv
    <3>2. ~Accepts(r)'
      BY <1>1, <1>4 DEF Accepts
    <3> QED BY <1>2, <3>1, <3>2
  <2>4. Held'
    BY <1>0, <1>1, <1>2, <1>4, <2>2 DEF Held, Awaiting
  <2> QED BY <1>0, <1>2, <2>2, <2>3, <2>4 DEF ReviewInv
<1>5. CASE req[r].kind = "report" /\ answer = "accepted" /\ supervisor /\ supervisor' = FALSE
  <2>1. Held /\ \A q \in Requests : ~Accepts(q)
    BY <1>5 DEF ReviewInv
  <2>2. \A q \in Requests : Accepts(q)' => q = r
    BY <1>2, <2>1
  <2>3. ~OnItsWay(r) /\ ~OnItsWay(r)'
    BY <1>1, <1>5 DEF OnItsWay, Kept
  <2>4. Held'
    BY <1>0, <1>2, <2>1, <2>3 DEF Held
  <2> QED BY <1>0, <1>2, <1>5, <2>2, <2>4 DEF ReviewInv
<1> QED BY <1>3, <1>4, <1>5 DEF Execute

LEMMA ReviewPasses ==
    ASSUME Typed, ReviewInv, NEW r \in Requests, Passes(r)
    PROVE  ReviewInv'
<1> SUFFICES ASSUME ~raced PROVE ReviewInv'
  BY DEF ReviewInv, Passes, history
<1>0. /\ supervisor' = supervisor /\ raced' = raced /\ overtaken' = overtaken
      /\ inFlight' = (inFlight /\ req[r].kind # "capture")
  BY DEF Passes, history
<1>1. /\ Kept /\ req[r].at = "stdout" /\ req'[r].at \in {"back", "lost"}
      /\ \A q \in Requests : q # r => req'[q] = req[q]
      /\ reading[Of(r)]
  BY PassesIs
<1>2. \A c \in Conns : reading'[c] => reading[c]
  <2>1. \A b \in BOOLEAN : \A c \in Conns :
           reading[Of(r)] /\ [reading EXCEPT ![Of(r)] = b][c] => reading[c]
    BY DEF Typed, RunnerTypes
  <2>2. reading' = [reading EXCEPT ![Of(r)] = Up(Of(r))] /\ Up(Of(r)) \in BOOLEAN
    BY PassesIs DEF Up, Live
  <2> QED BY <1>1, <2>1, <2>2
<1>3. ASSUME NEW q \in Requests
      PROVE  /\ OnItsWay(q)' => OnItsWay(q) /\ q # r
             /\ Accepts(q)' => Accepts(q) /\ q # r
             /\ q # r => (Awaiting(q)' <=> Awaiting(q))
             /\ (InHand(q)' => InHand(q)) /\ (Decided(q)' => Decided(q))
  <2>1. req[q].at = "stdout" => Of(q) \in Conns
    BY DEF Typed, RequestTypes
  <2> QED BY <1>1, <1>2, <2>1 DEF OnItsWay, InHand, Decided, LetThrough, Accepts, Awaiting, Of, Kept
<1>4. CASE req[r].kind = "capture"
  <2>1. OnItsWay(r) /\ \A q \in Requests : OnItsWay(q) => q = r
    BY <1>1, <1>4 DEF OnItsWay, ReviewInv
  <2>2. \A q \in Requests : ~OnItsWay(q)'
    BY <1>3, <2>1
  <2>3. Held => guard'
    <3>1. guard => guard'
      BY <1>4 DEF Passes
    <3>2. Awaiting(r) => guard'
      BY <1>4 DEF Passes, Awaiting
    <3> QED BY <2>1, <3>1, <3>2 DEF Held
  <2>4. inFlight /\ \A q \in Requests : ~InHand(q)'
    BY <1>1, <1>4, <2>1, <2>2 DEF ReviewInv, InHand, OnItsWay
  <2>5. Held => Held'
    BY <2>3 DEF Held
  <2> QED BY <1>0, <1>3, <2>2, <2>4, <2>5 DEF ReviewInv
<1>5. CASE Accepts(r)
  <2>1. ~supervisor /\ \A q \in Requests : ~Accepts(q)'
    BY <1>3, <1>5 DEF ReviewInv
  <2>2. guard' = FALSE /\ req[r].kind # "capture"
    BY <1>5 DEF Passes, Accepts
  <2> QED BY <1>0, <1>3, <2>1, <2>2 DEF ReviewInv
<1>6. CASE req[r].kind # "capture" /\ ~Accepts(r)
  <2>1. guard' = guard /\ inFlight' = inFlight
    <3>1. ~(req[r].kind = "report" /\ req[r].answer = "accepted")
      BY <1>1, <1>6 DEF Accepts
    <3>2. guard' = guard
      BY <1>6, <3>1 DEF Passes
    <3>3. inFlight \in BOOLEAN
      BY DEF Typed, RunnerTypes
    <3> QED BY <1>0, <1>6, <3>2, <3>3
  <2>2. Held => Held'
    BY <1>3, <2>1 DEF Held
  <2> QED BY <1>0, <1>3, <2>1, <2>2 DEF ReviewInv
<1> QED BY <1>4, <1>5, <1>6

LEMMA ReviewStep == Typed /\ ReviewInv /\ [Next]_vars => ReviewInv'
<1> SUFFICES ASSUME Typed, ReviewInv, [Next]_vars PROVE ReviewInv'
  OBVIOUS
<1>1. ASSUME NEW c \in Conns, Connect(c) PROVE ReviewInv'
  <2>1. /\ UNCHANGED <<review, supervisor, history>> /\ req' = req /\ conn[c] = "none"
        /\ reading' = [reading EXCEPT ![c] = TRUE]
    BY <1>1 DEF Connect
  <2>2. \A q \in Requests : req[q].at = "stdout" => (reading'[Of(q)] => reading[Of(q)])
    BY <2>1 DEF Typed, RequestTypes, RunnerTypes
  <2> QED BY <2>1, <2>2, ReviewShrinks
<1>2. ASSUME NEW c \in Conns, ClientCloses(c) \/ ProxyEnds(c) PROVE ReviewInv'
  <2>1. UNCHANGED <<review, supervisor, history>> /\ req' = req /\ reading' = reading
    BY <1>2 DEF ClientCloses, ProxyEnds
  <2> QED BY <2>1, ReviewShrinks
<1>3. ASSUME NEW c \in Conns, ChildEnds(c) PROVE ReviewInv'
  <2>1. UNCHANGED <<review, supervisor, history>> /\ reading' = reading
    BY <1>3 DEF ChildEnds
  <2> QED BY <1>3, <2>1, ChildEndsIs, ReviewShrinks
<1>4. ASSUME NEW c \in Conns, NEW r \in Requests, Block(c, r) PROVE ReviewInv'
  <2>1. UNCHANGED <<review, supervisor, history>> /\ reading' = reading
    BY <1>4 DEF Block, runner
  <2> QED BY <1>4, <2>1, BlockIs, ReviewShrinks
<1>5. ASSUME NEW c \in Conns, NEW r \in Requests, Admit(c, r) \/ Forward(c, r) PROVE ReviewInv'
  BY <1>5, ReviewAdmit, ReviewForward
<1>6. ASSUME NEW c \in Conns, NEW r \in Requests, NEW kind \in Kinds, NEW i \in Ids,
             Send(r, kind, c, i) \/ SendDuplicate(r, kind, c, i) \/ SendIsLost(r, kind, c, i)
      PROVE  ReviewInv'
  <2>1. UNCHANGED <<review, supervisor, history>> /\ reading' = reading
    BY <1>6 DEF Send, SendDuplicate, SendIsLost, runner
  <2>2. PICK place \in {"bridge", "done", "lost"} : Asks(r, kind, c, i, place)
    BY <1>6 DEF Send, SendDuplicate, SendIsLost
  <2>3. conn[c] # "none" /\ \A d \in Conns : conn[d] # "none" => conn'[d] # "none"
    <3>1. conn \in [Conns -> {"none", "open", "cut", "draining", "closed"}]
      BY DEF Typed, RunnerTypes
    <3> QED BY <1>6, <3>1 DEF Send, SendDuplicate, SendIsLost, Live, runner
  <2>4. place \in Places \ {"unsent"}
    BY DEF Places
  <2>5. req'[r].at = place /\ \A q \in Requests : q # r => req'[q] = req[q]
    BY <2>2, <2>3, <2>4, AsksIs
  <2> QED BY <2>1, <2>5, ReviewShrinks
<1>7. ASSUME NEW r \in Requests, TimerMarks(r) \/ TimerWrites(r) PROVE ReviewInv'
  <2>1. UNCHANGED <<review, supervisor, history>> /\ req' = req /\ reading' = reading
    BY <1>7 DEF TimerMarks, TimerWrites, runner
  <2> QED BY <2>1, ReviewShrinks
<1>8. ASSUME NEW r \in Requests, ReaderPops(r) \/ ReaderWrites(r) PROVE ReviewInv'
  <2>1. UNCHANGED <<review, supervisor, history>> /\ reading' = reading
    BY <1>8 DEF ReaderPops, ReaderWrites, runner
  <2>2. PICK place \in {"popped", "done"} : Moves(r, place) /\ req[r].at # "unsent"
    BY <1>8 DEF ReaderPops, ReaderWrites
  <2>3. req'[r].at = place /\ \A q \in Requests : q # r => req'[q] = req[q]
    BY <2>2, MoveIs DEF Typed, Places
  <2> QED BY <2>1, <2>3, ReviewShrinks
<1>9. ASSUME NEW r \in Requests, Passes(r) PROVE ReviewInv'
  BY <1>9, ReviewPasses
<1>10. ASSUME NEW r \in Requests, NEW answer \in {"review", "accepted", "other"}, Execute(r, answer)
       PROVE  ReviewInv'
  BY <1>10, ReviewExecute
<1>11. CASE UNCHANGED vars
  <2>1. UNCHANGED <<review, supervisor, history>> /\ req' = req /\ reading' = reading
    BY <1>11 DEF vars, runner
  <2> QED BY <2>1, ReviewShrinks
<1> QED BY <1>1, <1>2, <1>3, <1>4, <1>5, <1>6, <1>7, <1>8, <1>9, <1>10, <1>11 DEF Next

(* Until two bridge threads let a capture through at the same time, every  *)
(* call on its way to a supervisor that waits for a review was let through *)
(* before the capture was forwarded, however many connections there are    *)
(* and whichever thread is ahead (DesktopBridge.NothingPassesReview).      *)
THEOREM NothingIsLetThroughUnderReview == Spec => []NothingPassesReview
<1>1. Init => Typed /\ ReviewInv
  BY TypedInit, ReviewInit
<1>2. Typed /\ ReviewInv /\ [Next]_vars => (Typed /\ ReviewInv)'
  BY TypedStep, ReviewStep
<1>3. ASSUME ReviewInv, supervisor, ~raced, NEW r \in Requests, LetThrough(r)
      PROVE  r \in overtaken
  <2>1. Held
    BY <1>3 DEF ReviewInv
  <2>2. ~OnItsWay(r)
    BY <1>3, <2>1 DEF ReviewInv, Held, Awaiting, LetThrough
  <2>3. Decided(r)
    BY <1>3, <2>2 DEF Decided, LetThrough, OnItsWay
  <2> QED BY <1>3, <2>1, <2>3 DEF ReviewInv, Held
<1>4. Typed /\ ReviewInv => NothingPassesReview
  BY <1>3 DEF NothingPassesReview
<1> QED BY <1>1, <1>2, <1>4, PTL DEF Spec
=============================================================================
