--------------------------- MODULE SyncProperties ---------------------------
(***************************************************************************)
(* What the synchronous path promises to the clients that hold a socket     *)
(* open, and to the GPU that works for them, stated over SyncPath.          *)
(***************************************************************************)
EXTENDS SyncPath

Places == {"none", "waiting", "sending", "closing", "over"}
Events == {"chunk", "end", "error"}

\* Every variable holds a value of its kind; the deques hold the queued requests, each
\* once and in the deque of its model.
TypeOK ==
    /\ \A m \in Models :
         /\ ToSet(deque[m]) = {r \in Queued : ModelOf[r] = m}
         /\ Len(deque[m]) = Cardinality(ToSet(deque[m]))
    /\ arrival \in [Requests -> 0..Cardinality(Requests)]
    /\ \A S \in {cancelled, ended, gone} : S \subseteq Requests
    /\ noticed \subseteq gone /\ shutdown \in BOOLEAN
    /\ sent \in [Requests -> 0..MaxChunks] /\ parts \in [Requests -> 0..MaxChunks]
    /\ \A r \in Requests : ToSet(events[r]) \subseteq Events
    /\ place \in [Requests -> Places]
    /\ inHand \in [Requests -> Events \cup {Nothing}]
    /\ answer \in [Requests -> {"none", "complete", "error", "closed"}]

\* A client that gets a completion gets all of it, and gets it for a request that has
\* ended well; one that gets an error gets it for one that did not: the answer is made
\* of what was read from the queue, not of the state at the time.
AnswerIsComplete ==
    \A r \in Requests :
      /\ answer[r] = "complete" => state[r] = "done" /\ parts[r] = sent[r]
      /\ answer[r] = "error" => state[r] \in {"failed", "cancelled"}

\* "Covers GeneratorExit too": the finally of _sse runs after good ends as well, and
\* cancels nobody whose client stayed, unless the server is going down.
OnlyTheDepartedAreCancelled ==
    \A r \in cancelled : r \in gone \/ shutdown

\* Whoever shares the deques and the queues of events with the handlers finds them in
\* order, and its request left alone.
HandlersAreSound == TypeOK /\ OnlyTheDepartedAreCancelled

\* position_of tells a client how many go before it: a dispatch of `limit` requests
\* takes exactly the live ones whose position is below that.
PositionIsHonoured ==
    [][\A m \in Models : deque'[m] # deque[m] /\ Running' # Running =>
         LET taken == {r \in Running' \ Running : ModelOf[r] = m} IN
         \A r \in {r \in Queued \ cancelled : ModelOf[r] = m} :
           r \in taken <=> PositionOf(deque[m], cancelled, r) < Cardinality(taken)]_vars

\* The deques behave as the tickets by which the Engine module, and the theorems about
\* it, order the requests.
Tickets == INSTANCE TicketQueue WITH pending <- UNION {ToSet(deque[m]) : m \in Models}
ImplementsTickets == Tickets!Spec

\* What happens to a request here is what RequestLife, which the Engine module
\* implements, allows.
Life == INSTANCE RequestLife
ImplementsRequestLife == Life!Spec

\* What the handlers share with the engine is what the Engine module has: its tickets and
\* the life of its requests.  To the clients the deques are their positions.
QueuesAreSound == ImplementsTickets /\ ImplementsRequestLife /\ PositionIsHonoured

\* "If the response task dies, the request stops costing GPU time": a client that leaves
\* has its request cancelled in the end, unless the request ends before.
DepartedIsReleased ==
    \A r \in Requests : r \in gone ~> r \in cancelled \/ state[r] \in {"done", "failed", "cancelled"}

\* The handler of a request whose terminator was put on its queue does not wait for ever,
\* unless it is for a client of a stream that stays and does not read what it is sent.
ClientStopsReading(r) == [](r \notin gone /\ place[r] \in {"sending", "closing"})
AnsweredInTheEnd ==
    \A r \in Requests : terminator[r] # "none" ~> ~Active(r) \/ ClientStopsReading(r)

\* A handler lets go: of the request when its client is gone, of the client when the
\* request has ended and the client reads.
HandlersLetGo == DepartedIsReleased /\ AnsweredInTheEnd
=============================================================================
