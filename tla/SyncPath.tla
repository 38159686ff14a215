------------------------------ MODULE SyncPath ------------------------------
(***************************************************************************)
(* The synchronous path of `sir`: the handlers that hold a client's socket  *)
(* open (api.py: _collect and, for stream: true, _sse), the watchers of     *)
(* those sockets, and the deques and event queues that lie between the      *)
(* handlers and the engine (queues.py, engine._serve).  When the engine     *)
(* dispatches, and what, is left open: see Engine.                          *)
(*                                                                         *)
(* A handler waits in _next_event on two tasks, the getter of its event     *)
(* queue and the watcher of its socket, and goes on when either is done.     *)
(* One event loop runs all of it, so code between two awaits is one step.    *)
(***************************************************************************)
EXTENDS Queues

CONSTANTS
    Models, Requests, ModelOf,
    Streams,     \* the requests with stream: true
    MaxChunks    \* bound: chunks per request

ASSUME SyncConfig ==
    /\ IsFiniteSet(Requests) /\ Nothing \notin Requests
    /\ ModelOf \in [Requests -> Models]
    /\ Streams \subseteq Requests
    /\ MaxChunks \in Nat

VARIABLES
    deque,       \* ModelQueues._queues
    arrival,     \* a request's place among all submissions (for TicketQueue)
    state, cancelled, terminator,   \* of each request, as in RequestLife
    ended,       \* requests whose finished_at is set
    sent,        \* chunks put on QueuedRequest.events
    events,      \* QueuedRequest.events: what has not been read of it
    place,       \* a handler: none, waiting, sending, closing, over
    inHand,      \* the event the getter has taken for its handler
    parts,       \* chunks the handler has collected or sent on
    answer,      \* what the handler answered: none, complete, error, closed
    gone,        \* clients whose socket is closed
    noticed,     \* watchers that have seen it
    shutdown     \* the server is going down and may cancel its handlers

queueVars   == <<deque, arrival>>
lifeVars    == <<state, cancelled, terminator, ended>>
eventVars   == <<sent, events>>
handlerVars == <<place, inHand, parts, answer>>
socketVars  == <<gone, noticed, shutdown>>
vars == <<queueVars, lifeVars, eventVars, handlerVars, socketVars>>

Active(r) == place[r] \in {"waiting", "sending", "closing"}
Running == {r \in Requests : state[r] = "running"}
Queued == {r \in Requests : state[r] = "queued"}

Init ==
    /\ deque = [m \in Models |-> <<>>] /\ arrival = [r \in Requests |-> 0]
    /\ state = [r \in Requests |-> "new"] /\ cancelled = {}
    /\ terminator = [r \in Requests |-> "none"] /\ ended = {}
    /\ sent = [r \in Requests |-> 0] /\ events = [r \in Requests |-> <<>>]
    /\ place = [r \in Requests |-> "none"]
    /\ inHand = [r \in Requests |-> Nothing]
    /\ parts = [r \in Requests |-> 0]
    /\ answer = [r \in Requests |-> "none"]
    /\ gone = {} /\ noticed = {} /\ shutdown = FALSE

-----------------------------------------------------------------------------
(* Submission *)

\* chat_completions: the request is queued and its handler starts, the streaming one
\* by sending the role.
Submit(r) ==
    /\ state[r] = "new" /\ ~shutdown
    /\ state' = [state EXCEPT ![r] = "queued"]
    /\ deque' = [deque EXCEPT ![ModelOf[r]] = Append(@, r)]
    /\ arrival' = [arrival EXCEPT ![r] = 1 + Cardinality({q \in Requests : arrival[q] > 0})]
    /\ place' = [place EXCEPT ![r] = IF r \in Streams THEN "sending" ELSE "waiting"]
    /\ UNCHANGED <<cancelled, terminator, ended, eventVars, inHand, parts, answer,
                   socketVars>>

-----------------------------------------------------------------------------
(* The engine *)

\* _dispatch: take_while on one deque.  The engine outlives the handlers: it dispatches while
\* the server goes down, until TurnAway.
Dispatch(m, limit) ==
    LET pop == TakeWhile(deque[m], cancelled, limit) IN
    /\ deque' = [deque EXCEPT ![m] = pop.rest]
    /\ state' = [r \in Requests |-> IF r \in pop.taken THEN "running"
                                    ELSE IF r \in pop.dropped THEN "cancelled" ELSE state[r]]
    /\ UNCHANGED <<arrival, cancelled, terminator, ended, eventVars, handlerVars, socketVars>>

\* purge_cancelled, over every deque.
Purge ==
    /\ deque' = [m \in Models |-> LiveIn(deque[m], cancelled)]
    /\ state' = [r \in Requests |-> IF r \in Queued \cap cancelled THEN "cancelled"
                                    ELSE state[r]]
    /\ UNCHANGED <<arrival, cancelled, terminator, ended, eventVars, handlerVars, socketVars>>

\* An event is put on the queue of r.
Put(r, event) == events' = [events EXCEPT ![r] = Append(@, event)]

\* _serve forwards a chunk.
Emit(r) ==
    /\ r \in Running \ cancelled /\ sent[r] < MaxChunks
    /\ sent' = [sent EXCEPT ![r] = @ + 1]
    /\ Put(r, "chunk")
    /\ UNCHANGED <<queueVars, lifeVars, handlerVars, socketVars>>

\* The end of _serve: the state, the terminator and finished_at, with no turn of the
\* event loop between them.
EndAnnouncedLate(r, outcome, last) ==                \* mutant of EndServe
    /\ state' = [state EXCEPT ![r] = outcome]
    /\ terminator' = [terminator EXCEPT ![r] = last]
    /\ IF last = "none" THEN UNCHANGED events ELSE Put(r, last)
    /\ UNCHANGED ended
    /\ UNCHANGED <<queueVars, cancelled, sent, handlerVars, socketVars>>
EndServe(r, outcome, last) ==
    /\ state' = [state EXCEPT ![r] = outcome]
    /\ terminator' = [terminator EXCEPT ![r] = last]
    /\ ended' = ended \cup {r}
    /\ IF last = "none" THEN UNCHANGED events ELSE Put(r, last)
    /\ UNCHANGED <<queueVars, cancelled, sent, handlerVars, socketVars>>

\* The stream ends; it fails; or the task finds its client gone, or is cancelled, for
\* that, by the containment of a crash or at shutdown.
Completes(r) == r \in Running \ cancelled /\ EndServe(r, "done", "end")
Fails(r) == r \in Running /\ EndServe(r, "failed", "error")
CutShort(r) == r \in Running /\ EndServe(r, "cancelled", "none")

\* Engine.stop fails what is still queued; finished_at stays unset.
TurnAway ==
    /\ shutdown /\ Running = {} /\ Queued # {}
    /\ deque' = [m \in Models |-> <<>>]
    /\ state' = [r \in Requests |-> IF r \in Queued THEN "cancelled" ELSE state[r]]
    /\ terminator' = [r \in Requests |-> IF r \in Queued THEN "error" ELSE terminator[r]]
    /\ events' = [r \in Requests |-> IF r \in Queued THEN Append(events[r], "error")
                                     ELSE events[r]]
    /\ UNCHANGED <<arrival, cancelled, ended, sent, handlerVars, socketVars>>

-----------------------------------------------------------------------------
(* The socket *)

Leave(r) ==
    /\ Active(r) /\ r \notin gone
    /\ gone' = gone \cup {r}
    /\ UNCHANGED <<queueVars, lifeVars, eventVars, handlerVars, noticed, shutdown>>

\* _watch_disconnect.
WatcherNotices(r) ==
    /\ Active(r) /\ r \in gone \ noticed
    /\ noticed' = noticed \cup {r}
    /\ UNCHANGED <<queueVars, lifeVars, eventVars, handlerVars, gone, shutdown>>

Shutdown ==
    /\ ~shutdown /\ shutdown' = TRUE
    /\ UNCHANGED <<queueVars, lifeVars, eventVars, handlerVars, gone, noticed>>

-----------------------------------------------------------------------------
(* The handlers *)

\* _next_event makes a getter, whose first step takes what is already there.
Ask(r) ==
    IF events[r] = <<>> THEN inHand' = [inHand EXCEPT ![r] = Nothing] /\ UNCHANGED events
    ELSE /\ inHand' = [inHand EXCEPT ![r] = Head(events[r])]
         /\ events' = [events EXCEPT ![r] = Tail(@)]

\* A getter that found the queue empty takes what is put on it, for as long as its
\* handler waits.
GetterTakes(r) ==
    /\ place[r] = "waiting" /\ inHand[r] = Nothing /\ events[r] # <<>>
    /\ Ask(r)
    /\ UNCHANGED <<queueVars, lifeVars, sent, place, parts, answer, socketVars>>

Close(r, what) ==
    /\ place' = [place EXCEPT ![r] = "over"]
    /\ answer' = [answer EXCEPT ![r] = what]

\* What a terminator makes of the answer.
Result(r) == IF inHand[r] = "end" THEN "complete" ELSE "error"

\* _collect: a chunk is kept and the next event is waited for; a terminator is answered.
CollectChunk(r) ==
    /\ r \notin Streams /\ place[r] = "waiting" /\ inHand[r] = "chunk"
    /\ parts' = [parts EXCEPT ![r] = @ + 1]
    /\ Ask(r)
    /\ UNCHANGED <<queueVars, lifeVars, sent, place, answer, socketVars>>

StateSaysDone(r) ==                                  \* mutant of CollectEnd
    /\ r \notin Streams /\ place[r] = "waiting" /\ state[r] \in {"done", "failed"}
    /\ Close(r, IF state[r] = "done" THEN "complete" ELSE "error")
    /\ UNCHANGED <<queueVars, lifeVars, eventVars, inHand, parts, socketVars>>
CollectEnd(r) ==
    /\ r \notin Streams /\ place[r] = "waiting" /\ inHand[r] \in {"end", "error"}
    /\ Close(r, Result(r))
    /\ UNCHANGED <<queueVars, lifeVars, eventVars, inHand, parts, socketVars>>

\* Both: the watcher is done and the getter is not; the getter is cancelled, which
\* leaves the queue as it was.
ForgetsToCancel(r) ==                                \* mutant of Vanished
    /\ place[r] = "waiting" /\ inHand[r] = Nothing /\ r \in noticed
    /\ Close(r, "closed")
    /\ UNCHANGED <<queueVars, lifeVars, eventVars, inHand, parts, socketVars>>
Vanished(r) ==
    /\ place[r] = "waiting" /\ inHand[r] = Nothing /\ r \in noticed
    /\ cancelled' = cancelled \cup {r}
    /\ Close(r, "closed")
    /\ UNCHANGED <<queueVars, state, terminator, ended, eventVars, inHand, parts,
                   socketVars>>

\* _sse: whatever is read is sent on; after a terminator only [DONE] follows.
AfterSending(r) == IF inHand[r] \in {"end", "error"} THEN "closing" ELSE "sending"
StreamOn(r) ==
    /\ r \in Streams /\ place[r] = "waiting" /\ inHand[r] # Nothing
    /\ parts' = [parts EXCEPT ![r] = IF inHand[r] = "chunk" THEN @ + 1 ELSE @]
    /\ place' = [place EXCEPT ![r] = AfterSending(r)]
    /\ UNCHANGED <<queueVars, lifeVars, eventVars, inHand, answer, socketVars>>

Sent(r) ==
    /\ place[r] = "sending"
    /\ place' = [place EXCEPT ![r] = "waiting"]
    /\ Ask(r)
    /\ UNCHANGED <<queueVars, lifeVars, sent, parts, answer, socketVars>>

\* The finally of _sse: the request is cancelled unless its task has ended.
Finally(r) == cancelled' = IF r \in ended THEN cancelled ELSE cancelled \cup {r}

StreamEnds(r) ==
    /\ place[r] = "closing"
    /\ Close(r, Result(r))
    /\ Finally(r)
    /\ UNCHANGED <<queueVars, state, terminator, ended, eventVars, inHand, parts, socketVars>>

\* The server cancels a handler: a streaming one as soon as its client is gone, any one
\* when the server goes down.
Killed(r) ==
    /\ Active(r)
    /\ shutdown \/ (r \in Streams \cap gone)
    /\ Close(r, "closed")
    /\ IF r \in Streams THEN Finally(r) ELSE cancelled' = cancelled \cup {r}
    /\ UNCHANGED <<queueVars, state, terminator, ended, eventVars, inHand, parts, socketVars>>

-----------------------------------------------------------------------------
HandlerStep(r) ==
    \/ CollectChunk(r) \/ CollectEnd(r) \/ Vanished(r)
    \/ StreamOn(r) \/ Sent(r) \/ StreamEnds(r)
ServeStep(r) == Emit(r) \/ Completes(r) \/ Fails(r) \/ CutShort(r)

Over == (\A r \in Requests : ~Active(r)) /\ Queued \cup Running = {} /\ UNCHANGED vars

Next ==
    \/ \E r \in Requests :
         \/ Submit(r) \/ Leave(r) \/ WatcherNotices(r) \/ GetterTakes(r)
         \/ HandlerStep(r) \/ Killed(r) \/ ServeStep(r)
    \/ \E m \in Models, limit \in 0..Cardinality(Requests) : Dispatch(m, limit)
    \/ Purge \/ TurnAway \/ Shutdown \/ Over

Spec == Init /\ [][Next]_vars

\* The tasks of the event loop run: the watchers, the getters, and the handlers that wait for
\* one of them.  A handler that sends waits for its client, and clients need not read: only
\* to a socket that is closed does a send return, since it sends nothing (uvicorn).  Nothing
\* is assumed of the engine's choices, or of the server's cancelling handlers.
Fairness ==
    \A r \in Requests :
      /\ WF_vars(WatcherNotices(r)) /\ WF_vars(GetterTakes(r))
      /\ WF_vars(CollectChunk(r) \/ CollectEnd(r) \/ Vanished(r) \/ StreamOn(r))
      /\ WF_vars(r \in gone /\ (Sent(r) \/ StreamEnds(r)))

FairSpec == Spec /\ Fairness
=============================================================================
