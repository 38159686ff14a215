-------------------------- MODULE EngineProperties --------------------------
(***************************************************************************)
(* What the engine promises: the invariants its docstring lists, and the    *)
(* hazards of its interleavings, stated over the Engine module.             *)
(***************************************************************************)
EXTENDS Engine

-----------------------------------------------------------------------------
(* Invariants *)

\* Every variable holds a value of its kind.
TypeOK ==
    /\ pc \in Places
    /\ resident \in Models \cup {None}
    /\ target \in Models \cup {None}
    /\ leaving \in Models \cup {None}
    /\ gpu \subseteq Models
    /\ pending \subseteq Requests
    /\ arrival \in [Requests -> Nat]
    /\ state \in [Requests -> RequestStates]
    /\ cancelled \subseteq Cancellable
    /\ terminator \in [Requests -> {"none", "end", "error"}]
    /\ inFlight \subseteq Requests
    /\ cancelSent \subseteq Requests
    /\ failed \subseteq Models
    /\ wakeup \in BOOLEAN
    /\ wait \in [Requests -> Nat]
    /\ residency \in Nat
    /\ idle \in Nat \cup {NotIdle}
    /\ backoff \in [Models -> Nat]
    /\ faults \in 0..MaxFaults

\* "Exactly one model is resident at a time": whatever crashes, fails to load or is
\* interrupted, at most one backend occupies the GPU, and it is the resident's when
\* there is one.
OneModelOnGpu ==
    /\ \A m, n \in gpu : m = n
    /\ resident # None => gpu = {resident}

\* "A switch drains first; nothing is cut mid-response": a request that generates
\* is one of the resident's, whose backend is still on the GPU, and its task is known
\* to the engine, which will therefore wait for it.
RunningOnResident ==
    \A r \in Running : ModelOf[r] = resident /\ resident \in gpu /\ r \in inFlight

\* No request is lost or counted twice: it sits in a deque exactly while it is queued,
\* and only a generating request's task can have a cancellation under way.
NothingLost ==
    /\ pending = {r \in Requests : state[r] = "queued"}
    /\ inFlight \cap pending = {}
    /\ cancelSent \subseteq Running

\* The loop never waits beside work it could start: while it is parked with no wakeup
\* due, a resident with live queued requests has all its slots taken, and without a
\* resident every model with live requests is backing off.  (A lost wakeup, or an
\* incumbent the policy cannot start again, would break this.)
NoWorkLeftWaiting ==
    pc = "wait" /\ ~wakeup =>
      \A m \in Models : Live(m) # {} =>
        \/ m = resident /\ Cardinality(inFlight) >= Capacity
        \/ m # resident /\ resident # None
        \/ resident = None /\ backoff[m] > 0

\* Idleness means dry: while the loop waits, an idle clock runs only if the resident
\* has nothing generating and has been so for no longer than it has been resident.
\* Hysteresis would otherwise give a busy model's GPU away.
IdleMeansDry ==
    pc = "wait" /\ idle # NotIdle =>
      resident # None /\ inFlight = {} /\ idle <= residency

\* The policy's "resident backend unavailable" case cannot arise: a model is in backoff
\* only while it is not resident, save during the containment of its crash.
ResidentIsAvailable ==
    pc \notin Stopping \cup {"containing"} /\ resident # None => backoff[resident] = 0

\* One crash at a time reaches the loop, and it is of the resident or of a model the
\* GPU has already left, so containment never has two backends to stop.
OneCrashAtATime == \A m, n \in failed : m = n

\* Who holds the GPU is never in doubt between two passes: what generates is the
\* resident's, the resident may be dispatched to, a crash is one backend's, and an idle
\* clock speaks of this residency.
IncumbentIsSound ==
    TypeOK /\ RunningOnResident /\ ResidentIsAvailable /\ OneCrashAtATime /\ IdleMeansDry

\* The concurrency cap holds for the tasks that exist, not just for those dispatched
\* together.
CapacityHolds == Cardinality(Running) <= Capacity

-----------------------------------------------------------------------------
(* What a step may never do *)

Starts(r) == state[r] = "queued" /\ state'[r] = "running"

\* FIFO within a model: no live request is overtaken by a younger one of its model.
InOrder ==
    \A r, q \in Requests :
      Starts(r) /\ q \in Live(ModelOf[r]) /\ arrival[q] < arrival[r]
        => state'[q] = "running"
DispatchIsFifo == [][InOrder]_vars

\* A departed client triggers nothing: a request starts, and a switch begins, only for
\* a client that is still there, and a switch never for the model already loaded.
MovesForTheLiving ==
    /\ \A r \in Requests : Starts(r) => r \notin cancelled
    /\ pc # "draining" /\ pc' = "draining" =>
         target' # resident /\ \E r \in pending \ cancelled : ModelOf[r] = target'
GhostsMoveNothing == [][MovesForTheLiving]_vars

\* Hysteresis as the engine enforces it: within min_residency_seconds of its load, a
\* resident with live or generating requests is drained for no one but a model whose
\* oldest live request has waited max_wait_seconds.
DrainedInWindow ==
    /\ pc # "draining" /\ pc' = "draining"
    /\ resident # None /\ residency < MinResidency
    /\ Live(resident) # {} \/ inFlight \cap Running # {}
WindowIsHonoured == [][DrainedInWindow => HeadAge(target') >= MaxWait]_vars

\* The end of a request is final: neither its state nor the last event on its queue
\* changes again, so a client reads exactly one terminator.
EndsStay ==
    \A r \in Requests : state[r] \in Terminal
      => state'[r] = state[r] /\ terminator'[r] = terminator[r]
EndIsFinal == [][EndsStay]_vars

-----------------------------------------------------------------------------
(* Liveness, under Engine's Fairness *)

Waits(r) == state[r] = "queued" /\ r \notin cancelled

\* The starvation ceiling delivers the GPU: a model whose oldest request is overdue is
\* loaded, unless its backend fails, its clients leave or the router stops.  (With two
\* models.  See NoModelWaitsIndefinitely for what happens after the load.)
OverdueGetsTheGpu ==
    \A m \in Models :
      (Live(m) # {} /\ HeadAge(m) >= MaxWait)
        ~> (resident = m \/ Live(m) = {} \/ backoff[m] > 0 \/ pc \in Stopping)

\* A drain ends: no request, departed client, crash or shutdown leaves the loop parked
\* between two models for ever.
SwitchTerminates == pc \in Switching ~> pc \notin Switching

\* A departed client's request is disposed of, whether it is queued or generating.
DepartedIsForgotten ==
    \A r \in Cancellable : r \in cancelled ~> state[r] \in Terminal

\* Stopping the router terminates and leaves no request without an end.
StopTerminates ==
    pc \in Stopping ~> (pc = "off" /\ \A r \in Requests : state[r] \in Terminal \cup {"new"})

\* The loop never hangs: neither a switch nor a shutdown is left half done.
LoopNeverHangs == SwitchTerminates /\ StopTerminates

\* Without a rival nothing starves: as long as no other model is asked for, each request
\* of a model ends.  Whatever happens before its turn, the crash of a request ahead of it
\* and failed loads, up to the bound, the containment, the backoff and the reload lead
\* back to a backend that serves it.
NoRivalOf(m) == \A r \in Requests : ModelOf[r] = m \/ state[r] = "new"
EveryRequestEnds ==
    \A r \in Requests :
      state[r] = "queued" ~> state[r] \in Terminal \/ ~NoRivalOf(ModelOf[r])

-----------------------------------------------------------------------------
(* What the documentation claims and the code does not do *)

\* README.md, "What it does": "Guarantees no model waits indefinitely."  A request that
\* is queued and whose client stays is dispatched or fails.
NoModelWaitsIndefinitely ==
    \A r \in Requests : Waits(r) ~> ~Waits(r) \/ pc \in Stopping

\* engine.py, _serve: "Every exit path except client cancellation puts a terminator on
\* the event queue."  While the router is up, a request that has ended and whose client is
\* still there has one.
EveryEndIsAnnounced ==
    \A r \in Requests :
      state[r] \in Terminal /\ r \notin cancelled /\ pc \notin Stopping
        => terminator[r] # "none"

-----------------------------------------------------------------------------
(* Refinement *)

\* The holder is the one model of `gpu`, and it serves while it is the resident.
Holder == IF gpu = {} THEN None ELSE CHOOSE m \in gpu : TRUE
Unstarted == {r \in Requests : state[r] \in {"new", "queued"}}

Gpu == INSTANCE Residency WITH
         holder <- Holder, serving <- resident # None,
         waiting <- Unstarted, active <- Running

\* The engine implements the abstract GPU: every step of the loop, of a task, of a client
\* or of the clock is one of Residency's steps or leaves its variables alone.
ImplementsResidency == Gpu!Spec

\* To those who read a request's event queue the engine is what RequestLife says: states
\* only move on, and a terminator comes last, once, and agrees with the state.
Life == INSTANCE RequestLife
ImplementsRequestLife == Life!Spec

\* The sets in which the loop keeps what is queued behave as TicketQueue, which the deques
\* of queues.py implement (SyncProperties): a pass purges and takes from the head, and
\* nothing else leaves.
Tickets == INSTANCE TicketQueue
ImplementsTickets == Tickets!Spec

\* The queues keep their order, in every pass and over all of them.
QueuesKeepOrder == DispatchIsFifo /\ ImplementsTickets
=============================================================================
