------------------------------- MODULE Engine -------------------------------
(***************************************************************************)
(* The control loop of `sir` (src/src/sir/engine.py) with the queues in     *)
(* front of it (queues.py), the request tasks it spawns and the clients and *)
(* backends around it.                                                     *)
(*                                                                         *)
(* The engine runs on one asyncio event loop, so code between two awaits is *)
(* one step.  `pc` names the await the control loop is parked at:           *)
(*                                                                         *)
(*   wait        Engine._wait: until a wakeup or the end of the tick        *)
(*   containing  _handle_failures: gathering a crashed backend's requests   *)
(*   evicting    _handle_failures: backend.stop() after the crash           *)
(*   draining    _drain: gathering the requests in flight before a switch   *)
(*   unloading   _switch: backend.stop() of the previous resident           *)
(*   loading     _switch: backend.start() of the target                     *)
(*   cleanup     _switch: backend.stop() after a failed load                *)
(*   stopping, unwinding, off        Engine.stop                            *)
(*                                                                         *)
(* At `top` and `resume` the loop is runnable: it has left an await and has *)
(* not begun the next pass (or the rest of the present one).  Submissions   *)
(* and departures may slip in there; they commute with the step before.     *)
(*                                                                         *)
(* Time is counted in whole units by Tick, and ages stop at AgeCap.         *)
(***************************************************************************)
EXTENDS Policy

CONSTANTS
    Requests,    \* every request a client may ever submit
    ModelOf,     \* the model a request addresses
    Cancellable, \* the requests whose client may leave
    Capacity,    \* SchedulerConfig.max_concurrent_requests
    Retry,       \* SchedulerConfig.backend_retry_seconds
    AgeCap,      \* bound: ages above it are not told apart
    MaxFaults    \* bound: how often a backend or a stream fails

ASSUME EngineConfig ==
    /\ IsFiniteSet(Requests)
    /\ ModelOf \in [Requests -> Models]
    /\ Cancellable \subseteq Requests
    /\ Capacity \in Nat \ {0}
    /\ Retry \in Nat
    /\ AgeCap \in Nat /\ MaxWait <= AgeCap
    /\ MaxFaults \in Nat

VARIABLES
    pc,          \* where the control loop is
    resident,    \* Engine._resident
    target,      \* the target of the _switch under way
    leaving,     \* the model whose backend.stop() is awaited
    gpu,         \* models whose backend occupies the GPU
    pending,     \* requests in a ModelQueues deque
    arrival,     \* a request's ticket: its place in its deque
    state,       \* QueuedRequest.state ("new": not submitted yet)
    cancelled,   \* requests whose QueuedRequest.cancelled event is set
    terminator,  \* what _serve or stop put last on QueuedRequest.events
    inFlight,    \* requests with a task in Engine._in_flight
    cancelSent,  \* requests whose task has been cancelled and not yet run
    failed,      \* Engine._failed
    wakeup,      \* Engine._wakeup, or the end of the tick
    wait,        \* age of a queued request
    residency,   \* age of Engine._resident_since
    idle,        \* age of Engine._idle_since
    backoff,     \* what is left until Engine._unavailable_until
    faults       \* failures so far

loopVars    == <<pc, target, leaving, wakeup>>
gpuVars     == <<resident, gpu, residency, idle, backoff>>
requestVars == <<pending, arrival, state, cancelled, terminator, wait>>
taskVars    == <<inFlight, cancelSent, failed>>
vars == <<loopVars, gpuVars, requestVars, taskVars, faults>>

Terminal == {"done", "failed", "cancelled"}
RequestStates == {"new", "queued", "running"} \cup Terminal
Switching == {"draining", "unloading", "loading", "cleanup"}
Stopping == {"stopping", "unwinding", "off"}
Places == {"top", "wait", "resume", "containing", "evicting"} \cup Switching \cup Stopping

Init ==
    /\ pc = "top" /\ resident = None /\ target = None /\ leaving = None
    /\ gpu = {} /\ pending = {}
    /\ arrival = [r \in Requests |-> 0]
    /\ state = [r \in Requests |-> "new"]
    /\ cancelled = {}
    /\ terminator = [r \in Requests |-> "none"]
    /\ inFlight = {} /\ cancelSent = {} /\ failed = {}
    /\ wakeup = FALSE
    /\ wait = [r \in Requests |-> 0]
    /\ residency = 0 /\ idle = NotIdle
    /\ backoff = [m \in Models |-> 0]
    /\ faults = 0

-----------------------------------------------------------------------------
(* Reading the state *)

Running == {r \in Requests : state[r] = "running"}
Submitted == {r \in Requests : state[r] # "new"}

\* ModelQueues.depth, oldest_enqueued_at: cancelled entries are filtered out of
\* every read.
Queue(m) == {r \in pending : ModelOf[r] = m}        \* mutant of Live
Live(m) == {r \in pending \ cancelled : ModelOf[r] = m}
Ahead(r, m) == {q \in Live(m) : arrival[q] < arrival[r]}
HeadAge(m) ==
    IF Live(m) = {} THEN 0
    ELSE wait[CHOOSE r \in Live(m) : Ahead(r, m) = {}]

\* A task is done exactly when its request has left "running".
Reaped == inFlight \cap Running
OnceReaped == inFlight = {}                          \* mutant of AllEnded
AllEnded == inFlight \cap Running = {}

\* A crash needs containment when it is the resident's.
NeverContained == FALSE                              \* mutant of MustContain
MustContain == resident \in failed

MarkUnavailable(S) == [m \in Models |-> IF m \in S THEN Retry ELSE backoff[m]]

\* _track_idleness.
TrackIdleness ==
    IF resident = None \/ Live(resident) # {} \/ Reaped # {} THEN NotIdle
    ELSE IF idle = NotIdle THEN 0 ELSE idle

TakeSnapshot(b) ==
    [ resident     |-> resident,
      inTransition |-> pc \in Switching,
      depth        |-> [m \in Models |-> Cardinality(Live(m))],
      wait         |-> [m \in Models |-> HeadAge(m)],
      inFlight     |-> IF resident = None THEN 0 ELSE Cardinality(Reaped),
      residency    |-> residency,
      idle         |-> TrackIdleness,
      backoff      |-> b ]

\* _dispatch: the oldest live requests of the resident, up to the slots left.
OneTooMany ==                                        \* mutant of Dispatched
    {r \in Live(resident) :
       Cardinality(Ahead(r, resident)) <= Capacity - Cardinality(Reaped)}
NewestFirst ==                                       \* mutant of Dispatched
    {r \in Live(resident) :
       Cardinality({q \in Live(resident) : arrival[q] > arrival[r]})
         < Capacity - Cardinality(Reaped)}
Dispatched ==
    {r \in Live(resident) :
       Cardinality(Ahead(r, resident)) < Capacity - Cardinality(Reaped)}

-----------------------------------------------------------------------------
(* Clients *)

\* Engine.submit.  The server stops taking requests before it stops the engine.
SubmitQuietly(r) ==                                  \* mutant of Submit
    /\ pc \notin Stopping /\ state[r] = "new"
    /\ state' = [state EXCEPT ![r] = "queued"]
    /\ pending' = pending \cup {r}
    /\ arrival' = [arrival EXCEPT ![r] = Cardinality(Submitted) + 1]
    /\ UNCHANGED <<loopVars, gpuVars, taskVars, cancelled, terminator, wait, faults>>
Submit(r) ==
    /\ pc \notin Stopping /\ state[r] = "new"
    /\ state' = [state EXCEPT ![r] = "queued"]
    /\ pending' = pending \cup {r}
    /\ arrival' = [arrival EXCEPT ![r] = Cardinality(Submitted) + 1]
    /\ wakeup' = TRUE
    /\ UNCHANGED <<pc, target, leaving, gpuVars, taskVars, cancelled, terminator,
                   wait, faults>>

\* QueuedRequest.cancel, from the API when a client disconnects or gives up.  It
\* sets an event and wakes nobody.
Cancel(r) ==
    /\ r \in Cancellable \ cancelled /\ state[r] # "new"
    /\ cancelled' = cancelled \cup {r}
    /\ UNCHANGED <<loopVars, gpuVars, taskVars, pending, arrival, state, terminator,
                   wait, faults>>

-----------------------------------------------------------------------------
(* The control loop: Engine._run, one pass *)

AtTop == pc = "top" \/ (pc = "wait" /\ wakeup)

\* purge_cancelled: departed clients' requests leave the deques unserved.
GhostsKept == {}                                     \* mutant of Purged
Purged == pending \cap cancelled

\* next_for pops what it hands out.
PeekedOnly(taken) == Purged                          \* mutant of Popped
Popped(taken) == Purged \cup taken

\* The pass from purge_cancelled to the dispatch or the call of _switch.  None of
\* it awaits, so no task, client or backend acts in between.  `b` is the backoff
\* the snapshot sees.
RestOfPass(b) ==
    \E snapshot \in {TakeSnapshot(b)} : \E decision \in {Decide(snapshot)} :
    LET taken == IF decision.kind \in {"serve", "hold"} THEN Dispatched ELSE {} IN
    /\ pending' = pending \ Popped(taken)
    /\ wait' = [r \in Requests |-> IF r \in pending' THEN wait[r] ELSE 0]
    /\ state' = [r \in Requests |-> IF r \in Purged THEN "cancelled"
                                    ELSE IF r \in taken THEN "running" ELSE state[r]]
    /\ cancelSent' = cancelSent \cup (Reaped \cap cancelled)
    /\ inFlight' = Reaped \cup taken
    /\ idle' = TrackIdleness
    /\ IF decision.kind = "switch"
       THEN pc' = "draining" /\ target' = decision.target
       ELSE pc' = "wait" /\ target' = target
    /\ UNCHANGED <<resident, leaving, gpu, arrival, cancelled, terminator, residency,
                   faults>>

\* A pass with no crash to contain: _handle_failures marks the failed models, none
\* of which is resident, and goes on without awaiting.
Pass ==
    /\ AtTop /\ ~MustContain
    /\ wakeup' = FALSE
    /\ failed' = {}
    /\ backoff' = MarkUnavailable(failed)
    /\ RestOfPass(MarkUnavailable(failed))

\* A pass that finds the resident crashed: its requests are cancelled, and the loop
\* waits for their tasks to end.
ContainCrash ==
    /\ AtTop /\ MustContain
    /\ wakeup' = FALSE /\ failed' = {}
    /\ backoff' = MarkUnavailable(failed)
    /\ cancelSent' = Reaped
    /\ pc' = "containing"
    /\ UNCHANGED <<target, leaving, resident, gpu, residency, idle, requestVars,
                   inFlight, faults>>

\* The gather returns; the crashed backend is no longer resident and is stopped.
CrashContained ==
    /\ pc = "containing" /\ AllEnded
    /\ inFlight' = {}
    /\ leaving' = resident
    /\ resident' = None /\ residency' = 0
    /\ pc' = "evicting"
    /\ UNCHANGED <<target, wakeup, gpu, idle, backoff, requestVars, cancelSent, failed,
                   faults>>

Evicted ==
    /\ pc = "evicting"
    /\ gpu' = gpu \ {leaving}
    /\ leaving' = None
    /\ pc' = "resume"
    /\ UNCHANGED <<target, wakeup, resident, residency, idle, backoff, requestVars,
                   taskVars, faults>>

\* The rest of the pass after the containment; the wakeup is not cleared again.
Resume ==
    /\ pc = "resume"
    /\ UNCHANGED <<wakeup, failed, backoff>>
    /\ RestOfPass(backoff)

-----------------------------------------------------------------------------
(* Engine._switch *)

\* The drain is over and a resident has to be unloaded first.
Drained ==
    /\ pc = "draining" /\ AllEnded /\ resident # None
    /\ inFlight' = {}
    /\ leaving' = resident
    /\ resident' = None /\ residency' = 0
    /\ pc' = "unloading"
    /\ UNCHANGED <<target, wakeup, gpu, idle, backoff, requestVars, cancelSent, failed,
                   faults>>

\* Nothing is resident: straight to the load.
DrainedCold ==
    /\ pc = "draining" /\ AllEnded /\ resident = None
    /\ inFlight' = {}
    /\ gpu' = gpu \cup {target}
    /\ pc' = "loading"
    /\ UNCHANGED <<target, leaving, wakeup, resident, residency, idle, backoff,
                   requestVars, cancelSent, failed, faults>>

\* backend.stop() of the previous resident returns and backend.start() of the
\* target is called, with no await between them.
LoadBeside ==                                        \* mutant of Unloaded
    /\ pc = "unloading"
    /\ gpu' = gpu \cup {target}
    /\ leaving' = None
    /\ pc' = "loading"
    /\ UNCHANGED <<target, wakeup, resident, residency, idle, backoff, requestVars,
                   taskVars, faults>>
Unloaded ==
    /\ pc = "unloading"
    /\ gpu' = (gpu \ {leaving}) \cup {target}
    /\ leaving' = None
    /\ pc' = "loading"
    /\ UNCHANGED <<target, wakeup, resident, residency, idle, backoff, requestVars,
                   taskVars, faults>>

\* `_run` continues with a new pass: nothing is dispatched before the policy is
\* asked again.
Loaded ==
    /\ pc = "loading"
    /\ resident' = target /\ residency' = 0 /\ idle' = NotIdle
    /\ backoff' = [backoff EXCEPT ![target] = 0]
    /\ target' = None
    /\ pc' = "top"
    /\ UNCHANGED <<leaving, wakeup, gpu, requestVars, taskVars, faults>>

\* backend.start() raises BackendError; the engine stops the backend.
LoadFails ==
    /\ pc = "loading" /\ faults < MaxFaults
    /\ faults' = faults + 1
    /\ pc' = "cleanup"
    /\ UNCHANGED <<target, leaving, wakeup, gpuVars, requestVars, taskVars>>

LeaveDebris ==                                       \* mutant of CleanedUp
    /\ pc = "cleanup"
    /\ backoff' = MarkUnavailable({target})
    /\ target' = None
    /\ pc' = "top"
    /\ UNCHANGED <<leaving, wakeup, resident, gpu, residency, idle, requestVars, taskVars,
                   faults>>
CleanedUp ==
    /\ pc = "cleanup"
    /\ gpu' = gpu \ {target}
    /\ backoff' = MarkUnavailable({target})
    /\ target' = None
    /\ pc' = "top"
    /\ UNCHANGED <<leaving, wakeup, resident, residency, idle, requestVars, taskVars,
                   faults>>

-----------------------------------------------------------------------------
(* Request tasks: Engine._serve, one action for each way it can end.  A task  *)
(* whose cancellation was sent runs nothing but its CancelledError handler.   *)

EndTask(r, outcome, last) ==
    /\ state' = [state EXCEPT ![r] = outcome]
    /\ terminator' = [terminator EXCEPT ![r] = last]
    /\ cancelSent' = cancelSent \ {r}
    /\ UNCHANGED <<loopVars, gpuVars, pending, arrival, cancelled, wait, inFlight>>

\* The stream ends, or the next chunk finds that the client has left.
ServeEnds(r) ==
    /\ r \in Running \ cancelSent
    /\ IF r \in cancelled THEN EndTask(r, "cancelled", "none") ELSE EndTask(r, "done", "end")
    /\ UNCHANGED <<failed, faults>>

\* The backend raises BackendError: the task reports the model to the loop.
BackendFails(r) ==
    /\ r \in Running \ cancelSent /\ faults < MaxFaults
    /\ EndTask(r, "failed", "error")
    /\ failed' = failed \cup {ModelOf[r]}
    /\ faults' = faults + 1

\* Any other exception fails this request only.
StreamBreaks(r) ==
    /\ r \in Running \ cancelSent /\ faults < MaxFaults
    /\ EndTask(r, "failed", "error")
    /\ faults' = faults + 1
    /\ UNCHANGED failed

TaskCancelled(r) ==
    /\ r \in cancelSent
    /\ EndTask(r, "cancelled", "none")
    /\ UNCHANGED <<failed, faults>>

TaskStep(r) == ServeEnds(r) \/ BackendFails(r) \/ StreamBreaks(r) \/ TaskCancelled(r)

-----------------------------------------------------------------------------
(* Time *)

UpTo(n) == IF n < AgeCap THEN n ELSE AgeCap
Grow(age) == IF age = NotIdle THEN NotIdle ELSE UpTo(age + 1)
Frozen(n) == n                                       \* mutant of Shrink
Shrink(n) == IF n = 0 THEN 0 ELSE n - 1

\* Engine._wait ends with the tick or a wakeup, whichever comes first.
UntilWoken == wakeup                                 \* mutant of WaitEnds
WaitEnds == wakeup \/ pc = "wait"

\* One unit of time.  The event loop does not sleep while the control loop can run,
\* and a unit is at least as long as the tick of Engine._wait.
Tick ==
    /\ ~AtTop /\ pc # "resume" /\ pc \notin Stopping
    /\ wakeup' = WaitEnds
    /\ wait' = [r \in Requests |-> IF r \in pending THEN Grow(wait[r]) ELSE 0]
    /\ residency' = IF resident = None THEN 0 ELSE Grow(residency)
    /\ idle' = Grow(idle)
    /\ backoff' = [m \in Models |-> Shrink(backoff[m])]
    /\ UNCHANGED <<pc, target, leaving, resident, gpu, pending, arrival, state, cancelled,
                   terminator, taskVars, faults>>

-----------------------------------------------------------------------------
(* Engine.stop *)

\* The control loop is cancelled at the await it is parked at, and every task after
\* it.  A backend.start() or stop() cut short leaves the GPU either way.
Shutdown ==
    /\ pc \notin Stopping \cup {"top", "resume"}
    /\ pc' = "stopping"
    /\ wakeup' = TRUE
    /\ cancelSent' = Reaped
    /\ gpu' \in {gpu, gpu \ {leaving, target}}
    /\ target' = None /\ leaving' = None
    /\ UNCHANGED <<resident, residency, idle, backoff, requestVars, inFlight, failed, faults>>

\* What stop() fails: the requests still queued, for every model.
ResidentsOnly == Queue(resident)                     \* mutant of Unserved
EverybodyToo == pending \cup inFlight                \* mutant of Unserved
Unserved == pending

\* The tasks have ended: fail everything still queued, then unload the resident.
StopGathered ==
    /\ pc = "stopping" /\ AllEnded
    /\ inFlight' = {}
    /\ pending' = {}
    /\ state' = [r \in Requests |-> IF r \in Unserved THEN "cancelled" ELSE state[r]]
    /\ terminator' = [r \in Requests |-> IF r \in Unserved THEN "error" ELSE terminator[r]]
    /\ wait' = [r \in Requests |-> 0]
    /\ pc' = IF resident = None THEN "off" ELSE "unwinding"
    /\ UNCHANGED <<target, leaving, wakeup, gpuVars, arrival, cancelled, cancelSent, failed,
                   faults>>

Unwound ==
    /\ pc = "unwinding"
    /\ gpu' = gpu \ {resident}
    /\ resident' = None /\ residency' = 0
    /\ pc' = "off"
    /\ UNCHANGED <<target, leaving, wakeup, idle, backoff, requestVars, taskVars, faults>>

Off == pc = "off" /\ UNCHANGED vars

-----------------------------------------------------------------------------
LoadEnds == Loaded \/ LoadFails
LoopStep ==
    \/ Pass \/ ContainCrash \/ CrashContained \/ Evicted \/ Resume
    \/ Drained \/ DrainedCold \/ Unloaded \/ LoadEnds \/ CleanedUp
StopStep == StopGathered \/ Unwound

Next ==
    \/ \E r \in Requests : Submit(r) \/ Cancel(r) \/ TaskStep(r)
    \/ LoopStep
    \/ Tick
    \/ Shutdown
    \/ StopStep
    \/ Off

Spec == Init /\ [][Next]_vars

\* The event loop runs what is ready; a backend.start() or stop() returns or raises
\* (health polling is bounded by a timeout); a stream ends (max_tokens, and the
\* client's timeout); the clock never stands still for good.
Fairness ==
    /\ WF_vars(LoopStep)
    /\ WF_vars(StopStep)
    /\ \A r \in Requests : WF_vars(TaskStep(r))
    /\ SF_vars(Tick)

FairSpec == Spec /\ Fairness
=============================================================================
