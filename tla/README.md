# A verification project for `sir`, the single-GPU inference router

`sir` accepts OpenAI-style requests for several models, queues them per model, and decides
which one model holds the GPU. This directory holds TLA+ modules of its scheduler, the TLC
runs that check them on small instances, and TLAPS proofs of what they promise for every
number of models, requests and failures. Paths below are relative to the repository; the
router's package is `src/src/sir`.

## 1. The system

| Component | State | Operations | Talks to |
|---|---|---|---|
| Policy (`policy.py`) | none | `score_model`, `decide`, `estimate_wait` | called by the engine with a snapshot |
| Engine (`engine.py`) | `_resident`, `_resident_since`, `_idle_since`, `_unavailable_until`, `_in_flight`, `_failed`, `_wakeup`, `_draining`, `_switching` | `submit`, one pass of `_run`, `_dispatch`, `_serve`, `_switch`, `_drain`, `_handle_failures`, `stop` | queues, policy, backends, clock |
| Queues (`queues.py`) | one deque per model | `enqueue`, `depth`, `oldest_enqueued_at`, `next_for`, `take_while`, `purge_cancelled`, `drain`, `position_of` | engine only |
| Request (`types.py`) | `state`, `cancelled`, `events`, times | `cancel` | shared by engine, API and jobs |
| Backends (`backend.py`) | whether the model holds the GPU | `start`, `stop`, `stream` | engine |
| vLLM backend (`backends/vllm.py`) | none of its own; the container and the Docker daemon | `start`, `stop`, `_await_health`, `stream` | Docker, the container's `/health`, engine |
| Mock backend (`backends/mock.py`) | loaded, crashed, load and request counters | `start`, `stop`, `stream` | virtual clock, engine |
| Jobs (`jobs.py`) | jobs by id and by key, leases, pumps | `create`, `get`, `cancel`, `sweep_once`, pump | API, requests' event queues |
| HTTP API (`api.py`) | handlers, disconnect watchers | submit, collect, stream, poll, cancel, lifespan | engine, jobs |
| Clock (`clock.py`) | virtual time, a heap of sleepers | `sleep`, `advance_to`, `advance_to_next`, `drive` | everything that waits |
| Configuration (`config.py`) | constants | validation | everything |
| Clients (`clients/python`, `clients/typescript`) | a job handle, a deadline, a table of hosts | `discover`, `resolve`, `submit`, poll, cancel, `run` | HTTP API |

What is hard in it: everything runs on one asyncio event loop, so each stretch of code between
two awaits is atomic and everything else interleaves. The control loop parks in seven
different awaits (the tick, the gather of a drain, two ways of stopping a backend after a
crash, unload, load, cleanup), and in each of them clients submit and leave, streams end or
raise, backends crash, time passes and the router may be told to stop. The engine is the only
writer of residency, but tasks report crashes, clients set `cancelled`, and a pass acts on a
snapshot. What makes it correct: one model on the GPU at a time; a switch cuts nothing; no
request is lost, overtaken, ended twice or left waiting beside work that could start; a
departed client costs nothing; hysteresis and the starvation ceiling hold through all of it;
every request ends.

Around the loop: a handler of the synchronous path waits on its event queue and its socket at
once; a job's status is read by clients while its pump, the sweeper and the engine each move it
by themselves; a health wait races a container that comes and goes; and the client meets lost
calls and answers, deadlines, cancellation (even of its own clean-up) and routers that restart.

`PROJECT.json` lists each hazard at the line where it bites, with the properties that watch it.

## 2. The modules

| Module | What it is |
|---|---|
| `Policy` | `decide` and `score_model` as operators on a snapshot, branch by branch |
| `Estimate` | `estimate_wait`: what a queued request is told of its wait, and when to call again |
| `PolicyWorld` | every bounded snapshot, the three things that change one (time, an arrival, a switch), and the policy's properties |
| `PolicyProofs`, `PolicyTheorems` | what `decide` guarantees of a snapshot; what it and the estimate guarantee at every snapshot, proved |
| `Engine` | the control loop, queues, request tasks, clients, backends, clock and shutdown |
| `EngineProperties` | the engine's invariants, step properties, liveness, refinement |
| `Residency` | abstract: the one GPU and who may generate on it |
| `RequestLife` | abstract: the life of a request, as the readers of its event queue see it |
| `EngineInvariant`, `EngineTheorems` | the inductive invariant and its proof; the state and step properties, the cap and the refinements, proved |
| `Queues` | the deques of `queues.py`, as operators on sequences |
| `TicketQueue` | abstract: the queues as sets with tickets, as `Engine` keeps them |
| `SyncPath`, `SyncProperties`, `SyncTheorems` | the handlers that hold a socket open, their watchers, the deques and the event queues; what they promise; the proofs, with those about deques |
| `JobStore`, `JobProperties` | the asynchronous path: job store, its handlers, pumps, sweeper and clients, over `RequestLife`; what it promises |
| `JobService` | abstract: what GET says of a job, and how that changes |
| `JobTheorems` | the store's properties and its implementation of `JobService`, proved |
| `Client`, `ClientProperties`, `ClientTheorems` | the Python client's `run`, registry and network, over `JobService`; its promises; their proofs |
| `Vllm`, `VllmProperties`, `VllmTheorems` | the vLLM backends under the engine's calls, over containers and Docker; their promises; their proofs |
| `Simulation`, `SimulationProperties`, `SimulationTheorems` | `VirtualClock` and `MockBackend`, the world the repository's tests run in; what tests may rely on; its safety, proved |
| `MCPolicyWorld`, `MCEngine`, `MCSyncPath`, `MCJobStore`, `MCClient`, `MCVllm`, `MCSimulation` | the instances TLC checks |

The components are composed through abstract specifications that one side is shown to
implement and the other is built on:

| Abstract | Implemented by | Used by |
|---|---|---|
| `Residency` (the GPU) | `Engine` (checked and proved) | the contract of `backend.py`; `Vllm` states when containers keep it |
| `RequestLife` (a request) | `Engine`, and the requests of `SyncPath` (both checked and proved) | `JobStore` instantiates it in the engine's place |
| `TicketQueue` (ordering) | the deques in `SyncPath`, and `Engine` (both checked and proved) | one and the same order under the handlers and under the scheduler |
| `JobService` (a job) | `JobStore` (checked and proved) | `Client` instantiates it in the router's place |

### How `Engine` corresponds to the code

`pc` is the await at which `Engine._run` is parked; a step of the loop is the code from one
await to the next, so `Pass` is the whole of a pass from `_wakeup.clear()` to `_dispatch` or
the call of `_switch`: containment's bookkeeping, purge, cancellation of departed clients'
tasks, reaping, idle tracking, snapshot, decision and dispatch are one action, in the code's
order. `ContainCrash`, `CrashContained`, `Evicted`, `Resume` are the four stretches of a pass
that finds its resident crashed; `Drained`/`DrainedCold`, `Unloaded`, `Loaded` or `LoadFails`
and `CleanedUp` those of `_switch`; `Shutdown`, `StopGathered`, `Unwound` those of `stop`.
A task of `_serve` has one action for each way it can end. The chunks it forwards are not
state of the scheduler; `SyncPath` and `JobStore` follow them. `Submit` and `Cancel` are the
clients.

Three abstractions deserve a word.

* *Queues are sets with tickets.* A deque is the set of the model's queued requests ordered
  by `arrival`; every read skips those that are cancelled, as the code's do. Cancelled entries
  stay in `pending` until the next purge, because they are in the deque until then. `SyncPath`
  has the deques themselves; both implement `TicketQueue`.
* *Time is counted in units by `Tick`*, which ages everything that reads the clock. The ages
  stop at `AgeCap`, at or above every threshold they are compared with. A unit is no shorter
  than the tick of `_wait`, so `Tick` ends a wait. Time passes only when the loop is parked:
  the code between two awaits takes no time.
* *`top`, `resume` and an empty drain are states of their own* although the code runs through
  them without awaiting. Only submissions, departures and ends of tasks can slip in there, and
  each of them could have come just before the previous await ended; none of them is missed.

The backend is what `backend.py` promises: `start` returns or raises, `stop` frees the GPU,
a stream ends, raises `BackendError`, raises something else, or is cancelled between chunks.
`Submit` is disabled once the engine stops, because the server closes before the application's
lifespan ends. A cancellation of `stop`'s that lands in a `backend.start()` or `stop()` may
leave the backend on the GPU or not: `Shutdown` allows both.

### How `SyncPath` corresponds to the code

A handler is at one of the places its code can wait: in `_next_event` (`waiting`), in the
`send` of the server (`sending`, `closing`, streams only), or over. `_next_event` makes a
getter and waits for it or for the watcher of the socket: `Ask` is a getter whose first step
finds an event, `GetterTakes` one that finds it later, and a handler goes on (`CollectChunk`,
`CollectEnd`, `StreamOn`) once its getter holds one; `Vanished` is the other outcome, which the
code takes only if the getter has nothing. `Killed` is the server's cancelling a handler, with
`_collect`'s `except` or `_sse`'s `finally`. When the engine dispatches, and up to how many,
is open (`Dispatch`, `Purge`, `TurnAway`), so what holds here holds of any policy.

### How `JobStore` corresponds to the code

A handler of the asynchronous path does not await, so a call is one action: `Submit` is
`find_by_key`, `engine.submit` and `create` with its `_make_room`; `Refuse` is the same with
`JobStoreFull`, after which the request that was queued is cancelled; `Resubmit`, `Poll`,
`Delete` are the other calls. `PumpReads` is `_drain` from one await to the next (it empties
the queue, since `get` suspends only on an empty one), `PumpCancelled` its end by
`_abandon` or `stop`, `Sweep` is `sweep_once`, and `Close`, `StopPumps`, `Clear` are `stop`.
The engine (`EngineMoves`, `Emit`) does whatever `RequestLife` allows; at shutdown it turns
queued requests away only after the store has stopped, as `lifespan` orders it.

A job has its request's id, and the fields of a job (`polled`, `since`, `read`, `finished`) are
functions on the retained jobs and go with them. Times are ages, capped at `AgeCap`, the sum of
all the ages they are compared with; a tie of capped ages lets `_make_room` evict either job.
Time passes when no task can run, so a pump lags behind its queue by turns of the event loop
and never by clock time, while a poll may come in between. `Obedient` clients call again when
the last document told them to and do not delete their jobs; the others call at any time or
never. The advice is any up to the policy's `_MAX_RETRY_AFTER`; how it is computed and clamped is
`RetryAfter` in `Estimate`. A document is its status, its number of chunks and its advice.

### How `Client` corresponds to the code

`Run` is `resolve` and the POST; `Submitted`, `Looks`, `Polled`, `CleanedUp` are `run` from one
await to the next, `GivesUp` the cancellation of the caller's task at each of its awaits,
`Deadline` the clock. A call is in flight until the other end takes it (`Takes`, `Says`,
`Cancels`) or it is lost (`Vanishes`, `Fails`, `DeleteLost`); a POST whose handler has left
still arrives. `_cancel_quietly` shields its DELETE in a task of its own, so a second
cancellation ends the wait and not the DELETE. The router moves its jobs in any way `JobService`
allows and may restart and forget all of them; another host answers with a completion at once.
`Discover` takes in the tags a host lists up to the first that is another's.
A deadline is the clock's passing it, so how long a sleep lasts is left out.

### How `Vllm` corresponds to the code

The engine is reduced to its calls: stop the resident and start the target (`Switch`), stop
after a crash or at shutdown (`Unload`), stop what failed to load (`Returns`). A call of an
owned backend is the post to Docker, which may fail with or without effect (`Posted`,
`PostFailed`), and the health wait, one poll at a time (`Polls`, `Tick`); of an adopted one
the wait alone, or nothing (`NotOurs`). Time passes while the poll sleeps and while `/health` is
asked, up to `HealthTime` for each: that is `connect_timeout_seconds`, which the HTTP client
applies to each phase of the request, and it may be several polls. `Polls` is the return of the
request, and its answer is the container's at that moment; only then is the deadline read, so a
wait may end a poll and a `/health` late. A container that is stopped may answer until it is
gone (`dying`); one that is stopped while it loads never answers though it holds memory
(`fading`). `stream` is `Request`, a `Line` at a time, and its ends; the text of a line is left
out, what it says of the end (finish reason, token counts) is not.

### How `Simulation` corresponds to the code

`ready` is the event loop's run queue. A task runs from one `sleep` to the next in one step
(`StartCalled`, `StreamGoesOn`, ...), by its turn; `sleepers` is the heap, `Fires` wakes what is
due in order; the loops of `advance_to` and `drive` are `Advances`/`Arrives` and
`DrivesOn`/`DriveReturns`/`DriveRaises`, and go on only when the tasks have settled: that
`_SETTLE_ROUNDS` yields are enough for that is assumed.

## 3. The runs

| Run | Instance | What it shows |
|---|---|---|
| `policy` | three models with different priority and cost, every depth to 2, age to 3, backoff to 1 | the ceiling outranks everything; a decision is always warranted, keeps the window and no more than the window, and agrees with the wait it announces; waiting longer never costs a model the GPU; a swap is not reversed at once, save by the ceiling; an estimate counts down, and its `retry_after` with it |
| `engine_queue` | two models, four requests (three of one), two slots, two clients that may leave, one failure | nothing lost, overtaken, over-dispatched or left waiting; the departed move nothing; the queues implement `TicketQueue` |
| `engine_crash` | three requests, two slots, two failures, anyone may leave | one model on the GPU; the incumbent is never in doubt; the window is kept but for an overdue model; the engine implements `Residency` and `RequestLife` |
| `engine_live` | three requests, two of them of one model, one slot, two failures, fairness | an overdue model gets the GPU; switches and shutdowns end; departed requests are disposed of; a request whose model has no rival ends, though the one before it crash the backend and a load fail |
| `sync` | two requests of one model, one of them a stream, both clients may leave, shutdown, fairness | an answer is complete or an error, and agrees with the request's end; only the departed are cancelled; the deques are the engine's tickets, the lives of requests those of `RequestLife`, and a position is honoured; handlers let go, but of a client that stays and stops reading |
| `jobs_keys` | three jobs, two under one key, one place | the store keeps its bound, its tables agree, a buffer is what was sent, a key buys one generation at a time; the store implements `JobService` |
| `jobs_clients` | two jobs, one obedient client, one crash, shutdown, fairness | the lease cancels what is abandoned; an obedient client keeps its job and sees its end; ends are final; what has finished is forgotten |
| `client` | two runs, one with a deadline and a key, four jobs, a router that may restart and another host, fairness | nothing is replayed unasked; what is given up is cancelled; routing does not depend on order; a run with a deadline ends |
| `vllm` | two owned models and an adopted one, timeouts of one and two polls, a `/health` that may take two, one restart | the GPU follows the engine; `start` returns only what serves; a completion carries what its upstream said; calls return, within a poll and a `/health` of their deadline |
| `simulation` | a load, a failing load, two streams of which one crashes, an unload, a task the clock cannot wake | sleepers are woken on time, in order, and the cancelled hold nothing back; `drive` ends, and gives up only with reason |
| `starvation`, `silent_end` | see section 5 | two statements of the documentation the code does not keep |

Several properties are conjunctions of the named parts above them; a README row names the whole.

*Bounds.* Two models are enough for every interaction of the loop (a resident and a
challenger; a crashed model and its successor), three for the policy's choice among rivals of
which one is resident. Two requests of one model and two slots give a crash a sibling, a
drain something to wait for, and FIFO something to get wrong; a third one over-fills the cap.
Two failures let a crash meet a failed load, a second crash or a broken stream. In `engine_live`
one slot keeps the second request of a model waiting while the first crashes the backend: it
must live through containment, backoff and a reload, which may fail. Ages need to
reach the ceiling and the window, with one unit between them. `MaxFaults` bounds failures
because, with failures for ever, nothing need end.

For the jobs, one place and three jobs make every submission meet eviction, refusal or a known
key; two places and two jobs let a client that follows its advice live beside one that does
not, without eviction. The lease of 2 is shorter than the longest advice before the cap (half
of it) and longer than a sweep; a read result goes before an unread one.
`jobs_clients` assumes nothing of `result_ttl_seconds` but that it is longer than the advice:
`config.py` does not require it, and a client told to wait longer than that may find its job
gone. One chunk is enough for a buffer to be short of its stream.

On the synchronous path a handler meets only its own request and the deque it is in: two requests
of one deque, one of each kind of handler, give an order, a departed entry ahead and a position;
one chunk can be lost. One of the client's two runs has a key and the other none, and they share
the hosts and the restart; two jobs under the key let a resubmission buy a second one if anything
let it, and the run without a key shows what is never resubmitted; the tag both hosts list is the
conflict. A `/health` that may take longer than a poll and as long as a timeout, and may return at
any moment before, makes a wait overshoot its deadline by all it can. In the simulation, each
failure of the mock is injected, one task is cancelled, and two tasks sleep to the same instant.
`MaxRestarts`, `MaxChunks`, `MaxContained`, `Horizon` and `Cancellable` are bounds too, named
where they are declared.

*Fairness* (`Fairness` in each module). In `Engine`, weak fairness of the loop's steps, of the
stopping steps and of each task's end: the event loop runs what is ready, health waits are
bounded by timeouts (which `Vllm` shows: `CallsReturnInTime`), streams end. `Loaded` and
`LoadFails` share one fairness condition, so a load may fail as often as the bound allows. Time
has strong fairness: it cannot pass while the loop is runnable, and it does not stand still for
good because it was often prevented. No fairness is assumed of clients, of failures or of
shutdown. In `SyncPath` watchers, getters and the handlers that wait for them are weakly fair: they
are tasks of the event loop. A handler that sends waits for its client, whom nothing obliges to
read; only a send to a socket that is closed is fair, because the server's flow control lets go
then. So `DepartedIsReleased` assumes nothing of clients, and `AnsweredInTheEnd` excuses those
that stay and stop reading. Nothing is assumed of the engine or of the server's cancelling handlers.
In `JobStore` the pumps, the sweeper and the end of `stop` are weakly fair and time strongly;
nothing is assumed of the engine or of clients. In `Client` a run that can go on does, its
deadline passes, and a call is answered or fails, as the HTTP client's timeout ensures; nothing
is assumed of what becomes of the job. In `Vllm` a call's own steps are fair, which needs only
that Docker and `/health` are asked with a timeout (`HealthTime` is what the latter comes to);
containers may hang for ever. In `Simulation`
tasks run and the test goes on.

Every property has a mutant: an operator marked `mutant of` that changes one mapped definition
as a plausible bug would, and under which TLC finds the property violated.

## 4. What is proved

The proofs need only the assumptions on the constants that the modules name, which are what the
code validates or relies on (`PolicyConfig`, `EstimateConfig`, `EngineConfig`, `JobsConfig`,
`ClientConfig`, `VllmConfig`, `SyncConfig`, `SimulationConfig`), and where said one thing more. In
particular there are any number of models, requests, jobs, runs, crashes, restarts, chunks, tasks
and delays.

*The policy.* `DecideSound`, `CeilingTheorem` and `HysteresisTheorem` hold of every snapshot. They
rest on `ArgMaxIsGreatest`: a finite set has a greatest key, taken from the well-foundedness of
the naturals, since the library's induction over finite sets cannot be used. In `PolicyTheorems`,
`AlwaysPossible` is the invariant of `PolicyWorld` (what a snapshot can be), and each of the
policy's properties follows from it. `EstimateTheorem` covers the clamp of `retry_after` too:
clamping keeps the order and takes nothing further apart (`RetryClamped`). `PatienceTheorem`
compares two decisions: the score grows with the age (`score_model`'s aging term), and the
greatest of a set stays the greatest when it alone grows. `NeverBounces` assumes a window longer
than 0: without one, hysteresis protects nothing.

*The engine.* None of the state properties is inductive alone. `IInv` has four parts:
`GpuInv` (at each await, who holds the GPU and which model is being moved), `TaskInv` (each
request is exactly where its state says; during a containment or a stop every running task
has its cancellation under way), `FailureInv` (the crashes reported are of one model, the one
whose requests still run; a resident has no backoff) and `IdleInv`. The argument that carries
the rest: a request that runs is the resident's, so when there is no resident nothing runs,
so while a backend is stopped or loaded no task can report a crash, and a crash is always the
resident's. `PassFacts` says what a pass does once the policy has spoken, and is the only
place where the policy's theorems enter. `InvariantStep` has one lemma per group of actions
and one step per part of the invariant.

From `InvariantHolds` follow the state properties and, with `OnlyPassesMove` (requests start
and drains begin in a pass and nowhere else), the step properties. `NothingWaitsForNothing`
is inductive beside `IInv`: a dispatch fills the slots or leaves no live request of the resident
(`DispatchFills`), a pass leaves no work beside an empty GPU that could start
(`PassLeavesNothing`), and whatever makes work while the loop is parked (a submission, an end, the clock)
wakes it (`ParkedStep`). `CapacityTheorem` needs one thing more, that tickets are unique: the
youngest request a pass starts is within the cap and all the others are ahead of it.
`Refinement` maps `Engine` to `Residency`: the holder is the one model of `gpu`, it serves
while it is resident, and each action is one abstract step or none. `LifeTheorem` shows
that `Engine` implements `RequestLife`; `MovesOfALife` reduces it to each request's own move.
`TicketTheorem` shows that its queues are those of `TicketQueue`: a dispatch takes the oldest
live ones, as many as there are slots or all of them, and outside a dispatch only a purge or
the shutdown takes anything. With `FifoTheorem` that is `OrderTheorem`.

*The job store.* `JInv` has, beside the kinds of the variables and the bound: `BufferInv` (what
each job's buffer holds of its stream, and what its end says of its request), `KeyInv` (a key
leads to a job submitted under it), `PayInv` (until the store closes, what still generates for a
client is retained, so no key can lead to a second one) and `LeaseInv` (a live job's time since its last
poll, plus the time to the next sweep, is within the lease and one sweep), which is what makes
`LeaseTheorem` inductive: between two sweeps a lease may be over, by no more than the sweeper
has slept.
`ServiceTheorem` maps the store to `JobService`: a job is new before its submission, what
`Job.state` says while it is retained, and gone afterwards. `ObedientTheorem` assumes
`RoomAndTime`: obedient clients give no key, there is a place per job, and an advice is
shorter than the result's time to live; its invariant (`InTouch`) is that an obedient client has
seen its end, or will call before its lease is over and before its result expires.

*The client.* `CInv` says of each run where it is, what it has been told and what has become of
its job (`Own`), and counts the jobs it made against its submissions (`Counts`), one in flight
being one not yet counted; with `FS_AddElement` the count is a cardinality for any set of jobs.

*The vLLM backend.* `VInv` bounds the health waits (`Calling`: what the sleep in progress has
left, less the time its `/health` has taken, is never more than is left to the deadline and a
poll); `GInv` adds to the property itself that, without a fault, a container whose stop is waited
for is down or dying: it answers until it is gone, so that its silence means what `stop` takes it
to mean. `GpuTheorem` is conditional on `faults = {}`, as the property is.

*The synchronous path.* `Inv` has four parts. `DequeInv`: a deque holds the queued requests of
its model, in the order of their arrival, which are numbered without a repetition. `LifeInv`: what the
state of a request says of its terminator. `ReadInv`, the heart of it: what a handler has
passed on, the chunk in its hand and the chunks on its queue add up to what was sent, and the
terminator is behind them or in its hand with nothing behind it. `AnswerInv`: what was
answered. `GetterTakes`, `Ask` and a cancelled getter each move an event from one of the
places of `ReadInv` to the next, which is why an answer is complete whatever the order
(`AnswersAreComplete`), and why a handler never waits beside a terminator that it will not find
(`TerminatorsAreFound`).

The deques need induction on their length, and the library's induction takes an operator as its
parameter. `UpToInduction` and `Iteration` state it over a set of numbers instead, from
`LeastNatural` (a set of naturals has a least element); with them `LiveFacts`, `TakeWhileTakes`
and `PositionCounts` say what `_live`, `take_while` and `position_of` compute on a deque of any
length. `DispatchServes` puts them together: what is taken are the oldest live entries, and those
are the ones whose position is below their number, which gives both `PositionsAreHonoured` and, by
tickets, `DequesAreTickets`. `LivesAreLed` shows that what happens to the requests is what
`RequestLife` allows, so the handlers are verified over a life that `Engine` is proved to give
them.

*The simulated world.* `Inv` says that an entry of the heap is its task's own alarm, still to come
and with a number of its own (`SleepInv`), so that a running task is ready, asleep or waiting for
something other than the clock; that who is ready after a sleep has slept until now, and that the
ready go on in the order in which they lay down (`ReadyInv`); and where the test is (`TestInv`).
The heap is kept as a set with the order of its entries (`Precedes`: deadline, then sequence
number, the tuple that `sleep` pushes); `WokenInHeapOrder` shows that waking by rank is popping
the heap, and the finiteness it needs follows from there being one entry per task.
`RaisesWithReason` is the safety half of `DriveIsSound`.

*Only model-checked:* the liveness properties, since TLAPS does not reason about fairness:
`EngineProperties`' and `Client`'s promises that things end, `HandlersLetGo`, `FinishedExpires`,
the return of calls in `Vllm` (its bound is proved, `CallsAreInTime`) and the end of `drive`.
Every other property that a passing run checks is, by itself or as the safety half of a
conjunction, the statement of a theorem.

## 5. Where the documents and the code differ

1. **"Guarantees no model waits indefinitely"** (`src/README.md:30`). After a load the loop
   asks the policy again before it dispatches; if by then another model is past the ceiling,
   the GPU is taken away unused. When loads take longer than the ceiling (a vLLM load is
   estimated at 310 s, the default ceiling is 120 s) two requests for two models keep the GPU
   swapping for ever. `starvation` shows the lasso; `OverdueGetsTheGpu` shows that the ceiling
   does deliver the GPU, only not the dispatch.
2. **"Every exit path except client cancellation puts a terminator on the event queue"**
   (`engine.py:239`). Containment cancels the tasks of a crashed backend's other requests, and
   that path puts none: their clients wait for ever. Run `silent_end`.

The following are properties the code does not have either. They were found with the same
models and are recorded here without a run; the properties of section 3 are stated so as not
to claim them.

3. **"A client that disconnects ... never delays a drain"** (`engine.py:15`). A drain looks
   for departed clients once, before it waits; one that leaves later is waited for.
4. **"The same completion the synchronous path would have produced"** (`tests/test_jobs.py:3`).
   Until the pump has read the terminator, `Job.state` is the request's, which is `done` one
   turn of the event loop earlier: a poll in between sees `done` and not all of the text.
   `StoreIsSound` speaks of the buffers whose end was read.
5. **"Abandoned work is cancelled before it reaches the starvation ceiling"** (`jobs.py:21`).
   The lease counts from the last poll, the ceiling from the submission.
6. **"Expire finished results and cancel jobs nobody is polling for"** (`jobs.py:235`). A job whose
   request the containment of a crash cancelled (item 2) is terminal and has no `finished_at`:
   the sweeper neither abandons nor expires it, and only eviction, a DELETE or shutdown removes
   it. `FinishedExpires` leaves such jobs out.
7. **"Never advise a cadence that would cost the client its lease"** (`api.py:253`). A
   resubmission under a known key (`api.py:144`) is advised like a poll, up to half the lease,
   and renews nothing. A client whose first answer was lost, which submits again after more
   than half a lease and then comes back when it was told to, finds its job cancelled. With
   `KeyOf <- SharedKey` in `MCJobClients.cfg`, `ObedientIsServed` fails.
8. **"Cancellation reaches the GPU"** (`clients/python/src/sir_client/client.py:11`). A caller
   cancelled while its POST is on the way knows of no job, and sends no DELETE; the job runs until its
   lease ends it. `GivenUpIsCancelled` speaks of the jobs a run was told of. Conversely, a run
   that gives up cancels the job it has, even if another run shares it under the same key.
9. **The deadline of `AsyncClient(timeout=...)`** is computed in `submit`, so each resubmission
   has a new one; the `timeout` of `run` covers all of them. Both are in the model (`Defaulted`), and both end.
10. **What `VllmBackend.stop` lets pass.** A Docker failure is swallowed, and a health wait that
    times out is not reported: the next model is then loaded beside the last. A container stopped
    while it is still loading does not answer, so the wait for silence ends at once, whatever
    memory it holds (`vllm.py:113`). A router that restarts assumes an empty GPU.
    `GpuFollowsTheEngine` excuses exactly these, by name (`faults`).

## 6. The plan, and what is left

Done: the policy and the estimate; the engine with its queues, tasks, crashes and shutdown; the
synchronous handlers and the deques; the job store with its handlers; the Python client; the
vLLM backend; the simulated world; the four abstract specifications; the proofs above.

Left, in this order:

1. Safety halves of liveness properties, as `TerminatorsAreFound` and `RaisesWithReason` are: that
   the job store and the client cannot come to a state from which only a new call moves them.
2. The engine's running mean of durations (`_mean_seconds`), which `Estimate` takes as a
   constant.
3. What becomes of the leftovers of item 10 of section 5: that the container of a router that died,
   or of a stop that failed, is off the GPU once its model has been loaded and unloaded again.

Not modelled, and not planned: schemas, logging, the command line and the deployment files,
which have no state or only format it; `/healthz`, `/v1/models`, `/status`, the decision history
and the counters, which nothing in the scheduling reads; the 400 and 404 answers before a
submission; parsing, defaults and the alias tables of the configuration; the TypeScript client, which
is the Python one written again; the score of an unavailable model (`-inf`), which no branch
reads.
