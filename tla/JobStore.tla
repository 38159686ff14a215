------------------------------ MODULE JobStore ------------------------------
(***************************************************************************)
(* The asynchronous path of `sir`: the job store (src/src/sir/jobs.py), the *)
(* handlers that use it (api.py) and the clients that poll it, over the     *)
(* engine as RequestLife describes it.  A job has the id of its request.     *)
(*                                                                         *)
(* All of it runs on one event loop.  A handler runs without awaiting, so a *)
(* call of the API is one step; a job's pump and the sweeper are tasks.     *)
(***************************************************************************)
EXTENDS Integers, FiniteSets

CONSTANTS
    Ids,            \* every job a client may ever create
    KeyOf,          \* the idempotency key a job is submitted with, or NoKey
    NoKey,
    Obedient,       \* jobs whose client calls again when it was told to; only what
                    \* these are told is recorded
    MaxJobs,        \* JobsConfig.max_jobs
    Lease,          \* JobsConfig.lease_seconds
    ReadTtl,        \* JobsConfig.read_ttl_seconds
    ResultTtl,      \* JobsConfig.result_ttl_seconds
    SweepInterval,  \* JobsConfig.sweep_interval_seconds
    LongestAdvice,  \* policy._MAX_RETRY_AFTER
    AgeCap,         \* bound: ages stop here, past every age that anything reads
    MaxChunks,      \* bound: chunks of each request
    MaxContained    \* bound: requests cancelled because their backend crashed

ASSUME JobsConfig ==
    /\ IsFiniteSet(Ids) /\ Obedient \subseteq Ids
    /\ MaxJobs \in Nat \ {0}
    /\ Lease \in Nat /\ ReadTtl \in Nat \ {0} /\ ResultTtl \in Nat \ {0}
    /\ SweepInterval \in Nat \ {0}
    /\ Lease = 0 \/ Lease > SweepInterval
    /\ LongestAdvice \in Nat \ {0}
    /\ AgeCap \in Nat /\ AgeCap > Lease + SweepInterval
    /\ AgeCap >= ReadTtl /\ AgeCap >= ResultTtl
    /\ MaxChunks \in [Ids -> Nat] /\ MaxContained \in Nat

VARIABLES
    state, cancelled, terminator,  \* of the job's request, as in RequestLife
    sent,       \* chunks put on the request's event queue
    store,      \* the ids in JobStore._jobs
    byKey,      \* JobStore._by_key
    chunks,     \* len(Job.chunks)
    terminal,   \* Job.terminal
    pump,       \* Job.pump: none, reading, cancelling, over
    polled,     \* of each retained job: age of Job.last_polled_at
    since,      \* age of Job.finished_at, or of created_at until it is set
    read,       \* age of Job.first_read_at, or Unread
    finished,   \* retained jobs whose finished_at is set
    sweepIn,    \* time until the sweeper wakes
    told,       \* what the client was last shown, and the time until it calls again
    phase,      \* up, closing, draining, closed: JobStore.stop and then Engine.stop
    contained   \* how many requests a crash has taken with it

requestVars == <<state, cancelled, terminator, sent, contained>>
bufferVars  == <<chunks, terminal, pump>>
storeVars   == <<store, byKey>>
jobVars     == <<polled, since, read, finished>>
vars == <<requestVars, bufferVars, storeVars, jobVars, sweepIn, told, phase>>

Unread == -1
Keys == {KeyOf[j] : j \in Ids} \ {NoKey}
Nobody == "nobody"
Terminal == {"done", "failed", "cancelled"}

Life == INSTANCE RequestLife WITH Requests <- Ids

Init ==
    /\ Life!Init
    /\ sent = [j \in Ids |-> 0] /\ contained = 0
    /\ store = {} /\ byKey = [k \in Keys |-> Nobody]
    /\ chunks = [j \in Ids |-> 0]
    /\ terminal = [j \in Ids |-> "none"]
    /\ pump = [j \in Ids |-> "none"]
    /\ polled = <<>> /\ since = <<>> /\ read = <<>> /\ finished = {}
    /\ sweepIn = SweepInterval
    /\ told = [j \in Obedient |-> [status |-> "nothing", chunks |-> 0, due |-> 0]]
    /\ phase = "up"

-----------------------------------------------------------------------------
(* Reading a job *)

\* Job.state: derived from what the pump has read, the cancellation and the request.
Derived(last, gone, s) ==
    CASE last = "error" -> "failed"
      [] last = "end" -> "done"
      [] last = "none" /\ gone -> "cancelled"
      [] OTHER -> s
JobState(j) == Derived(terminal[j], j \in cancelled, state[j])
IsTerminal(j) == JobState(j) \in Terminal

Waiting(j) == chunks[j] < sent[j] \/ terminal[j] # terminator[j]
Runnable(j) == pump[j] = "cancelling" \/ (pump[j] = "reading" /\ Waiting(j))

-----------------------------------------------------------------------------
(* The engine and the clock *)

\* The shutdown's errors come after the store has stopped.
EngineFirst == TRUE                                  \* mutant of StoreHasStopped
StoreHasStopped == phase = "closed"

\* A request moves on, as RequestLife allows.  A task is cut short because its client
\* left, because the engine stops, or by the containment of a crash.
EngineMoves(j) ==
    \E s \in Life!States, t \in Life!Terminators :
      /\ state[j] # "new" /\ Life!Leads(j, s, t)
      /\ Life!TurnedAway(j, s, t) => StoreHasStopped
      /\ LET crash == Life!CutShort(j, s, t) /\ j \notin cancelled /\ phase # "closed" IN
           /\ crash => contained < MaxContained
           /\ contained' = IF crash THEN contained + 1 ELSE contained
      /\ state' = [state EXCEPT ![j] = s]
      /\ terminator' = [terminator EXCEPT ![j] = t]
      /\ UNCHANGED <<cancelled, sent, bufferVars, storeVars, jobVars, sweepIn, told,
                     phase>>

\* _serve forwards a chunk.
Emit(j) ==
    /\ state[j] = "running" /\ j \notin cancelled /\ sent[j] < MaxChunks[j]
    /\ sent' = [sent EXCEPT ![j] = @ + 1]
    /\ UNCHANGED <<state, cancelled, terminator, contained, bufferVars, storeVars, jobVars,
                   sweepIn, told, phase>>

UpTo(n) == IF n < AgeCap THEN n ELSE AgeCap
Older(ages) == [j \in DOMAIN ages |-> UpTo(ages[j] + 1)]

\* Time passes when no task can run.  The sweeper's alarm is not slept through, and an
\* obedient client calls again when it was told to.
Tick ==
    /\ phase = "up" /\ sweepIn > 0
    /\ \A j \in Ids : ~Runnable(j)
    /\ \A j \in Obedient \cap store : told[j].due > 0 \/ told[j].status \in Terminal
    /\ sweepIn' = sweepIn - 1
    /\ polled' = Older(polled) /\ since' = Older(since)
    /\ read' = [j \in store |-> IF read[j] = Unread THEN Unread ELSE UpTo(read[j] + 1)]
    /\ told' = [j \in Obedient |->
                  [told[j] EXCEPT !.due = IF @ > 0 THEN @ - 1 ELSE 0]]
    /\ UNCHANGED <<requestVars, bufferVars, storeVars, finished, phase>>

-----------------------------------------------------------------------------
(* Answers *)

\* _document: the advice is the estimate's, or the poll cadence, capped by half the lease.
AsEstimated == 1..LongestAdvice                      \* mutant of Advice
Advice ==
    IF Lease = 0 THEN 1..LongestAdvice
    ELSE {a \in 1..LongestAdvice : 2 * a <= Lease}

\* The client of job j is shown a document that says `status`.
Show(j, status) ==
    IF j \notin Obedient THEN told' = told
    ELSE \E a \in IF status \in Terminal THEN {0} ELSE Advice :
           told' = [told EXCEPT ![j] =
                      [status |-> status, chunks |-> chunks[j], due |-> a]]

-----------------------------------------------------------------------------
(* The store *)

\* _forget.  A job's key leaves with it.
Without(gone) ==
    [k \in Keys |-> IF \E j \in gone : KeyOf[j] = k THEN Nobody ELSE byKey[k]]

\* _make_room: with the store full, the terminal job that finished first.
AnyJob == store                                      \* mutant of Evictable
Evictable == {j \in store : IsTerminal(j)}
Longest == {j \in Evictable : \A i \in Evictable : since[i] <= since[j]}
HasRoom == Cardinality(store) < MaxJobs
Evictions == IF HasRoom THEN {{}} ELSE {{j} : j \in Longest}

\* find_by_key.
OnlyUnfinished(k) ==                                 \* mutant of KeyKnown
    k # NoKey /\ byKey[k] \in store /\ ~IsTerminal(byKey[k])
KeyKnown(k) == k # NoKey /\ byKey[k] \in store

\* The fields of the jobs in S, of which those in `new` have just been created.
Kept(field, S, new, v) == [j \in S |-> IF j \in new THEN v ELSE field[j]]

\* An accepted submission: the request is queued, the job created and its pump started.
Submit(j) ==
    /\ phase = "up" /\ state[j] = "new" /\ ~KeyKnown(KeyOf[j])
    /\ state' = [state EXCEPT ![j] = "queued"]
    /\ \E gone \in Evictions :
         /\ store' = (store \ gone) \cup {j}
         /\ byKey' = [k \in Keys |-> IF k = KeyOf[j] THEN j ELSE Without(gone)[k]]
         /\ finished' = finished \ gone
    /\ polled' = Kept(polled, store', {j}, 0) /\ since' = Kept(since, store', {j}, 0)
    /\ read' = Kept(read, store', {j}, Unread)
    /\ pump' = [pump EXCEPT ![j] = "reading"]
    /\ Show(j, "queued")
    /\ UNCHANGED <<cancelled, terminator, sent, contained, chunks, terminal, sweepIn, phase>>

\* JobStoreFull: the request was queued already, and is cancelled.
Refuse(j) ==
    /\ phase = "up" /\ state[j] = "new" /\ ~KeyKnown(KeyOf[j])
    /\ Evictions = {}
    /\ state' = [state EXCEPT ![j] = "queued"]
    /\ cancelled' = cancelled \cup {j}
    /\ UNCHANGED <<terminator, sent, contained, bufferVars, storeVars, jobVars, sweepIn,
                   told, phase>>

\* A submission under a known key is answered with the job it has created.
Resubmit(k) ==
    /\ phase = "up" /\ KeyKnown(k)
    /\ Show(byKey[k], JobState(byKey[k]))
    /\ UNCHANGED <<requestVars, bufferVars, storeVars, jobVars, sweepIn, phase>>

\* GET /v1/jobs/{id}: renews the lease, and remembers the first sight of a result.
Poll(j) ==
    /\ phase = "up" /\ j \in store
    /\ polled' = [polled EXCEPT ![j] = 0]
    /\ read' = [read EXCEPT ![j] = IF IsTerminal(j) /\ @ = Unread THEN 0 ELSE @]
    /\ Show(j, JobState(j))
    /\ UNCHANGED <<requestVars, bufferVars, storeVars, since, finished, sweepIn, phase>>

\* _abandon, for a set of jobs: their requests are cancelled and their pumps stopped.
PumpsStopped(S) ==
    [j \in Ids |-> IF j \in S /\ pump[j] = "reading" THEN "cancelling" ELSE pump[j]]
PumpLeftAlone(S) ==                                  \* mutant of Abandon
    cancelled' = cancelled \cup S /\ UNCHANGED pump
Abandon(S) ==
    /\ cancelled' = cancelled \cup S
    /\ pump' = PumpsStopped(S)

\* DELETE /v1/jobs/{id}.
Delete(j) ==
    /\ phase = "up" /\ j \in store \ Obedient
    /\ Abandon({j})
    /\ finished' = finished \cup {j}
    /\ since' = [since EXCEPT ![j] = IF j \in finished THEN @ ELSE 0]
    /\ UNCHANGED <<state, terminator, sent, contained, chunks, terminal, storeVars, polled,
                   read, sweepIn, told, phase>>

-----------------------------------------------------------------------------
(* The pump and the sweeper *)

\* The finally of _drain; a job that was forgotten meanwhile is out of sight.
Finish(j) ==
    IF j \notin store THEN UNCHANGED <<finished, since>>
    ELSE finished' = finished \cup {j} /\ since' = [since EXCEPT ![j] = 0]

\* _drain: everything on the queue is read without awaiting, up to the terminator.
Unfinished(j) ==                                     \* mutant of PumpReads
    /\ pump[j] = "reading" /\ Waiting(j)
    /\ chunks' = [chunks EXCEPT ![j] = sent[j]]
    /\ terminal' = [terminal EXCEPT ![j] = terminator[j]]
    /\ pump' = [pump EXCEPT ![j] = IF terminator[j] = "none" THEN @ ELSE "over"]
    /\ UNCHANGED <<requestVars, storeVars, jobVars, sweepIn, told, phase>>
PumpReads(j) ==
    /\ pump[j] = "reading" /\ Waiting(j)
    /\ chunks' = [chunks EXCEPT ![j] = sent[j]]
    /\ terminal' = [terminal EXCEPT ![j] = terminator[j]]
    /\ IF terminator[j] = "none" THEN UNCHANGED <<pump, finished, since>>
       ELSE pump' = [pump EXCEPT ![j] = "over"] /\ Finish(j)
    /\ UNCHANGED <<requestVars, storeVars, polled, read, sweepIn, told, phase>>

PumpCancelled(j) ==
    /\ pump[j] = "cancelling"
    /\ pump' = [pump EXCEPT ![j] = "over"]
    /\ Finish(j)
    /\ UNCHANGED <<requestVars, chunks, terminal, storeVars, polled, read, sweepIn, told,
                   phase>>

UnclaimedInQueue ==                                  \* mutant of Unclaimed
    {j \in store : Lease > 0 /\ JobState(j) = "queued" /\ polled[j] > Lease}
Unclaimed == {j \in store : Lease > 0 /\ ~IsTerminal(j) /\ polled[j] > Lease}
Expired ==
    {j \in store \cap finished :
       IsTerminal(j) /\ IF read[j] = Unread THEN since[j] >= ResultTtl ELSE read[j] >= ReadTtl}

\* sweep_once, and the sweeper sleeps again.
Sweep ==
    /\ phase = "up" /\ sweepIn = 0
    /\ sweepIn' = SweepInterval
    /\ Abandon(Unclaimed)
    /\ store' = store \ Expired /\ byKey' = Without(Expired)
    /\ finished' = (finished \cup Unclaimed) \ Expired
    /\ since' = Kept(since, store', Unclaimed \ finished, 0)
    /\ polled' = Kept(polled, store', {}, 0) /\ read' = Kept(read, store', {}, Unread)
    /\ UNCHANGED <<state, terminator, sent, contained, chunks, terminal, told, phase>>

-----------------------------------------------------------------------------
(* The end of the lifespan: JobStore.stop, then Engine.stop *)

Close ==
    /\ phase = "up" /\ phase' = "closing"
    /\ UNCHANGED <<requestVars, bufferVars, storeVars, jobVars, sweepIn, told>>

\* The sweeper has ended; every retained job's pump is cancelled.
StopPumps ==
    /\ phase = "closing" /\ phase' = "draining"
    /\ pump' = PumpsStopped(store)
    /\ UNCHANGED <<requestVars, chunks, terminal, storeVars, jobVars, sweepIn, told>>

Clear ==
    /\ phase = "draining" /\ \A j \in store : pump[j] = "over"
    /\ phase' = "closed"
    /\ store' = {} /\ byKey' = [k \in Keys |-> Nobody]
    /\ polled' = <<>> /\ since' = <<>> /\ read' = <<>> /\ finished' = {}
    /\ UNCHANGED <<requestVars, bufferVars, sweepIn, told>>

Closed ==
    /\ phase = "closed" /\ \A j \in Ids : state[j] \in Terminal \cup {"new"}
    /\ UNCHANGED vars

-----------------------------------------------------------------------------
Client == \E j \in Ids : Submit(j) \/ Refuse(j) \/ Poll(j) \/ Delete(j)
PumpStep(j) == PumpReads(j) \/ PumpCancelled(j)
StopStep == StopPumps \/ Clear

Next ==
    \/ Client
    \/ \E k \in Keys : Resubmit(k)
    \/ \E j \in Ids : EngineMoves(j) \/ Emit(j) \/ PumpStep(j)
    \/ Tick \/ Sweep \/ Close \/ StopStep \/ Closed

Spec == Init /\ [][Next]_vars

\* The tasks of the store run, time passes, and an obedient client does call again; of
\* the others, and of the engine, nothing is assumed.
Fairness ==
    /\ \A j \in Ids : WF_vars(PumpStep(j))
    /\ \A j \in Obedient : WF_vars(told[j].due = 0 /\ Poll(j))
    /\ WF_vars(Sweep) /\ WF_vars(StopStep) /\ SF_vars(Tick)

FairSpec == Spec /\ Fairness
=============================================================================
