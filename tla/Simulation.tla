----------------------------- MODULE Simulation -----------------------------
(***************************************************************************)
(* The simulated world the scheduler is tested in: VirtualClock (clock.py)  *)
(* and the calls of MockBackend (backends/mock.py), tasks that wait only     *)
(* through it.  A test advances the clock, or drives one task to its end.   *)
(*                                                                         *)
(* settle() is taken to let every runnable task reach its next wait: the    *)
(* test goes on only when none is left (_SETTLE_ROUNDS yields are enough).   *)
(***************************************************************************)
EXTENDS Integers, FiniteSets, Sequences, SequencesExt

CONSTANTS
    Tasks,
    Kind,          \* of each task: start, stop, stream (of MockBackend), or event: a
                   \* task that waits for something other than the clock
    Load, Unload, FirstToken, Interval, Budget,   \* MockParams
    CrashAfter,    \* crash_after_n_requests
    FailEvery,     \* fail_on_load_every_n
    Cancellable,   \* bound: the tasks something may cancel
    Horizon        \* bound: advance_to goes no further

ASSUME SimulationConfig ==
    /\ IsFiniteSet(Tasks) /\ Kind \in [Tasks -> {"start", "stop", "stream", "event"}]
    /\ {Load, Unload, FirstToken, Interval, Budget, Horizon} \subseteq Nat
    /\ CrashAfter \in Nat /\ FailEvery \in Nat /\ Cancellable \subseteq Tasks

VARIABLES
    now,        \* VirtualClock._now
    sleepers,   \* VirtualClock._sleepers: [at, no, task]
    count,      \* VirtualClock._seq
    ready,      \* the tasks the event loop is to run, in order
    step,       \* of each task: new, running, done, failed, stopped
    turn,       \* how often it has been resumed
    cancelling, \* tasks with a cancellation under way
    alarm,      \* the entry of the sleep each task is in, NoAlarm when in none
    doomed,     \* streams that are to crash the backend
    loaded, crashed, attempts, started,   \* of the MockBackend
    test        \* what the test is at: idle, advance or drive; until when; which task;
                \* the task drive() has given up on

clockVars == <<now, sleepers, count>>
taskVars  == <<ready, step, turn, cancelling, alarm, doomed>>
mockVars  == <<loaded, crashed, attempts, started>>
vars == <<clockVars, taskVars, mockVars, test>>

NoTask == "none"
NoAlarm == [at |-> 0, no |-> 0, task |-> NoTask]
Idle == [mode |-> "idle", until |-> 0, task |-> NoTask, raised |-> NoTask]
Over(t) == step[t] \in {"done", "failed", "stopped"}

Init ==
    /\ now = 0 /\ sleepers = {} /\ count = 0
    /\ ready = <<>> /\ step = [t \in Tasks |-> "new"] /\ turn = [t \in Tasks |-> 0]
    /\ cancelling = {} /\ alarm = [t \in Tasks |-> NoAlarm] /\ doomed = {}
    /\ loaded = FALSE /\ crashed = FALSE /\ attempts = 0 /\ started = 0
    /\ test = Idle

-----------------------------------------------------------------------------
(* Tasks *)

\* The caller of start and stop waits for one before it calls the next.
Switches(t) == Kind[t] \in {"start", "stop"}

Begin(t) ==
    /\ test.mode = "idle" /\ step[t] = "new"
    /\ Switches(t) => \A other \in Tasks : ~(Switches(other) /\ step[other] = "running")
    /\ step' = [step EXCEPT ![t] = "running"]
    /\ ready' = Append(ready, t)
    /\ UNCHANGED <<clockVars, turn, cancelling, alarm, doomed, mockVars, test>>

\* Task.cancel: a task that waits is made to run again.
Cancel(t) ==
    /\ t \in Cancellable /\ step[t] = "running" /\ t \notin cancelling
    /\ cancelling' = cancelling \cup {t}
    /\ ready' = IF t \in ToSet(ready) THEN ready ELSE Append(ready, t)
    /\ UNCHANGED <<clockVars, step, turn, alarm, doomed, mockVars, test>>

\* VirtualClock.sleep, called by the task at the head of ready.
Sleeps(t, seconds) ==
    IF seconds = 0
    THEN /\ ready' = Append(Tail(ready), t)
         /\ alarm' = [alarm EXCEPT ![t] = NoAlarm]
         /\ UNCHANGED <<sleepers, count>>
    ELSE LET entry == [at |-> now + seconds, no |-> count, task |-> t] IN
         /\ ready' = Tail(ready)
         /\ alarm' = [alarm EXCEPT ![t] = entry]
         /\ sleepers' = sleepers \cup {entry} /\ count' = count + 1

Ends(t, how) ==
    /\ step' = [step EXCEPT ![t] = how]
    /\ ready' = Tail(ready)
    /\ alarm' = [alarm EXCEPT ![t] = NoAlarm]

\* A cancelled sleeper discards its entry.
Stops(t) ==
    /\ ready # <<>> /\ t = Head(ready) /\ t \in cancelling
    /\ cancelling' = cancelling \ {t}
    /\ sleepers' = sleepers \ {alarm[t]}
    /\ Ends(t, "stopped")
    /\ UNCHANGED <<now, count, turn, doomed, mockVars, test>>

\* The head of ready goes on, in its n-th turn.
Resumes(t, n) ==
    /\ ready # <<>> /\ t = Head(ready) /\ t \notin cancelling /\ turn[t] = n
    /\ turn' = [turn EXCEPT ![t] = @ + 1]
    /\ UNCHANGED <<now, cancelling, test>>

\* MockBackend.start.
StartCalled(t) ==
    /\ Kind[t] = "start" /\ Resumes(t, 0)
    /\ attempts' = attempts + 1
    /\ Sleeps(t, Load)
    /\ UNCHANGED <<step, doomed, loaded, crashed, started>>

StartReturns(t) ==
    /\ Kind[t] = "start" /\ Resumes(t, 1)
    /\ IF FailEvery > 0 /\ attempts % FailEvery = 0
       THEN Ends(t, "failed") /\ UNCHANGED <<loaded, crashed, started>>
       ELSE Ends(t, "done") /\ loaded' = TRUE /\ crashed' = FALSE /\ started' = 0
    /\ UNCHANGED <<sleepers, count, doomed, attempts>>

\* MockBackend.stop.
Unloaded(t) == loaded' = FALSE /\ crashed' = FALSE /\ Ends(t, "done")
StopCalled(t) ==
    /\ Kind[t] = "stop" /\ Resumes(t, 0)
    /\ IF loaded \/ crashed THEN Sleeps(t, Unload) /\ UNCHANGED <<step, loaded, crashed>>
       ELSE Unloaded(t) /\ UNCHANGED <<sleepers, count>>
    /\ UNCHANGED <<doomed, attempts, started>>
StopReturns(t) ==
    /\ Kind[t] = "stop" /\ Resumes(t, 1)
    /\ Unloaded(t)
    /\ UNCHANGED <<sleepers, count, doomed, attempts, started>>

\* MockBackend.stream: refused, or counted and on its way to the first token.
StreamCalled(t) ==
    /\ Kind[t] = "stream" /\ Resumes(t, 0)
    /\ IF crashed \/ ~loaded
       THEN Ends(t, "failed") /\ UNCHANGED <<sleepers, count, doomed, started>>
       ELSE /\ started' = started + 1
            /\ doomed' = IF CrashAfter > 0 /\ started' > CrashAfter THEN doomed \cup {t} ELSE doomed
            /\ Sleeps(t, FirstToken)
            /\ UNCHANGED step
    /\ UNCHANGED <<loaded, crashed, attempts>>

\* In turn n it yields its n-th chunk, unless it has yielded all, or dies "a couple of
\* tokens in".
StreamGoesOn(t, n) ==
    /\ Kind[t] = "stream" /\ n > 0 /\ Resumes(t, n)
    /\ CASE n > Budget -> Ends(t, "done") /\ UNCHANGED <<sleepers, count, loaded, crashed>>
         [] n <= Budget /\ t \in doomed /\ n > 2 ->
              /\ Ends(t, "failed") /\ crashed' = TRUE /\ loaded' = FALSE
              /\ UNCHANGED <<sleepers, count>>
         [] OTHER -> Sleeps(t, Interval) /\ UNCHANGED <<step, loaded, crashed>>
    /\ UNCHANGED <<doomed, attempts, started>>

\* Something other than the clock is waited for.
Waits(t) ==
    /\ Kind[t] = "event" /\ Resumes(t, 0)
    /\ ready' = Tail(ready)
    /\ UNCHANGED <<sleepers, count, alarm, step, doomed, mockVars>>

TaskStep(t) ==
    \/ Stops(t) \/ StartCalled(t) \/ StartReturns(t) \/ StopCalled(t) \/ StopReturns(t)
    \/ StreamCalled(t) \/ (\E n \in 1..Budget + 1 : StreamGoesOn(t, n)) \/ Waits(t)

-----------------------------------------------------------------------------
(* The test *)

Settled == ready = <<>>

\* advance, advance_to.
AdvanceTo(until) ==
    /\ test.mode = "idle" /\ until > now
    /\ test' = [Idle EXCEPT !.mode = "advance", !.until = until]
    /\ UNCHANGED <<clockVars, taskVars, mockVars>>

Drive(t) ==
    /\ test.mode = "idle" /\ step[t] = "running"
    /\ test' = [Idle EXCEPT !.mode = "drive", !.task = t]
    /\ UNCHANGED <<clockVars, taskVars, mockVars>>

Earliest == CHOOSE at \in {e.at : e \in sleepers} : \A e \in sleepers : at <= e.at
Latest(a, b) == IF a < b THEN b ELSE a

\* Everything due is woken, in the order of the heap.
Precedes(d, e) == d.at < e.at \/ (d.at = e.at /\ d.no < e.no)
Woken(due) ==
    [i \in 1..Cardinality(due) |->
       CHOOSE e \in due : Cardinality({d \in due : Precedes(d, e)}) = i - 1]

Fires ==
    LET due == {e \in sleepers : e.at <= now'}
        order == Woken(due) IN
    /\ sleepers' = sleepers \ due
    /\ ready' = [i \in DOMAIN order |-> order[i].task]
    /\ UNCHANGED <<count, step, turn, cancelling, alarm, doomed, mockVars, test>>

\* The loop of advance_to, and its end.
StraightTo ==                                        \* mutant of Advances
    /\ test.mode = "advance" /\ Settled /\ sleepers # {} /\ Earliest <= test.until
    /\ now' = Latest(now, test.until)
    /\ Fires
Advances ==
    /\ test.mode = "advance" /\ Settled /\ sleepers # {} /\ Earliest <= test.until
    /\ now' = Latest(now, Earliest)
    /\ Fires

Arrives ==
    /\ test.mode = "advance" /\ Settled /\ \A e \in sleepers : e.at > test.until
    /\ now' = Latest(now, test.until)
    /\ test' = Idle
    /\ UNCHANGED <<sleepers, count, taskVars, mockVars>>

\* drive, with advance_to_next.
DrivesOn ==
    /\ test.mode = "drive" /\ Settled /\ ~Over(test.task) /\ sleepers # {}
    /\ now' = Latest(now, Earliest)
    /\ Fires

DriveReturns ==
    /\ test.mode = "drive" /\ Over(test.task)
    /\ test' = Idle
    /\ UNCHANGED <<clockVars, taskVars, mockVars>>

SettlesForEver ==                                    \* mutant of DriveRaises
    test.mode = "drive" /\ Settled /\ ~Over(test.task) /\ sleepers = {} /\ UNCHANGED vars
DriveRaises ==
    /\ test.mode = "drive" /\ Settled /\ ~Over(test.task) /\ sleepers = {}
    /\ test' = [Idle EXCEPT !.raised = test.task]
    /\ UNCHANGED <<clockVars, taskVars, mockVars>>

TestStep == Advances \/ Arrives \/ DrivesOn \/ DriveReturns \/ DriveRaises
Finished == test.mode = "idle" /\ now >= Horizon /\ UNCHANGED vars

Next ==
    \/ \E t \in Tasks : Begin(t) \/ Cancel(t) \/ TaskStep(t) \/ Drive(t)
    \/ \E until \in 1..Horizon : AdvanceTo(until)
    \/ TestStep \/ Finished

Spec == Init /\ [][Next]_vars

\* The event loop runs its tasks, and the test goes on with what it has begun.
FairSpec ==
    /\ Spec /\ WF_vars(\E t \in Tasks : TaskStep(t)) /\ WF_vars(TestStep)
=============================================================================
