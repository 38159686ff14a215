------------------------ MODULE SimulationProperties ------------------------
(***************************************************************************)
(* What tests may rely on when they run the scheduler in simulated time,    *)
(* stated over Simulation.                                                  *)
(***************************************************************************)
EXTENDS Simulation

\* Every variable holds a value of its kind, and a backend is never both loaded and
\* crashed.
TypeOK ==
    /\ now \in Nat /\ count \in Nat /\ attempts \in Nat /\ started \in Nat
    /\ \A e \in sleepers : e.task \in Tasks /\ e.no < count /\ e = alarm[e.task]
    /\ ToSet(ready) \subseteq {t \in Tasks : step[t] = "running"} /\ IsInjective(ready)
    /\ step \in [Tasks -> {"new", "running", "done", "failed", "stopped"}]
    /\ turn \in [Tasks -> 0..Budget + 2]
    /\ cancelling \subseteq ToSet(ready) /\ doomed \subseteq Tasks
    /\ ~(loaded /\ crashed)
    /\ test.mode \in {"idle", "advance", "drive"} /\ test.until \in 0..Horizon
    /\ {test.task, test.raised} \subseteq Tasks \cup {NoTask}

\* "A task sleeping until t=5 always observes everything that happened at t<5": a sleeper
\* runs exactly at its deadline, however far the clock was told to go, and none is left
\* behind.
WokenOnTime ==
    /\ \A t \in ToSet(ready) \ cancelling : alarm[t] # NoAlarm => alarm[t].at = now
    /\ \A e \in sleepers : e.at > now

\* "Everything due at this instant wakes together, in registration order."
WokenInOrder ==
    \A i, j \in DOMAIN ready :
      i < j /\ {ready[i], ready[j]} \cap cancelling = {} /\ alarm[ready[j]] # NoAlarm
        => alarm[ready[i]] # NoAlarm /\ alarm[ready[i]].no < alarm[ready[j]].no

\* "A cancelled sleeper must not hold time back at its deadline": once the tasks have
\* settled, the heap holds the tasks that still sleep and no others.
CancelledHoldsNothing ==
    Settled => \A e \in sleepers : step[e.task] = "running"

\* Simulated time is time: nobody is late, nobody is out of turn, nobody who has left
\* holds it back.
TimeIsHonest == TypeOK /\ WokenOnTime /\ WokenInOrder /\ CancelledHoldsNothing

\* drive() gives up only on a task that waits for something other than the clock.
RaisesOnlyWhenStuck == test.raised # NoTask => Kind[test.raised] = "event"

\* advance() and drive() return: simulated time runs out of things to do.
TestGoesOn == test.mode # "idle" ~> test.mode = "idle"

\* drive() drives its task to its end, or says with reason that it cannot.
DriveIsSound == []RaisesOnlyWhenStuck /\ TestGoesOn
=============================================================================
