----------------------------- MODULE PolicyWorld -----------------------------
(***************************************************************************)
(* Every snapshot the policy can be shown, and the three things that change *)
(* one snapshot into the next as far as the policy can tell: time passes, a *)
(* request arrives, or the engine carries a switch out.  The properties say *)
(* what `decide` promises whatever the weights of the score are.            *)
(***************************************************************************)
EXTENDS Estimate

CONSTANTS MaxDepth,    \* bound on a queue's depth
          MaxAge,      \* bound on every age
          MaxBackoff,  \* bound on a retry delay
          MaxLoad      \* bound on how long a load takes

ASSUME WorldBounds ==
    /\ MaxDepth \in Nat /\ MaxBackoff \in Nat /\ MaxLoad \in Nat
    /\ MaxAge \in Nat /\ MaxAge >= MaxWait

VARIABLE snap

BoundedSnapshot ==
    [ resident : Models \cup {None}, inTransition : BOOLEAN,
      depth : [Models -> 0..MaxDepth], wait : [Models -> 0..MaxAge],
      inFlight : 0..1, residency : 0..MinResidency,
      idle : 0..MinResidency \cup {NotIdle}, backoff : [Models -> 0..MaxBackoff] ]

Init == snap \in {s \in BoundedSnapshot : WellFormed(s)}

UpTo(cap, n) == IF n < cap THEN n ELSE cap
Older(s, d) ==
    [m \in Models |-> IF HasPending(s, m) THEN UpTo(MaxAge, s.wait[m] + d) ELSE 0]
Sooner(b, d) == [m \in Models |-> IF b[m] > d THEN b[m] - d ELSE 0]

\* The clock moves on and nothing else happens; ages stop at their bounds.
Elapse ==
    snap' = [snap EXCEPT
      !.wait = Older(snap, 1),
      !.residency = IF snap.resident = None THEN 0 ELSE UpTo(MinResidency, @ + 1),
      !.idle = IF @ = NotIdle THEN @ ELSE UpTo(MinResidency, @ + 1),
      !.backoff = Sooner(@, 1)]

\* ModelQueues.enqueue, seen through a snapshot.
Arrive(m) ==
    /\ snap.depth[m] < MaxDepth
    /\ snap' = [snap EXCEPT
         !.depth[m] = @ + 1,
         !.idle = IF m = snap.resident THEN NotIdle ELSE @]

\* Engine._switch, seen through the snapshots before and after it: the load took
\* d, nothing is in flight, and the new resident starts its residency.
Swap(d) ==
    /\ Decide(snap).kind = "switch"
    /\ snap' = [snap EXCEPT
         !.resident = Decide(snap).target,
         !.wait = Older(snap, d),
         !.inFlight = 0, !.residency = 0, !.idle = NotIdle,
         !.backoff = Sooner(@, d)]

Next ==
    \/ Elapse
    \/ \E m \in Models : Arrive(m)
    \/ \E d \in 0..MaxLoad : Swap(d)

Spec == Init /\ [][Next]_snap

-----------------------------------------------------------------------------
Free(s) == ~s.inTransition

\* Every snapshot the environment produces is one the engine could take, and
\* the decision on it names a model exactly when it asks for a switch.
TypeOK ==
    /\ snap \in BoundedSnapshot /\ WellFormed(snap)
    /\ Decide(snap).kind \in {"idle", "serve", "hold", "switch"}
    /\ (Decide(snap).target \in Models) <=> (Decide(snap).kind = "switch")

\* The ceiling is not a weight: as soon as one loadable model has waited for
\* max_wait_seconds the GPU goes to an overdue model, whatever hysteresis and
\* the scores say, and to none that another overdue model has outwaited.
CeilingOutranksAll ==
    \A m \in Models :
      Free(snap) /\ m # snap.resident /\ m \in Servable(snap)
        /\ snap.wait[m] >= MaxWait
      => /\ Decide(snap).kind = "switch"
         /\ snap.wait[Decide(snap).target] >= snap.wait[m]

\* A swap is only paid for a model that has live work and a backend that may be
\* started, and only because nobody usable holds the GPU, or the ceiling was
\* reached, or the challenger is worth strictly more than the incumbent.
SwapIsWarranted ==
    Decide(snap).kind = "switch" =>
      LET t == Decide(snap).target IN
      /\ t # snap.resident
      /\ snap.depth[t] > 0
      /\ snap.backoff[t] = 0
      /\ \/ snap.resident = None
         \/ snap.backoff[snap.resident] > 0
         \/ snap.wait[t] >= MaxWait
         \/ Score(snap, t) > Score(snap, snap.resident)

\* Hysteresis: a resident model that loaded less than min_residency_seconds ago
\* and still has work, queued or generating, loses the GPU to nothing but the
\* ceiling (or to the loss of its own backend).
WindowIsProtected ==
    /\ snap.resident # None
    /\ snap.residency < MinResidency
    /\ snap.depth[snap.resident] > 0 \/ snap.inFlight > 0
    /\ Decide(snap).kind = "switch"
    => \/ snap.wait[Decide(snap).target] >= MaxWait
       \/ snap.backoff[snap.resident] > 0

\* The other side of hysteresis: from a challenger that is worth more than the incumbent
\* and than every other model, the GPU is kept only inside the window, and there only for
\* work at hand or while the resident has been idle for less than the swap would cost.
HoldIsLimited ==
    \A m \in Servable(snap) \ {snap.resident} :
      /\ Free(snap) /\ Decide(snap).kind \in {"serve", "hold"}
      /\ \A n \in (Servable(snap) \cup {snap.resident}) \ {m} : Score(snap, n) < Score(snap, m)
      => /\ snap.residency < MinResidency
         /\ \/ snap.depth[snap.resident] > 0 \/ snap.inFlight > 0
            \/ snap.idle = NotIdle \/ snap.idle < SwitchCost(m)

\* The GPU is left without work only when no backend could take any: otherwise
\* the decision is a switch, or a serve or hold by a resident that can serve.
WorkIsNeverIgnored ==
    Free(snap) =>
      /\ Decide(snap).kind = "idle" => Servable(snap) = {}
      /\ Decide(snap).kind \in {"serve", "hold"} =>
           snap.resident # None /\ snap.backoff[snap.resident] = 0

\* The estimate and the decision agree on when the GPU may change hands: a usable
\* resident with work loses it only to a model that is told of no wait but its load.
SwitchMeansWaitOver ==
    /\ snap.resident # None /\ Available(snap, snap.resident)
    /\ ResidentBusy(snap)
    /\ Decide(snap).kind = "switch"
    => GpuWait(snap, Decide(snap).target) = LoadCost[Decide(snap).target]

\* What a decision may be based on, whatever the weights: it is one of the four kinds and
\* has a target just when it is a switch; a swap is warranted, a window protected and no
\* longer than it should be, work left undone only for want of a backend, and the wait
\* announced is over.
DecisionIsSound ==
    /\ TypeOK /\ SwapIsWarranted /\ WindowIsProtected /\ WorkIsNeverIgnored
    /\ HoldIsLimited /\ SwitchMeansWaitOver

Aged(s, m) == [s EXCEPT !.wait[m] = @ + 1]

\* Waiting longer never costs a model the GPU: a model chosen at some age is
\* still chosen when its oldest request is older and all else is equal, and an
\* incumbent that keeps the GPU still keeps it when its own work is older.
PatienceIsNeverPunished ==
    \A m \in WithWork(snap) :
      /\ Decide(snap).target = m => Decide(Aged(snap, m)).target = m
      /\ m = snap.resident /\ Decide(snap).kind # "switch"
           => Decide(Aged(snap, m)).kind # "switch"

\* An estimate stays true while nothing happens: what a queued request is told shrinks
\* by exactly the time that passes, down to the load and the requests ahead of it; and the
\* client that is to call again after a quarter of it is asked back no later than before,
\* and sooner by no more than a quarter of the time that has passed.
EstimateCountsDown ==
    [][Elapse =>
         \A m \in WithWork(snap) : \A p \in 0..(snap.depth[m] - 1) :
           LET rest == Estimated(snap, m, p) - GpuWait(snap, m) + LoadSeconds(snap, m) IN
           /\ Estimated(snap', m, p) = Larger(rest, Estimated(snap, m, p) - 1)
           /\ RetryAfter(snap', m, p) \in (RetryAfter(snap, m, p) - 1)..RetryAfter(snap, m, p)
      ]_snap

\* No bounce: straight after a switch, however long the load took, the policy
\* does not move the GPU again unless the ceiling orders it to, so a window buys
\* at least one dispatch.  (What the exception leads to is stated by
\* NoModelWaitsIndefinitely in EngineProperties.)
NoBounce ==
    [][\A d \in 0..MaxLoad : Swap(d) /\ Decide(snap').kind = "switch"
         => Decide(snap').reason = "starvation"]_snap
=============================================================================
