------------------------------- MODULE Policy -------------------------------
(***************************************************************************)
(* The scheduling policy of `sir` (src/src/sir/policy.py): a pure function *)
(* from a snapshot of the scheduler to a decision.  Nothing here has state;*)
(* the Engine module calls Decide at the point where the control loop does.*)
(*                                                                         *)
(* Times are durations in whole units, measured back from the moment of    *)
(* the decision: `wait` and `idle` are ages, `backoff` is what is left of a *)
(* backend's retry delay.  The code's floats are scaled to integers; only  *)
(* comparisons and linear combinations of them matter to the policy.       *)
(***************************************************************************)
EXTENDS Integers, FiniteSets

CONSTANTS
    Models,         \* the configured models
    None,           \* "no model", outside Models
    Rank,           \* a model's place in the config file: `max` keeps the first
    Priority,       \* ModelConfig.priority
    LoadCost,       \* ModelConfig.estimated_load_seconds
    AgeWeight, DepthWeight, SwitchWeight,
    MaxWait,        \* SchedulerConfig.max_wait_seconds, the starvation ceiling
    MinResidency    \* SchedulerConfig.min_residency_seconds, the hysteresis

ASSUME PolicyConfig ==
    /\ IsFiniteSet(Models) /\ Models # {} /\ None \notin Models
    /\ Rank \in [Models -> Nat]
    /\ \A m, n \in Models : Rank[m] = Rank[n] => m = n
    /\ Priority \in [Models -> Nat \ {0}]
    /\ LoadCost \in [Models -> Nat]
    /\ AgeWeight \in Nat /\ DepthWeight \in Nat /\ SwitchWeight \in Nat
    /\ MaxWait \in Nat /\ MinResidency \in Nat
    /\ MinResidency < MaxWait

-----------------------------------------------------------------------------
(* Snapshots and decisions *)

\* idle_since is None: the resident model has had work since it was last asked.
NotIdle == -1

Snapshot == [ resident     : Models \cup {None},
              inTransition : BOOLEAN,          \* snapshot.switching or draining
              depth        : [Models -> Nat],  \* live queued requests
              wait         : [Models -> Nat],  \* age of the oldest live request
              inFlight     : Nat,              \* of the resident model
              residency    : Nat,              \* time since the resident loaded
              idle         : Nat \cup {NotIdle},
              backoff      : [Models -> Nat] ] \* 0: the backend may be started

\* What a snapshot taken by Engine._snapshot satisfies: no age without a request,
\* nothing in flight without a resident, and an idle resident is truly dry.
WellFormed(s) ==
    /\ \A m \in Models : s.depth[m] = 0 => s.wait[m] = 0
    /\ s.resident = None => s.inFlight = 0 /\ s.residency = 0 /\ s.idle = NotIdle
    /\ s.idle # NotIdle =>
         s.depth[s.resident] = 0 /\ s.inFlight = 0 /\ s.idle <= s.residency

Decision(kind, reason, target) == [kind |-> kind, reason |-> reason, target |-> target]

-----------------------------------------------------------------------------
(* Reading a snapshot *)

HasPending(s, m) == s.depth[m] > 0

AvailableAnyway(s, m) == TRUE                        \* mutant of Available
Available(s, m) == s.backoff[m] = 0

WithWork(s) == {m \in Models : HasPending(s, m)}
Servable(s) == {m \in WithWork(s) : Available(s, m)}

ResidentBusy(s) == s.depth[s.resident] > 0 \/ s.inFlight > 0

IdleFor(s) == IF s.idle = NotIdle THEN 0 ELSE s.idle

\* Python's max(xs, key=...): of the models with the greatest key, the first one
\* in configuration order.
Greatest(S, key) == {m \in S : \A n \in S : key[n] <= key[m]}
ArgMax(S, key) ==
    CHOOSE m \in Greatest(S, key) : \A n \in Greatest(S, key) : Rank[m] <= Rank[n]

-----------------------------------------------------------------------------
(* Scoring.  An unavailable model scores -inf in the code; no branch of      *)
(* `decide` reads that score, because the choice is made among the servable  *)
(* models and the incumbent is known to be available when it is compared.    *)

SwitchCost(m) == SwitchWeight * LoadCost[m]

Demand(s, m) == AgeWeight * s.wait[m] + DepthWeight * s.depth[m]

AgeCounts(s, m) ==                                   \* mutant of Score
    IF HasPending(s, m)
    THEN Priority[m] * (DepthWeight * s.depth[m] - AgeWeight * s.wait[m])
         - (IF m = s.resident THEN 0 ELSE SwitchCost(m))
    ELSE 0
Score(s, m) ==
    IF HasPending(s, m)
    THEN Priority[m] * Demand(s, m) - (IF m = s.resident THEN 0 ELSE SwitchCost(m))
    ELSE 0

Best(s) == ArgMax(Servable(s), [m \in Servable(s) |-> Score(s, m)])

-----------------------------------------------------------------------------
(* The decision, branch by branch *)

\* Step 1: the models past the ceiling that could be loaded now.
Overdue(s) == {m \in Servable(s) : m # s.resident /\ s.wait[m] >= MaxWait}
LongestOverdue(s) == ArgMax(Overdue(s), s.wait)

\* Step 5: a freshly loaded resident keeps the GPU from `challenger` while it is
\* busy, or idle for less than the swap would cost.
NeverHeld(s, challenger) == FALSE                    \* mutant of Held
Held(s, challenger) ==
    /\ challenger # s.resident
    /\ s.residency < MinResidency
    /\ ResidentBusy(s) \/ IdleFor(s) < SwitchCost(challenger)

\* Step 6: the challenger must beat the incumbent, a tie keeps the GPU still.
Outscores(s, challenger) == Score(s, challenger) > Score(s, s.resident)

Finished(s, challenger) ==
    ~ResidentBusy(s) /\ IdleFor(s) >= SwitchCost(challenger)

\* Steps 4 to 6, for a snapshot that has a servable model and none overdue.
Contest(s) ==
    LET best == Best(s) IN
    IF s.resident = None
    THEN Decision("switch", "cold_start", best)
    ELSE IF ~Available(s, s.resident)
    THEN Decision("switch", "backend_unavailable", best)
    ELSE IF Held(s, best)
    THEN Decision("hold", "min_residency", None)
    ELSE IF best = s.resident
    THEN Decision(IF Cardinality(Servable(s)) = 1 THEN "serve" ELSE "hold",
                  "resident_wins", None)
    ELSE IF Outscores(s, best)
    THEN Decision("switch",
                  IF Finished(s, best) THEN "resident_idle" ELSE "challenger_wins",
                  best)
    ELSE Decision("hold", "resident_wins", None)

\* The order of the branches is the policy: the ceiling outranks hysteresis,
\* which outranks scoring.
CeilingLast(s) ==                                    \* mutant of Decide
    IF s.inTransition THEN Decision("hold", "in_transition", None)
    ELSE IF WithWork(s) = {} THEN Decision("idle", "no_work", None)
    ELSE IF Servable(s) = {} THEN Decision("idle", "backend_unavailable", None)
    ELSE IF Overdue(s) # {} /\ Contest(s).kind = "switch"
    THEN Decision("switch", "starvation", LongestOverdue(s))
    ELSE Contest(s)
Decide(s) ==
    IF s.inTransition THEN Decision("hold", "in_transition", None)
    ELSE IF Overdue(s) # {} THEN Decision("switch", "starvation", LongestOverdue(s))
    ELSE IF WithWork(s) = {} THEN Decision("idle", "no_work", None)
    ELSE IF Servable(s) = {} THEN Decision("idle", "backend_unavailable", None)
    ELSE Contest(s)
=============================================================================
