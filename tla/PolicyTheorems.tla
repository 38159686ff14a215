--------------------------- MODULE PolicyTheorems ---------------------------
(***************************************************************************)
(* The properties of PolicyWorld, proved for any number of models, any      *)
(* weights, priorities and costs, and any bounds of the world.              *)
(***************************************************************************)
EXTENDS PolicyWorld, PolicyProofs

-----------------------------------------------------------------------------
(* The world *)

\* What is inductive: the snapshot is one that Engine._snapshot could take.
Possible == snap \in BoundedSnapshot /\ WellFormed(snap)

LEMMA BoundedIsSnapshot ==
  ASSUME NEW s \in BoundedSnapshot
  PROVE  s \in Snapshot
BY PolicyConfig, WorldBounds DEF BoundedSnapshot, Snapshot, NotIdle

LEMMA OlderIsBounded ==
  ASSUME NEW s \in BoundedSnapshot, NEW d \in Nat
  PROVE  /\ Older(s, d) \in [Models -> 0..MaxAge]
         /\ \A m \in Models : s.depth[m] = 0 => Older(s, d)[m] = 0
         /\ Sooner(s.backoff, d) \in [Models -> 0..MaxBackoff]
         /\ \A m \in Models : s.backoff[m] = 0 => Sooner(s.backoff, d)[m] = 0
BY WorldBounds DEF BoundedSnapshot, Older, Sooner, HasPending, UpTo

\* Time, arrivals and switches lead from possible snapshots to possible ones.
LEMMA PossibleStays == Possible /\ [Next]_snap => Possible'
<1> SUFFICES ASSUME Possible, [Next]_snap PROVE Possible'
  OBVIOUS
<1> USE DEF Possible
<1>0. /\ snap \in BoundedSnapshot /\ snap \in Snapshot
      /\ MinResidency \in Nat /\ MaxDepth \in Nat
  BY PolicyConfig, WorldBounds, BoundedIsSnapshot
<1>1. CASE Elapse
  <2>1. /\ Older(snap, 1) \in [Models -> 0..MaxAge]
        /\ \A m \in Models : snap.depth[m] = 0 => Older(snap, 1)[m] = 0
        /\ Sooner(snap.backoff, 1) \in [Models -> 0..MaxBackoff]
    BY <1>0, OlderIsBounded
  <2> HIDE DEF Older, Sooner
  <2>r. /\ snap'.residency \in 0..MinResidency
        /\ snap'.idle \in 0..MinResidency \cup {NotIdle}
    BY <1>0, <1>1 DEF Elapse, BoundedSnapshot, UpTo, NotIdle
  <2>2. snap' \in BoundedSnapshot
    BY <1>0, <1>1, <2>1, <2>r, Zenon DEF Elapse, BoundedSnapshot
  <2>3. WellFormed(snap')
    BY <1>0, <1>1, <2>1 DEF Elapse, BoundedSnapshot, WellFormed, UpTo, NotIdle
  <2> QED
    BY <2>2, <2>3
<1>2. ASSUME NEW m \in Models, Arrive(m) PROVE Possible'
  <2>1. snap' \in BoundedSnapshot
    <3>1. [snap.depth EXCEPT ![m] = @ + 1] \in [Models -> 0..MaxDepth]
      BY <1>0, <1>2 DEF Arrive, BoundedSnapshot
    <3>2. snap' = [snap EXCEPT !.depth = [snap.depth EXCEPT ![m] = @ + 1],
                               !.idle = IF m = snap.resident THEN NotIdle ELSE @]
      BY <1>0, <1>2 DEF Arrive, BoundedSnapshot
    <3> QED
      BY <1>0, <3>1, <3>2 DEF BoundedSnapshot
  <2>2. WellFormed(snap')
    BY <1>0, <1>2, PolicyConfig DEF Arrive, BoundedSnapshot, WellFormed, NotIdle
  <2> QED
    BY <2>1, <2>2
<1>3. ASSUME NEW d \in 0..MaxLoad, Swap(d) PROVE Possible'
  <2>0. d \in Nat
    BY <1>3, WorldBounds
  <2>1. /\ Older(snap, d) \in [Models -> 0..MaxAge]
        /\ \A m \in Models : snap.depth[m] = 0 => Older(snap, d)[m] = 0
        /\ Sooner(snap.backoff, d) \in [Models -> 0..MaxBackoff]
    BY <1>0, <2>0, OlderIsBounded
  <2>2. Decide(snap).kind = "switch" /\ ~snap.inTransition
    BY <1>3 DEF Swap, Decide, Decision
  <2>3. Decide(snap).target \in Models
    BY <1>0, <2>2, DecideSound DEF Servable, WithWork
  <2>4. snap' \in BoundedSnapshot
    <3>1. 0 \in 0..MinResidency /\ 0 \in 0..1
      BY <1>0
    <3> QED
      BY <1>0, <1>3, <2>1, <2>3, <3>1, Zenon DEF Swap, BoundedSnapshot
  <2>5. WellFormed(snap')
    BY <1>0, <1>3, <2>1, <2>3, PolicyConfig DEF Swap, BoundedSnapshot, WellFormed
  <2> QED
    BY <2>4, <2>5
<1>4. CASE UNCHANGED snap
  BY <1>4
<1> QED
  BY <1>1, <1>2, <1>3, <1>4 DEF Next

\* The snapshot is always a possible one.
THEOREM AlwaysPossible == Spec => []Possible
<1>1. Init => Possible
  BY DEF Init, Possible
<1> QED
  BY <1>1, PossibleStays, PTL DEF Spec

-----------------------------------------------------------------------------
(* The decision on a possible snapshot *)

\* Only a switch has a target.
LEMMA OnlySwitchHasTarget ==
  ASSUME NEW s \in Snapshot
  PROVE  /\ Decide(s).kind \in {"idle", "serve", "hold", "switch"}
         /\ Decide(s).kind # "switch" => Decide(s).target = None
         /\ Decide(s).kind = "switch" => ~s.inTransition
<1>1. CASE s.inTransition
  BY <1>1 DEF Decide, Decision
<1>2. CASE ~s.inTransition /\ Overdue(s) # {}
  BY <1>2 DEF Decide, Decision
<1>3. CASE ~s.inTransition /\ Overdue(s) = {} /\ Servable(s) = {}
  BY <1>3 DEF Decide, Decision
<1>4. CASE ~s.inTransition /\ Overdue(s) = {} /\ Servable(s) # {}
  <2>1. Decide(s) = Contest(s)
    BY <1>4 DEF Decide, Servable
  <2> QED
    BY <1>4, <2>1, ContestSound
<1> QED
  BY <1>1, <1>2, <1>3, <1>4

LEMMA TypeFollows == Possible => TypeOK
<1> SUFFICES ASSUME Possible PROVE TypeOK
  OBVIOUS
<1>1. snap \in Snapshot
  BY BoundedIsSnapshot DEF Possible
<1>2. Decide(snap).kind = "switch" => Decide(snap).target \in Models
  BY <1>1, OnlySwitchHasTarget, DecideSound DEF Servable, WithWork
<1>3. Decide(snap).kind # "switch" => Decide(snap).target \notin Models
  BY <1>1, OnlySwitchHasTarget, PolicyConfig
<1> QED
  BY <1>1, <1>2, <1>3, OnlySwitchHasTarget DEF TypeOK, Possible

LEMMA CeilingFollows == Possible => CeilingOutranksAll
<1> SUFFICES ASSUME Possible, NEW m \in Models, Free(snap), m # snap.resident,
                    m \in Servable(snap), snap.wait[m] >= MaxWait
             PROVE  /\ Decide(snap).kind = "switch"
                    /\ snap.wait[Decide(snap).target] >= snap.wait[m]
  BY DEF CeilingOutranksAll
<1>1. snap \in Snapshot
  BY BoundedIsSnapshot DEF Possible
<1> QED
  BY <1>1, CeilingTheorem DEF Free

LEMMA WarrantFollows == Possible => SwapIsWarranted
<1> SUFFICES ASSUME Possible, Decide(snap).kind = "switch" PROVE SwapIsWarranted
  BY DEF SwapIsWarranted
<1> DEFINE t == Decide(snap).target
<1>1. snap \in Snapshot /\ ~snap.inTransition
  BY BoundedIsSnapshot, OnlySwitchHasTarget DEF Possible
<1>2. t \in Servable(snap) \ {snap.resident}
  BY <1>1, DecideSound
<1>3. t \in Models /\ snap.depth[t] > 0 /\ snap.backoff[t] = 0 /\ t # snap.resident
  BY <1>2 DEF Servable, WithWork, HasPending, Available
<1>4. \/ snap.resident = None \/ snap.backoff[snap.resident] > 0
      \/ snap.wait[t] >= MaxWait \/ Score(snap, t) > Score(snap, snap.resident)
  <2>1. CASE Overdue(snap) # {}
    <3>1. t = LongestOverdue(snap)
      BY <1>1, <2>1 DEF Decide, Decision
    <3> QED
      BY <1>1, <2>1, <3>1, LongestOverdueIsOverdue DEF Overdue
  <2>2. CASE Overdue(snap) = {}
    <3>1. Servable(snap) # {} /\ Decide(snap) = Contest(snap)
      BY <1>1, <1>2, <2>2 DEF Decide, Servable
    <3>2. \/ snap.resident = None \/ ~Available(snap, snap.resident)
          \/ Outscores(snap, t)
      BY <1>1, <3>1, ContestSound
    <3>3. snap.resident # None => snap.backoff[snap.resident] \in Nat
      BY <1>1 DEF Snapshot
    <3> QED
      BY <3>2, <3>3 DEF Available, Outscores
  <2> QED
    BY <2>1, <2>2
<1> HIDE DEF t
<1>5. SwapIsWarranted <=>
        /\ t # snap.resident /\ snap.depth[t] > 0 /\ snap.backoff[t] = 0
        /\ \/ snap.resident = None \/ snap.backoff[snap.resident] > 0
           \/ snap.wait[t] >= MaxWait \/ Score(snap, t) > Score(snap, snap.resident)
  BY DEF SwapIsWarranted, t
<1> QED
  BY <1>3, <1>4, <1>5

LEMMA WindowFollows == Possible => WindowIsProtected
<1> SUFFICES ASSUME Possible, snap.resident # None, snap.residency < MinResidency,
                    snap.depth[snap.resident] > 0 \/ snap.inFlight > 0,
                    Decide(snap).kind = "switch", ~(snap.backoff[snap.resident] > 0)
             PROVE  snap.wait[Decide(snap).target] >= MaxWait
  BY DEF WindowIsProtected
<1>1. snap \in Snapshot /\ ~snap.inTransition
  BY BoundedIsSnapshot, OnlySwitchHasTarget DEF Possible
<1>2. snap.resident \in Models /\ Available(snap, snap.resident)
  BY <1>1 DEF Snapshot, Available
<1>3. ResidentBusy(snap)
  BY DEF ResidentBusy
<1>4. Decide(snap).target \in Overdue(snap)
  BY <1>1, <1>2, <1>3, HysteresisTheorem
<1> QED
  BY <1>4 DEF Overdue

LEMMA HoldFollows == Possible => HoldIsLimited
<1> SUFFICES ASSUME Possible, NEW m \in Servable(snap) \ {snap.resident},
                    Free(snap), Decide(snap).kind \in {"serve", "hold"},
                    \A n \in (Servable(snap) \cup {snap.resident}) \ {m} :
                      Score(snap, n) < Score(snap, m)
             PROVE  /\ snap.residency < MinResidency
                    /\ \/ snap.depth[snap.resident] > 0 \/ snap.inFlight > 0
                       \/ snap.idle = NotIdle \/ snap.idle < SwitchCost(m)
  BY DEF HoldIsLimited
<1>1. snap \in Snapshot /\ ~snap.inTransition
  BY BoundedIsSnapshot DEF Possible, Free
<1>2. snap.resident \in Models /\ Available(snap, snap.resident)
  BY <1>1, DecideSound
<1>3. snap.resident # None
  BY <1>2, PolicyConfig
<1>4. Best(snap) = m
  <2>1. Best(snap) \in Servable(snap) /\ Score(snap, m) <= Score(snap, Best(snap))
    BY <1>1, BestIsServable
  <2>2. Best(snap) \in Models /\ m \in Models
    BY <2>1 DEF Servable, WithWork
  <2>3. Score(snap, m) \in Int /\ Score(snap, Best(snap)) \in Int
    BY <1>1, <2>2, ScoreType
  <2>4. Best(snap) # m => Score(snap, Best(snap)) < Score(snap, m)
    BY <2>1
  <2> QED
    BY <2>1, <2>3, <2>4
<1>5. Outscores(snap, m)
  <2>1. snap.resident \in (Servable(snap) \cup {snap.resident}) \ {m}
    OBVIOUS
  <2>2. Score(snap, snap.resident) < Score(snap, m)
    BY <2>1
  <2>3. Score(snap, snap.resident) \in Int /\ Score(snap, m) \in Int
    BY <1>1, <1>2, ScoreType DEF Servable, WithWork
  <2> QED
    BY <2>2, <2>3 DEF Outscores
<1>6. Overdue(snap) = {} /\ Servable(snap) # {} /\ WithWork(snap) # {}
  <2>1. m \in Servable(snap) /\ m \in WithWork(snap)
    BY DEF Servable
  <2>2. Overdue(snap) = {}
    BY <1>1 DEF Decide, Decision
  <2> QED
    BY <2>1, <2>2
<1>7. Decide(snap) = Contest(snap)
  BY <1>1, <1>6 DEF Decide
<1>8. Held(snap, m)
  BY <1>2, <1>3, <1>4, <1>5, <1>7 DEF Contest, Decision
<1> QED
  BY <1>8 DEF Held, ResidentBusy, IdleFor

LEMMA WorkFollows == Possible => WorkIsNeverIgnored
<1> SUFFICES ASSUME Possible, Free(snap) PROVE WorkIsNeverIgnored
  BY DEF WorkIsNeverIgnored
<1>1. snap \in Snapshot /\ ~snap.inTransition
  BY BoundedIsSnapshot DEF Possible, Free
<1> QED
  BY <1>1, DecideSound, PolicyConfig DEF WorkIsNeverIgnored, Available

\* A usable resident with work loses the GPU only to a model that is told of no wait but
\* its load.
LEMMA SwitchFollowsWait == Possible => SwitchMeansWaitOver
<1> SUFFICES ASSUME Possible, snap.resident # None, Available(snap, snap.resident),
                    ResidentBusy(snap), Decide(snap).kind = "switch"
             PROVE  GpuWait(snap, Decide(snap).target) = LoadCost[Decide(snap).target]
  BY DEF SwitchMeansWaitOver
<1> DEFINE t == Decide(snap).target
<1>1. snap \in Snapshot /\ ~snap.inTransition
  BY BoundedIsSnapshot, OnlySwitchHasTarget DEF Possible
<1>2. t \in Servable(snap) \ {snap.resident}
  BY <1>1, DecideSound
<1>3. t \in Models /\ snap.backoff[t] = 0 /\ t # snap.resident
  BY <1>2 DEF Servable, WithWork, Available
<1>4. snap.residency \in Nat /\ snap.wait[t] \in Nat /\ LoadCost[t] \in Nat
      /\ MaxWait \in Nat /\ MinResidency \in Nat
  BY <1>1, <1>3, PolicyConfig DEF Snapshot
<1>5. snap.residency < MinResidency => snap.wait[t] >= MaxWait
  <2>1. snap.resident \in Models
    BY <1>1 DEF Snapshot
  <2> QED
    BY <1>1, <2>1, HysteresisTheorem DEF Overdue
<1> HIDE DEF t
<1>6. Lesser(Hold(snap), CeilingLeft(snap, t)) = 0
  BY <1>4, <1>5 DEF Hold, CeilingLeft, Lesser, AtLeastZero
<1>7. GpuWait(snap, t) = LoadCost[t]
  BY <1>3, <1>4, <1>6 DEF GpuWait, LoadSeconds, Larger
<1> QED
  BY <1>7 DEF t

\* At whatever snapshot the policy is asked, the ceiling outranks hysteresis and scores.
THEOREM CeilingAlways == Spec => []CeilingOutranksAll
BY AlwaysPossible, CeilingFollows, PTL

\* At whatever snapshot the policy is asked, its decision is of a known kind, warranted
\* when it is a swap, respectful of the window and of its end, idle only for want of a backend,
\* and in keeping with the wait it announces.
THEOREM DecisionsAreSound == Spec => []DecisionIsSound
<1>1. Possible => DecisionIsSound
  BY TypeFollows, WarrantFollows, WindowFollows, HoldFollows, WorkFollows, SwitchFollowsWait
     DEF DecisionIsSound
<1> QED
  BY <1>1, AlwaysPossible, PTL

-----------------------------------------------------------------------------
(* After a switch *)

\* With a window of any length, a switch is followed by another only at the ceiling's
\* order.
LEMMA NoBounceStep ==
  ASSUME MinResidency > 0, Possible, NEW d \in 0..MaxLoad, Swap(d),
         Decide(snap').kind = "switch", Possible'
  PROVE  Decide(snap').reason = "starvation"
<1> DEFINE t == Decide(snap).target
           s == snap'
<1>1. /\ snap \in BoundedSnapshot /\ snap \in Snapshot /\ s \in Snapshot
      /\ ~snap.inTransition /\ d \in Nat
  BY BoundedIsSnapshot, OnlySwitchHasTarget, WorldBounds DEF Possible, Swap
<1>2. t \in Models /\ snap.depth[t] > 0 /\ snap.backoff[t] = 0
  BY <1>1, DecideSound DEF Swap, Servable, WithWork, HasPending, Available
<1>3. /\ s.resident = t /\ s.depth = snap.depth /\ s.residency = 0
      /\ s.backoff = Sooner(snap.backoff, d) /\ s.inTransition = snap.inTransition
  BY <1>1 DEF Swap, BoundedSnapshot
<1>4. ResidentBusy(s) /\ Available(s, s.resident)
  BY <1>1, <1>2, <1>3, OlderIsBounded DEF ResidentBusy, Available
<1> HIDE DEF s, t
<1>5. Decide(s).kind = "switch" => Decide(s).target \in Overdue(s)
  BY <1>1, <1>2, <1>3, <1>4, HysteresisTheorem
<1>6. Overdue(s) # {} /\ ~s.inTransition
  BY <1>1, <1>3, <1>5 DEF s
<1>7. Decide(s).reason = "starvation"
  BY <1>6 DEF Decide, Decision
<1> QED
  BY <1>7 DEF s

\* Hysteresis with a window of any length: straight after a switch, however long the load
\* took, only the ceiling takes the GPU away again.
THEOREM NeverBounces ==
  ASSUME MinResidency > 0
  PROVE  Spec => NoBounce
<1>1. Possible /\ Possible' /\ [Next]_snap =>
        [\A d \in 0..MaxLoad : Swap(d) /\ Decide(snap').kind = "switch"
           => Decide(snap').reason = "starvation"]_snap
  BY NoBounceStep
<1> QED
  BY <1>1, AlwaysPossible, PTL DEF Spec, NoBounce

-----------------------------------------------------------------------------
(* The estimate *)

LEMMA CountDownStep ==
  ASSUME Possible, Possible', Elapse, NEW m \in WithWork(snap) \ {snap.resident},
         NEW p \in 0..(snap.depth[m] - 1)
  PROVE  LET rest == Estimated(snap, m, p) - GpuWait(snap, m) + LoadSeconds(snap, m) IN
         /\ Estimated(snap, m, p) \in Int /\ Estimated(snap', m, p) \in Int /\ rest \in Int
         /\ rest <= Estimated(snap, m, p)
         /\ Estimated(snap', m, p) = Larger(rest, Estimated(snap, m, p) - 1)
<1> DEFINE X == (Ahead(snap, m, p) \div Slots) * Mean[m] + Mean[m]
           gap == Larger(Lesser(Hold(snap), CeilingLeft(snap, m)), snap.backoff[m])
           gap2 == Larger(Lesser(Hold(snap'), CeilingLeft(snap', m)), snap'.backoff[m])
<1>1. /\ snap \in BoundedSnapshot /\ snap \in Snapshot /\ snap' \in Snapshot
      /\ m \in Models /\ m # snap.resident /\ snap.depth[m] > 0
  BY BoundedIsSnapshot DEF Possible, WithWork, HasPending
<1>2. /\ snap'.resident = snap.resident /\ snap'.inFlight = snap.inFlight
      /\ snap'.wait[m] = UpTo(MaxAge, snap.wait[m] + 1)
      /\ snap'.residency = IF snap.resident = None THEN 0
                           ELSE UpTo(MinResidency, snap.residency + 1)
      /\ snap'.backoff[m] = IF snap.backoff[m] > 1 THEN snap.backoff[m] - 1 ELSE 0
  BY <1>1 DEF Elapse, BoundedSnapshot, Older, Sooner, HasPending
<1>3. /\ snap.wait[m] \in Nat /\ snap.residency \in Nat /\ snap.backoff[m] \in Nat
      /\ snap.wait[m] <= MaxAge /\ snap.residency <= MinResidency
      /\ MaxAge \in Nat /\ MaxAge >= MaxWait /\ MinResidency \in Nat /\ MaxWait \in Nat
      /\ LoadCost[m] \in Nat
  BY <1>1, PolicyConfig, WorldBounds DEF BoundedSnapshot, Snapshot
<1>4. CeilingLeft(snap, m) \in Nat /\ CeilingLeft(snap', m) = AtLeastZero(CeilingLeft(snap, m) - 1)
  BY <1>2, <1>3 DEF CeilingLeft, AtLeastZero, UpTo
<1>5. Hold(snap) \in Nat /\ Hold(snap') = AtLeastZero(Hold(snap) - 1)
  BY <1>2, <1>3 DEF Hold, AtLeastZero, UpTo
<1>6. gap \in Nat /\ gap2 = AtLeastZero(gap - 1)
  BY <1>2, <1>3, <1>4, <1>5 DEF Larger, Lesser, AtLeastZero
<1>7. X \in Int
  <2>1. Ahead(snap, m, p) = p
    BY <1>1 DEF Ahead
  <2>2. (p \div Slots) \in Int
    BY <1>1, EstimateConfig DEF Snapshot
  <2>3. Mean[m] \in Nat
    BY <1>1, EstimateConfig
  <2> QED
    BY <2>1, <2>2, <2>3
<1>8. Ahead(snap', m, p) = Ahead(snap, m, p)
  BY <1>2 DEF Ahead
<1> HIDE DEF X, gap, gap2
<1>9. GpuWait(snap, m) = gap + LoadCost[m] /\ GpuWait(snap', m) = gap2 + LoadCost[m]
  BY <1>1, <1>2 DEF GpuWait, LoadSeconds, gap, gap2
<1>10. /\ Estimated(snap, m, p) = gap + LoadCost[m] + X
       /\ Estimated(snap', m, p) = gap2 + LoadCost[m] + X
  <2>1. Estimated(snap, m, p) = GpuWait(snap, m) + (Ahead(snap, m, p) \div Slots) * Mean[m] + Mean[m]
    BY DEF Estimated
  <2>2. Estimated(snap', m, p) = GpuWait(snap', m) + (Ahead(snap, m, p) \div Slots) * Mean[m] + Mean[m]
    BY <1>8 DEF Estimated
  <2>3. (Ahead(snap, m, p) \div Slots) * Mean[m] \in Int /\ Mean[m] \in Int
    <3>1. Ahead(snap, m, p) = p
      BY <1>1 DEF Ahead
    <3>2. (p \div Slots) \in Int /\ Mean[m] \in Int
      BY <1>1, EstimateConfig DEF Snapshot
    <3> QED
      BY <3>1, <3>2
  <2>4. gap2 \in Int
    BY <1>6 DEF AtLeastZero
  <2> QED
    BY <1>3, <1>6, <1>9, <2>1, <2>2, <2>3, <2>4 DEF X
<1>11. LoadSeconds(snap, m) = LoadCost[m]
  BY <1>1 DEF LoadSeconds
<1> QED
  BY <1>3, <1>6, <1>7, <1>9, <1>10, <1>11 DEF Larger, AtLeastZero

\* A resident waits for no load, whatever its backoff: its estimate stands.
LEMMA ResidentCountDown ==
  ASSUME Possible, Possible', Elapse, NEW m \in WithWork(snap), m = snap.resident,
         NEW p \in 0..(snap.depth[m] - 1)
  PROVE  LET rest == Estimated(snap, m, p) - GpuWait(snap, m) + LoadSeconds(snap, m) IN
         /\ Estimated(snap, m, p) \in Int /\ Estimated(snap', m, p) \in Int /\ rest \in Int
         /\ rest <= Estimated(snap, m, p)
         /\ Estimated(snap', m, p) = Larger(rest, Estimated(snap, m, p) - 1)
<1> DEFINE X == (Ahead(snap, m, p) \div Slots) * Mean[m]
<1>1. /\ snap \in BoundedSnapshot /\ snap \in Snapshot /\ m \in Models
  BY BoundedIsSnapshot DEF Possible, WithWork, HasPending
<1>2. snap'.resident = snap.resident /\ snap'.inFlight = snap.inFlight
  BY <1>1 DEF Elapse, BoundedSnapshot
<1>3. GpuWait(snap, m) = 0 /\ GpuWait(snap', m) = 0 /\ LoadSeconds(snap, m) = 0
  BY <1>2 DEF GpuWait, LoadSeconds
<1>4. Ahead(snap', m, p) = Ahead(snap, m, p)
  BY <1>2 DEF Ahead
<1>5. X \in Int /\ Mean[m] \in Int
  <2>1. Ahead(snap, m, p) \in Int
    BY <1>1 DEF Ahead, BoundedSnapshot, Snapshot
  <2>2. (Ahead(snap, m, p) \div Slots) \in Int /\ Mean[m] \in Int
    BY <1>1, <2>1, EstimateConfig
  <2> QED
    BY <2>2
<1>6. Estimated(snap, m, p) = X + Mean[m] /\ Estimated(snap', m, p) = X + Mean[m]
  <2>1. /\ Estimated(snap, m, p) = GpuWait(snap, m) + X + Mean[m]
        /\ Estimated(snap', m, p) = GpuWait(snap', m) + X + Mean[m]
    BY <1>4 DEF Estimated
  <2> HIDE DEF X
  <2> QED
    BY <1>3, <1>5, <2>1
<1> HIDE DEF X
<1> QED
  BY <1>3, <1>5, <1>6 DEF Larger

\* Clamping keeps the order, and takes nothing further apart.
LEMMA RetryClamped ==
  ASSUME NEW e \in Int, NEW f \in Int, NEW rest \in Int,
         rest <= e, f = Larger(rest, e - 1)
  PROVE  Lesser(MaxRetryAfter, Larger(MinRetryAfter, f)) \in
           (Lesser(MaxRetryAfter, Larger(MinRetryAfter, e)) - 1)
             ..Lesser(MaxRetryAfter, Larger(MinRetryAfter, e))
BY EstimateConfig DEF Lesser, Larger

\* What a queued request is told shrinks with the time that passes, and its time to call
\* again with it, for any weights, slots, mean durations and bounds of that time.
THEOREM EstimateTheorem == Spec => EstimateCountsDown
<1>1. Possible /\ Possible' /\ [Next]_snap =>
        [Elapse =>
          \A m \in WithWork(snap) : \A p \in 0..(snap.depth[m] - 1) :
            LET rest == Estimated(snap, m, p) - GpuWait(snap, m) + LoadSeconds(snap, m) IN
            /\ Estimated(snap', m, p) = Larger(rest, Estimated(snap, m, p) - 1)
            /\ RetryAfter(snap', m, p) \in
                 (RetryAfter(snap, m, p) - 1)..RetryAfter(snap, m, p)]_snap
  <2> SUFFICES ASSUME Possible, Possible', Elapse, NEW m \in WithWork(snap),
                      NEW p \in 0..(snap.depth[m] - 1)
               PROVE  LET rest == Estimated(snap, m, p) - GpuWait(snap, m)
                                    + LoadSeconds(snap, m) IN
                      /\ Estimated(snap', m, p) = Larger(rest, Estimated(snap, m, p) - 1)
                      /\ RetryAfter(snap', m, p) \in
                           (RetryAfter(snap, m, p) - 1)..RetryAfter(snap, m, p)
    OBVIOUS
  <2> DEFINE e == Estimated(snap, m, p)
             f == Estimated(snap', m, p)
             rest == Estimated(snap, m, p) - GpuWait(snap, m) + LoadSeconds(snap, m)
  <2>1. e \in Int /\ f \in Int /\ rest \in Int /\ rest <= e /\ f = Larger(rest, e - 1)
    BY CountDownStep, ResidentCountDown
  <2>2. RetryAfter(snap, m, p) = Lesser(MaxRetryAfter, Larger(MinRetryAfter, e))
    BY DEF RetryAfter
  <2>3. RetryAfter(snap', m, p) = Lesser(MaxRetryAfter, Larger(MinRetryAfter, f))
    BY DEF RetryAfter
  <2> HIDE DEF e, f, rest
  <2>4. Lesser(MaxRetryAfter, Larger(MinRetryAfter, f)) \in
          (Lesser(MaxRetryAfter, Larger(MinRetryAfter, e)) - 1)
            ..Lesser(MaxRetryAfter, Larger(MinRetryAfter, e))
    BY <2>1, RetryClamped
  <2> QED
    BY <2>1, <2>2, <2>3, <2>4 DEF e, f, rest
<1> QED
  BY <1>1, AlwaysPossible, PTL DEF Spec, EstimateCountsDown

-----------------------------------------------------------------------------
(* Patience *)

LEMMA TimesGrows ==
  ASSUME NEW p \in Nat, NEW a \in Int, NEW b \in Int, a <= b
  PROVE  p * a <= p * b
<1>1. b - a \in Nat /\ b = a + (b - a)
  OBVIOUS
<1>2. p * (b - a) \in Nat /\ p * b = p * a + p * (b - a)
  BY <1>1
<1> QED
  BY <1>2

\* Growing older changes one score only, and never lowers it.
LEMMA AgedScores ==
  ASSUME NEW s \in Snapshot, NEW m \in WithWork(s)
  PROVE  LET a == Aged(s, m) IN
         /\ a \in Snapshot
         /\ a.resident = s.resident /\ a.depth = s.depth /\ a.backoff = s.backoff
         /\ a.inTransition = s.inTransition /\ a.residency = s.residency
         /\ a.inFlight = s.inFlight /\ a.idle = s.idle
         /\ a.wait[m] = s.wait[m] + 1
         /\ \A n \in Models \ {m} : a.wait[n] = s.wait[n] /\ Score(a, n) = Score(s, n)
         /\ Score(s, m) <= Score(a, m)
<1> DEFINE a == Aged(s, m)
<1>1. m \in Models /\ s.depth[m] > 0
  BY DEF WithWork, HasPending
<1>2. /\ a.resident = s.resident /\ a.depth = s.depth /\ a.backoff = s.backoff
      /\ a.inTransition = s.inTransition /\ a.residency = s.residency
      /\ a.inFlight = s.inFlight /\ a.idle = s.idle
      /\ a.wait = [s.wait EXCEPT ![m] = @ + 1]
  BY DEF Aged, Snapshot
<1>3. a.wait[m] = s.wait[m] + 1 /\ a.wait \in [Models -> Nat]
      /\ \A n \in Models \ {m} : a.wait[n] = s.wait[n]
  BY <1>1, <1>2 DEF Snapshot
<1>4. a \in Snapshot
  <2>1. a = [s EXCEPT !.wait = a.wait]
    BY DEF Aged, Snapshot
  <2> HIDE DEF a
  <2> QED
    BY <1>3, <2>1, Zenon DEF Snapshot
<1> HIDE DEF a
<1>5. \A n \in Models \ {m} : Score(a, n) = Score(s, n)
  BY <1>2, <1>3 DEF Score, Demand, HasPending
<1>6. Score(s, m) <= Score(a, m)
  <2>1. s.wait[m] \in Int /\ s.depth[m] \in Nat /\ Priority[m] \in Nat /\ SwitchCost(m) \in Int
        /\ AgeWeight \in Nat /\ DepthWeight \in Nat
    BY <1>1, PolicyConfig DEF Snapshot, SwitchCost
  <2>2. AgeWeight * s.wait[m] <= AgeWeight * a.wait[m]
    BY <1>3, <2>1, TimesGrows
  <2>3. Demand(s, m) \in Int /\ Demand(a, m) \in Int /\ Demand(s, m) <= Demand(a, m)
    <3>1. AgeWeight * s.wait[m] \in Int /\ AgeWeight * a.wait[m] \in Int
          /\ DepthWeight * s.depth[m] \in Int
      BY <1>3, <2>1
    <3> QED
      BY <1>2, <2>2, <3>1 DEF Demand
  <2>4. Priority[m] * Demand(s, m) <= Priority[m] * Demand(a, m)
    BY <2>1, <2>3, TimesGrows
  <2>5. Priority[m] * Demand(s, m) \in Int /\ Priority[m] * Demand(a, m) \in Int
    BY <2>1, <2>3
  <2> QED
    BY <1>1, <1>2, <2>1, <2>4, <2>5 DEF Score, HasPending
<1> QED
  BY <1>2, <1>3, <1>4, <1>5, <1>6 DEF a

\* Of the servable models with the best score the winner is the first in configuration
\* order.
LEMMA BestIsFirst ==
  ASSUME NEW s \in Snapshot, Servable(s) # {}
  PROVE  /\ Best(s) \in Servable(s) /\ Best(s) \in Models
         /\ \A n \in Servable(s) :
              /\ Score(s, n) <= Score(s, Best(s))
              /\ Score(s, n) = Score(s, Best(s)) => Rank[Best(s)] <= Rank[n]
<1> DEFINE key == [n \in Servable(s) |-> Score(s, n)]
<1>1. Servable(s) \in SUBSET Models
  BY DEF Servable, WithWork
<1>2. \A n \in Servable(s) : key[n] = Score(s, n) /\ key[n] \in Int
  BY <1>1, ScoreType
<1>3. Best(s) = ArgMax(Servable(s), key)
  BY DEF Best
<1> HIDE DEF key
<1>4. /\ Best(s) \in Servable(s)
      /\ \A n \in Servable(s) : key[n] <= key[Best(s)]
      /\ \A n \in Servable(s) : key[n] = key[Best(s)] => Rank[Best(s)] <= Rank[n]
  BY <1>1, <1>2, <1>3, ArgMaxIsGreatest
<1> QED
  BY <1>1, <1>2, <1>4

\* The two halves of the property, for a snapshot in which model m has work.
LEMMA ChosenStaysChosen ==
  ASSUME NEW s \in Snapshot, NEW m \in WithWork(s), Decide(s).target = m
  PROVE  Decide(Aged(s, m)).target = m
<1> DEFINE a == Aged(s, m)
<1>0. m \in Models /\ m # None
  BY PolicyConfig DEF WithWork
<1>1. Decide(s).kind = "switch" /\ ~s.inTransition
  BY <1>0, OnlySwitchHasTarget
<1>2. /\ a \in Snapshot
      /\ a.resident = s.resident /\ a.depth = s.depth /\ a.backoff = s.backoff
      /\ a.inTransition = s.inTransition /\ a.residency = s.residency
      /\ a.inFlight = s.inFlight /\ a.idle = s.idle
      /\ a.wait[m] = s.wait[m] + 1
      /\ \A n \in Models \ {m} : a.wait[n] = s.wait[n] /\ Score(a, n) = Score(s, n)
      /\ Score(s, m) <= Score(a, m)
  BY AgedScores
<1>3. m \in Servable(s) /\ m # s.resident
  BY <1>1, DecideSound
<1> HIDE DEF a
<1>4. WithWork(a) = WithWork(s) /\ Servable(a) = Servable(s)
  BY <1>2 DEF WithWork, Servable, HasPending, Available
<1>5. \A n \in Models : s.wait[n] \in Nat
  BY DEF Snapshot
<1>6. CASE Overdue(a) # {}
  <2>1. Decide(a) = Decision("switch", "starvation", LongestOverdue(a))
    BY <1>1, <1>2, <1>6 DEF Decide
  <2>2. /\ LongestOverdue(a) \in Overdue(a) /\ LongestOverdue(a) \in Models
        /\ \A n \in Overdue(a) : a.wait[n] <= a.wait[LongestOverdue(a)]
    BY <1>2, <1>6, LongestOverdueIsOverdue DEF Overdue, Servable, WithWork
  <2>3. ASSUME LongestOverdue(a) # m PROVE FALSE
    <3> DEFINE n == LongestOverdue(a)
    <3>1. n \in Overdue(s) /\ a.wait[n] = s.wait[n]
      BY <1>2, <1>4, <2>2, <2>3 DEF Overdue
    <3>2. m = LongestOverdue(s)
      BY <1>1, <3>1 DEF Decide, Decision
    <3>3. m \in Overdue(s) /\ s.wait[n] <= s.wait[m]
      BY <3>1, <3>2, LongestOverdueIsOverdue
    <3> HIDE DEF n
    <3>4. m \in Overdue(a)
      BY <1>0, <1>2, <1>4, <1>5, <3>3, PolicyConfig DEF Overdue
    <3>5. a.wait[m] <= a.wait[n]
      BY <2>2, <3>4 DEF n
    <3> QED
      BY <1>0, <1>2, <1>5, <2>2, <3>1, <3>3, <3>5 DEF n
  <2> QED
    BY <2>1, <2>3 DEF Decision, a
<1>7. CASE Overdue(a) = {}
  <2>1. Overdue(s) = {}
    <3>1. ASSUME NEW n \in Overdue(s) PROVE FALSE
      <4>1. n \in Models /\ s.wait[n] >= MaxWait /\ n \in Servable(s) /\ n # s.resident
        BY <3>1 DEF Overdue, Servable, WithWork
      <4>2. a.wait[n] >= MaxWait
        BY <1>2, <1>5, <4>1, PolicyConfig
      <4> QED
        BY <1>2, <1>4, <1>7, <4>1, <4>2 DEF Overdue
    <3> QED
      BY <3>1
  <2>2. Decide(s) = Contest(s) /\ Decide(a) = Contest(a)
    BY <1>1, <1>2, <1>3, <1>4, <1>7, <2>1 DEF Decide
  <2>3. m = Best(s)
    BY <1>0, <2>2 DEF Contest, Decision
  <2>4. m = Best(a)
    <3> DEFINE b == Best(a)
    <3>1. /\ b \in Servable(s) /\ b \in Models
          /\ Score(a, m) <= Score(a, b)
          /\ Score(a, m) = Score(a, b) => Rank[b] <= Rank[m]
      BY <1>2, <1>3, <1>4, BestIsFirst
    <3>2. /\ Score(s, b) <= Score(s, m)
          /\ Score(s, b) = Score(s, m) => Rank[m] <= Rank[b]
      BY <1>3, <2>3, <3>1, BestIsFirst
    <3>3. /\ Score(a, m) \in Int /\ Score(s, m) \in Int
          /\ Score(a, b) \in Int /\ Score(s, b) \in Int
      BY <1>0, <1>2, <3>1, ScoreType
    <3>4. Rank[m] \in Nat /\ Rank[b] \in Nat /\ (Rank[m] = Rank[b] => m = b)
      BY <1>0, <3>1, PolicyConfig
    <3>5. b # m => Score(a, b) = Score(s, b)
      BY <1>2, <3>1
    <3> HIDE DEF b
    <3>6. b = m
      BY <1>2, <3>1, <3>2, <3>3, <3>4, <3>5
    <3> QED
      BY <3>6 DEF b
  <2>5. s.resident # None /\ Available(s, s.resident) => ~Held(s, m) /\ Outscores(s, m)
    BY <1>1, <1>3, <2>2, <2>3, ContestSound
  <2>6. /\ Available(a, s.resident) <=> Available(s, s.resident)
        /\ Held(a, m) <=> Held(s, m)
    BY <1>2 DEF Available, Held, ResidentBusy, IdleFor
  <2>7. s.resident # None /\ Outscores(s, m) => Outscores(a, m)
    <3> SUFFICES ASSUME s.resident # None, Outscores(s, m) PROVE Outscores(a, m)
      OBVIOUS
    <3>1. s.resident \in Models \ {m}
      BY <1>3 DEF Snapshot
    <3>2. /\ Score(s, m) \in Int /\ Score(a, m) \in Int /\ Score(s, s.resident) \in Int
          /\ Score(a, s.resident) = Score(s, s.resident)
      BY <1>0, <1>2, <3>1, ScoreType
    <3> QED
      BY <1>2, <3>2 DEF Outscores
  <2>8. Contest(a).target = m
    BY <1>2, <1>3, <2>4, <2>5, <2>6, <2>7 DEF Contest, Decision
  <2> QED
    BY <2>2, <2>8 DEF a
<1> QED
  BY <1>6, <1>7

LEMMA KeeperStaysKeeper ==
  ASSUME NEW s \in Snapshot, s.resident \in WithWork(s), Decide(s).kind # "switch"
  PROVE  Decide(Aged(s, s.resident)).kind # "switch"
<1> DEFINE m == s.resident
           a == Aged(s, m)
<1>0. m \in Models /\ m # None
  BY PolicyConfig DEF WithWork
<1>2. /\ a \in Snapshot
      /\ a.resident = m /\ a.depth = s.depth /\ a.backoff = s.backoff
      /\ a.inTransition = s.inTransition /\ a.residency = s.residency
      /\ a.inFlight = s.inFlight /\ a.idle = s.idle
      /\ \A n \in Models \ {m} : a.wait[n] = s.wait[n] /\ Score(a, n) = Score(s, n)
      /\ Score(s, m) <= Score(a, m)
  BY AgedScores
<1>3. m = s.resident /\ m \in WithWork(s)
  OBVIOUS
<1> HIDE DEF a, m
<1>4. WithWork(a) = WithWork(s) /\ Servable(a) = Servable(s)
  BY <1>2 DEF WithWork, Servable, HasPending, Available
<1>5. Overdue(a) = Overdue(s)
  BY <1>2, <1>3, <1>4 DEF Overdue, Servable, WithWork
<1>6. CASE s.inTransition
  BY <1>2, <1>6 DEF Decide, Decision, a, m
<1>7. CASE ~s.inTransition
  <2>1. Overdue(s) = {}
    BY <1>7 DEF Decide, Decision
  <2>2. CASE Servable(s) = {}
    BY <1>2, <1>4, <1>5, <1>7, <2>1, <2>2 DEF Decide, Decision, a, m
  <2>3. CASE Servable(s) # {}
    <3>1. Decide(s) = Contest(s) /\ Decide(a) = Contest(a)
      BY <1>2, <1>3, <1>4, <1>5, <1>7, <2>1, <2>3 DEF Decide
    <3>2. Contest(s).kind # "switch"
      BY <3>1
    <3>3. Available(s, m)
      BY <1>3, <2>3, <3>2, ContestSound
    <3>4. m \in Servable(s)
      BY <1>3, <3>3 DEF Servable
    <3>5. CASE Best(a) = m
      <4>1. ~Held(a, m) /\ Available(a, m)
        BY <1>2, <3>3 DEF Held, Available
      <4> QED
        BY <1>0, <1>2, <3>1, <3>5, <4>1 DEF Contest, Decision, a, m
    <3>6. CASE Best(a) # m
      <4> DEFINE b == Best(a)
                 c == Best(s)
      <4>1. /\ b \in Servable(s) /\ b \in Models /\ b # m
            /\ \A n \in Servable(s) :
                 /\ Score(a, n) <= Score(a, b)
                 /\ Score(a, n) = Score(a, b) => Rank[b] <= Rank[n]
        BY <1>2, <1>4, <2>3, <3>6, BestIsFirst
      <4>2. /\ c \in Servable(s) /\ c \in Models
            /\ \A n \in Servable(s) :
                 /\ Score(s, n) <= Score(s, c)
                 /\ Score(s, n) = Score(s, c) => Rank[c] <= Rank[n]
        BY <2>3, BestIsFirst
      <4> HIDE DEF b, c
      <4>3. /\ Score(a, b) \in Int /\ Score(s, b) \in Int
            /\ Score(a, c) \in Int /\ Score(s, c) \in Int
            /\ Score(a, m) \in Int /\ Score(s, m) \in Int
        BY <1>0, <1>2, <4>1, <4>2, ScoreType
      <4>4. /\ Rank[b] \in Nat /\ Rank[c] \in Nat /\ (Rank[b] = Rank[c] => b = c)
        BY <4>1, <4>2, PolicyConfig
      <4>5. Score(a, b) = Score(s, b) /\ (c # m => Score(a, c) = Score(s, c))
        BY <1>2, <4>1, <4>2
      <4>6. /\ Score(s, b) <= Score(s, c) /\ Score(a, c) <= Score(a, b)
            /\ Score(s, b) = Score(s, c) => Rank[c] <= Rank[b]
            /\ Score(a, c) = Score(a, b) => Rank[b] <= Rank[c]
        BY <4>1, <4>2
      <4>7. b = c
        <5>1. CASE c = m
          BY <1>2, <4>3, <4>4, <4>5, <4>6, <5>1
        <5>2. CASE c # m
          BY <4>3, <4>4, <4>5, <4>6, <5>2
        <5> QED
          BY <5>1, <5>2
      <4>8. Held(s, b) \/ ~Outscores(s, b)
        BY <1>0, <1>3, <3>2, <3>3, <4>1, <4>7 DEF Contest, Decision, c
      <4>9. Held(a, b) <=> Held(s, b)
        BY <1>2, <1>3 DEF Held, ResidentBusy, IdleFor
      <4>10. ~Outscores(s, b) => ~Outscores(a, b)
        BY <1>2, <1>3, <4>3, <4>5 DEF Outscores
      <4>11. Available(a, m)
        BY <1>2, <3>3 DEF Available
      <4>12. Contest(a).kind # "switch"
        BY <1>0, <1>2, <4>1, <4>8, <4>9, <4>10, <4>11 DEF Contest, Decision, b
      <4> QED
        BY <3>1, <4>12 DEF a, m
    <3> QED
      BY <3>5, <3>6
  <2> QED
    BY <2>2, <2>3
<1> QED
  BY <1>6, <1>7

\* Waiting longer never costs a model the GPU, whatever the weights: the aging term is
\* monotone through every branch of the decision and its ties.
THEOREM PatienceTheorem == Spec => []PatienceIsNeverPunished
<1>1. Possible => PatienceIsNeverPunished
  <2> SUFFICES ASSUME Possible, NEW m \in WithWork(snap)
               PROVE  /\ Decide(snap).target = m => Decide(Aged(snap, m)).target = m
                      /\ m = snap.resident /\ Decide(snap).kind # "switch"
                           => Decide(Aged(snap, m)).kind # "switch"
    BY DEF PatienceIsNeverPunished
  <2>1. snap \in Snapshot
    BY BoundedIsSnapshot DEF Possible
  <2> QED
    BY <2>1, ChosenStaysChosen, KeeperStaysKeeper
<1> QED
  BY <1>1, AlwaysPossible, PTL
=============================================================================
