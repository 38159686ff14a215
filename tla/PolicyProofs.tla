---------------------------- MODULE PolicyProofs ----------------------------
(***************************************************************************)
(* What `decide` guarantees for any number of models and any weights.       *)
(***************************************************************************)
EXTENDS Policy, FiniteSetTheorems, WellFoundedInduction, TLAPS

-----------------------------------------------------------------------------
(* Least and greatest elements *)

\* A set of naturals that is not empty has a least element.
LEMMA LeastNatural ==
  ASSUME NEW T \in SUBSET Nat, T # {}
  PROVE  \E n \in T : \A k \in T : n <= k
<1> DEFINE R == {p \in Nat \X Nat : p[1] < p[2]}
<1>1. OpToRel(<, Nat) = R
  BY DEF OpToRel
<1>2. IsWellFoundedOn(R, Nat)
  BY <1>1, NatLessThanWellFounded, Zenon
<1> HIDE DEF R
<1>3. PICK n \in T : \A k \in T : ~ (<<k, n>> \in R)
  BY <1>2, WFMin, Zenon
<1>4. ASSUME NEW k \in T PROVE n <= k
  <2>1. <<k, n>> \notin {p \in Nat \X Nat : p[1] < p[2]}
    BY <1>3 DEF R
  <2>2. ~ (k < n)
    BY <2>1
  <2> QED
    BY <2>2
<1> QED
  BY <1>4

\* A finite set that is not empty has an element whose key is the greatest: the one
\* above which the fewest elements are.
LEMMA GreatestExists ==
  ASSUME NEW S, IsFiniteSet(S), S # {},
         NEW key, \A x \in S : key[x] \in Int
  PROVE  Greatest(S, key) # {}
<1> DEFINE Above(x) == {y \in S : key[y] > key[x]}
           Counts == {Cardinality(Above(x)) : x \in S}
<1>1. \A x \in S : IsFiniteSet(Above(x)) /\ Cardinality(Above(x)) \in Nat
  <2> TAKE x \in S
  <2>1. Above(x) \in SUBSET S
    OBVIOUS
  <2>2. IsFiniteSet(Above(x))
    BY <2>1, FS_Subset
  <2> QED
    BY <2>2, FS_CardinalityType
<1>2. PICK c \in Counts : \A k \in Counts : c <= k
  <2>1. Counts \in SUBSET Nat /\ Counts # {}
    BY <1>1
  <2> QED
    BY <2>1, LeastNatural
<1>3. PICK m \in S : c = Cardinality(Above(m))
  OBVIOUS
<1>4. ASSUME NEW n \in S, key[n] > key[m] PROVE FALSE
  <2>1. Above(n) \in SUBSET Above(m) /\ n \in Above(m) /\ n \notin Above(n)
    BY <1>4
  <2>2. Cardinality(Above(n)) <= Cardinality(Above(m)) /\ Cardinality(Above(n)) # Cardinality(Above(m))
    <3>1. IsFiniteSet(Above(m))
      BY <1>1
    <3>2. Above(m) # Above(n)
      BY <2>1
    <3>3. /\ Cardinality(Above(n)) <= Cardinality(Above(m))
          /\ Cardinality(Above(m)) = Cardinality(Above(n)) => Above(m) = Above(n)
      BY <2>1, <3>1, FS_Subset
    <3> QED
      BY <3>2, <3>3
  <2>3. c <= Cardinality(Above(n))
    BY <1>2
  <2>4. Cardinality(Above(n)) \in Nat /\ Cardinality(Above(m)) \in Nat
    BY <1>1
  <2> HIDE DEF Above
  <2> QED
    BY <1>3, <2>2, <2>3, <2>4
<1>5. m \in Greatest(S, key)
  BY <1>4 DEF Greatest
<1> QED
  BY <1>5

\* What the code's max(xs, key=...) returns: a model of the set, none of which has a
\* greater key, and of those with the same key the first in configuration order.
LEMMA ArgMaxIsGreatest ==
  ASSUME NEW S \in SUBSET Models, S # {},
         NEW key, \A m \in S : key[m] \in Int
  PROVE  /\ ArgMax(S, key) \in S
         /\ \A n \in S : key[n] <= key[ArgMax(S, key)]
         /\ \A n \in S : key[n] = key[ArgMax(S, key)] => Rank[ArgMax(S, key)] <= Rank[n]
<1> DEFINE G == Greatest(S, key)
           Ranks == {Rank[m] : m \in G}
<1>1. IsFiniteSet(S)
  BY PolicyConfig, FS_Subset
<1>2. G # {} /\ G \subseteq S
  BY <1>1, GreatestExists DEF Greatest
<1>3. PICK k \in Ranks : \A j \in Ranks : k <= j
  <2>1. Ranks \in SUBSET Nat /\ Ranks # {}
    BY <1>2, PolicyConfig
  <2> QED
    BY <2>1, LeastNatural
<1>4. \E m \in G : \A n \in G : Rank[m] <= Rank[n]
  BY <1>3
<1>5. ArgMax(S, key) \in G /\ \A n \in G : Rank[ArgMax(S, key)] <= Rank[n]
  BY <1>4 DEF ArgMax
<1>6. ASSUME NEW n \in S, key[n] = key[ArgMax(S, key)] PROVE n \in G
  BY <1>5, <1>6 DEF Greatest
<1> QED
  BY <1>2, <1>5, <1>6 DEF Greatest

-----------------------------------------------------------------------------
(* The decision *)

\* Every score is an integer.
LEMMA ScoreType ==
  ASSUME NEW s \in Snapshot, NEW m \in Models
  PROVE  Score(s, m) \in Int
<1>1. s.wait[m] \in Nat /\ s.depth[m] \in Nat
  BY DEF Snapshot
<1>2. AgeWeight * s.wait[m] \in Nat /\ DepthWeight * s.depth[m] \in Nat
  BY <1>1, PolicyConfig
<1>3. Demand(s, m) \in Nat
  BY <1>2 DEF Demand
<1>4. Priority[m] \in Nat /\ SwitchCost(m) \in Nat
  BY PolicyConfig DEF SwitchCost
<1>5. Priority[m] * Demand(s, m) \in Nat
  BY <1>3, <1>4
<1> QED
  BY <1>4, <1>5 DEF Score

\* The winner of the scoring is servable and outscored by no servable model.
LEMMA BestIsServable ==
  ASSUME NEW s \in Snapshot, Servable(s) # {}
  PROVE  /\ Best(s) \in Servable(s)
         /\ \A m \in Servable(s) : Score(s, m) <= Score(s, Best(s))
<1> DEFINE key == [m \in Servable(s) |-> Score(s, m)]
<1>1. Servable(s) \in SUBSET Models
  BY DEF Servable, WithWork
<1>2. \A m \in Servable(s) : key[m] = Score(s, m) /\ key[m] \in Int
  BY <1>1, ScoreType
<1>3. Best(s) = ArgMax(Servable(s), key)
  BY DEF Best
<1> HIDE DEF key
<1>4. /\ Best(s) \in Servable(s)
      /\ \A m \in Servable(s) : key[m] <= key[Best(s)]
  BY <1>1, <1>2, <1>3, ArgMaxIsGreatest
<1> QED
  BY <1>2, <1>4

LEMMA LongestOverdueIsOverdue ==
  ASSUME NEW s \in Snapshot, Overdue(s) # {}
  PROVE  /\ LongestOverdue(s) \in Overdue(s)
         /\ \A m \in Overdue(s) : s.wait[m] <= s.wait[LongestOverdue(s)]
<1>1. Overdue(s) \in SUBSET Models
  BY DEF Overdue, Servable, WithWork
<1>2. \A m \in Overdue(s) : s.wait[m] \in Int
  BY <1>1 DEF Snapshot
<1> QED
  BY <1>1, <1>2, ArgMaxIsGreatest DEF LongestOverdue

\* The branches below the ceiling, one fact per way they can end: a switch takes the best
\* servable model away from a resident that is absent, unavailable, or strictly outscored
\* and not held; anything else leaves an available resident in place.
LEMMA ContestSound ==
  ASSUME NEW s \in Snapshot, Servable(s) # {}
  PROVE  LET d == Contest(s) IN
         /\ d.kind \in {"serve", "hold", "switch"}
         /\ d.kind = "switch" =>
              /\ d.target \in Servable(s) \ {s.resident}
              /\ \/ s.resident = None
                 \/ ~Available(s, s.resident)
                 \/ ~Held(s, d.target) /\ Outscores(s, d.target)
         /\ d.kind # "switch" =>
              s.resident \in Models /\ Available(s, s.resident) /\ d.target = None
<1> DEFINE best == Best(s)
<1>1. best \in Servable(s) /\ best \in Models
  BY BestIsServable DEF Servable, WithWork
<1>2. s.resident \in Models \cup {None} /\ None \notin Models
  BY PolicyConfig DEF Snapshot
<1>3. best # None
  BY <1>1, <1>2
<1>4. ~Available(s, s.resident) => best # s.resident
  BY <1>1 DEF Servable
<1> HIDE DEF best
<1>5. Contest(s) =
        IF s.resident = None
        THEN Decision("switch", "cold_start", best)
        ELSE IF ~Available(s, s.resident)
        THEN Decision("switch", "backend_unavailable", best)
        ELSE IF Held(s, best)
        THEN Decision("hold", "min_residency", None)
        ELSE IF best = s.resident
        THEN Decision(IF Cardinality(Servable(s)) = 1 THEN "serve" ELSE "hold",
                      "resident_wins", None)
        ELSE IF Outscores(s, best)
        THEN Decision("switch",
                      IF Finished(s, best) THEN "resident_idle" ELSE "challenger_wins",
                      best)
        ELSE Decision("hold", "resident_wins", None)
  BY DEF Contest, best
<1> QED
  BY <1>1, <1>2, <1>3, <1>4, <1>5 DEF Decision

\* What `decide` promises about every decision: a switch names a servable model that is
\* not resident, a serve or a hold leaves an available resident in place, and idling
\* means that no model could be served.
THEOREM DecideSound ==
  ASSUME NEW s \in Snapshot, ~s.inTransition
  PROVE  /\ Decide(s).kind \in {"idle", "serve", "hold", "switch"}
         /\ Decide(s).kind = "switch" => Decide(s).target \in Servable(s) \ {s.resident}
         /\ Decide(s).kind \in {"serve", "hold"} =>
              s.resident \in Models /\ Available(s, s.resident)
         /\ Decide(s).kind = "idle" => Servable(s) = {}
<1>1. CASE Overdue(s) # {}
  <2>1. Decide(s) = Decision("switch", "starvation", LongestOverdue(s))
    BY <1>1 DEF Decide
  <2>2. LongestOverdue(s) \in Servable(s) \ {s.resident}
    BY <1>1, LongestOverdueIsOverdue DEF Overdue
  <2> QED
    BY <2>1, <2>2 DEF Decision
<1>2. CASE Overdue(s) = {} /\ Servable(s) = {}
  <2>1. Decide(s).kind = "idle"
    BY <1>2 DEF Decide, Decision
  <2> QED
    BY <1>2, <2>1
<1>3. CASE Overdue(s) = {} /\ Servable(s) # {}
  <2>1. Decide(s) = Contest(s)
    BY <1>3 DEF Decide, Servable
  <2> QED
    BY <1>3, <2>1, ContestSound
<1> QED
  BY <1>1, <1>2, <1>3

\* The starvation ceiling outranks everything: as soon as a loadable model that is not
\* resident has waited for max_wait_seconds, the GPU goes to an overdue model that none of
\* the others has outwaited.
THEOREM CeilingTheorem ==
  ASSUME NEW s \in Snapshot, ~s.inTransition,
         NEW m \in Servable(s), m # s.resident, s.wait[m] >= MaxWait
  PROVE  /\ Decide(s).kind = "switch"
         /\ Decide(s).target \in Overdue(s)
         /\ s.wait[Decide(s).target] >= s.wait[m]
<1>1. m \in Overdue(s)
  BY DEF Overdue
<1>2. Decide(s) = Decision("switch", "starvation", LongestOverdue(s))
  BY <1>1 DEF Decide
<1>3. /\ LongestOverdue(s) \in Overdue(s)
      /\ s.wait[m] <= s.wait[LongestOverdue(s)]
  BY <1>1, LongestOverdueIsOverdue
<1>4. s.wait[m] \in Int /\ s.wait[LongestOverdue(s)] \in Int
  BY <1>3 DEF Overdue, Servable, WithWork, Snapshot
<1> QED
  BY <1>2, <1>3, <1>4 DEF Decision

\* Hysteresis: an available resident inside its window, with work queued or generating and
\* at a positive swap cost or not, is displaced by nothing but an overdue model.
THEOREM HysteresisTheorem ==
  ASSUME NEW s \in Snapshot, ~s.inTransition,
         s.resident \in Models, Available(s, s.resident),
         s.residency < MinResidency, ResidentBusy(s),
         Decide(s).kind = "switch"
  PROVE  Decide(s).target \in Overdue(s)
<1>1. CASE Overdue(s) # {}
  BY <1>1, LongestOverdueIsOverdue DEF Decide, Decision
<1>2. CASE Overdue(s) = {}
  <2>1. Servable(s) # {}
    BY <1>2 DEF Decide, Decision
  <2>2. Decide(s) = Contest(s)
    BY <1>2, <2>1 DEF Decide, Servable
  <2>3. s.resident # None
    BY PolicyConfig
  <2>4. /\ Decide(s).target # s.resident
        /\ ~Held(s, Decide(s).target)
    BY <2>1, <2>2, <2>3, ContestSound
  <2> QED
    BY <2>4 DEF Held
<1> QED
  BY <1>1, <1>2
=============================================================================
