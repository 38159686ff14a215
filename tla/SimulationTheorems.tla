--------------------------- MODULE SimulationTheorems ---------------------------
(***************************************************************************)
(* Proofs that simulated time is honest for any number of tasks, any delays *)
(* of the backend, and however far a test advances.                         *)
(***************************************************************************)
EXTENDS SimulationProperties, SequenceTheorems, FiniteSetTheorems, WellFoundedInduction, TLAPS

LEMMA LeastNatural ==
  ASSUME NEW T \in SUBSET Nat, T # {}
  PROVE  \E n \in T : \A k \in T : n <= k
<1> DEFINE R == {p \in Nat \X Nat : p[1] < p[2]}
<1>1. OpToRel(<, Nat) = R
  BY DEF OpToRel
<1>2. IsWellFoundedOn(R, Nat)
  BY <1>1, NatLessThanWellFounded, Zenon
<1> HIDE DEF R
<1>3. PICK n \in T : \A k \in T : ~ (<<k, n>> \in R)
  BY <1>2, WFMin, Zenon
<1>4. ASSUME NEW k \in T PROVE n <= k
  <2>1. <<k, n>> \notin {p \in Nat \X Nat : p[1] < p[2]}
    BY <1>3 DEF R
  <2>2. ~ (k < n)
    BY <2>1
  <2> QED
    BY <2>2
<1> QED
  BY <1>4


-----------------------------------------------------------------------------
(* Who is woken: the entries that are due, each once, in the order of the heap *)

\* An entry that is before another of a set has fewer of it before it.
Rank(e, due) == Cardinality({d \in due : Precedes(d, e)})

HeapOrdered(due) ==
    /\ IsFiniteSet(due)
    /\ \A e \in due : e.at \in Nat /\ e.no \in Nat
    /\ \A d, e \in due : d.no = e.no => d = e

LEMMA RankGrows ==
  ASSUME NEW due, HeapOrdered(due), NEW d \in due, NEW e \in due
  PROVE  /\ Rank(d, due) \in 0..Cardinality(due)-1
         /\ Precedes(d, e) => Rank(d, due) < Rank(e, due)
<1> DEFINE B(x) == {y \in due : Precedes(y, x)}
<1>1. /\ IsFiniteSet(due) /\ \A x \in due : x.at \in Nat /\ x.no \in Nat
      /\ \A x, y \in due : x.no = y.no => x = y
  BY DEF HeapOrdered
<1>2. \A x \in due : B(x) \in SUBSET due /\ x \notin B(x) /\ B(x) # due
  BY <1>1 DEF Precedes
<1>3. /\ Cardinality(due) \in Nat
      /\ \A x \in due : /\ IsFiniteSet(B(x)) /\ Cardinality(B(x)) \in Nat
                        /\ Cardinality(B(x)) <= Cardinality(due)
                        /\ Cardinality(B(x)) # Cardinality(due)
  <2>1. Cardinality(due) \in Nat
    BY <1>1, FS_CardinalityType
  <2>2. ASSUME NEW x \in due
        PROVE  /\ IsFiniteSet(B(x)) /\ Cardinality(B(x)) \in Nat
               /\ Cardinality(B(x)) <= Cardinality(due)
               /\ Cardinality(B(x)) # Cardinality(due)
    <3>1. B(x) \in SUBSET due /\ B(x) # due
      BY <1>2
    <3> HIDE DEF B
    <3>2. /\ IsFiniteSet(B(x)) /\ Cardinality(B(x)) <= Cardinality(due)
          /\ Cardinality(B(x)) # Cardinality(due)
      BY <1>1, <3>1, FS_Subset
    <3> QED
      BY <3>2, FS_CardinalityType
  <2> QED
    BY <2>1, <2>2
<1>4. Rank(d, due) \in 0..Cardinality(due)-1
  <2>1. Rank(d, due) = Cardinality(B(d))
    BY DEF Rank
  <2> HIDE DEF B
  <2> QED
    BY <1>3, <2>1
<1>5. ASSUME Precedes(d, e)
      PROVE  Rank(d, due) < Rank(e, due)
  <2>1. B(d) \in SUBSET B(e) /\ d \in B(e) /\ d \notin B(d)
    BY <1>1, <1>5 DEF Precedes
  <2>2. Rank(d, due) = Cardinality(B(d)) /\ Rank(e, due) = Cardinality(B(e))
    BY DEF Rank
  <2> HIDE DEF B
  <2>3. Cardinality(B(d)) <= Cardinality(B(e)) /\ Cardinality(B(d)) # Cardinality(B(e))
    BY <1>3, <2>1, FS_Subset
  <2> QED
    BY <1>3, <2>2, <2>3
<1> QED
  BY <1>4, <1>5

\* The order in which the entries of a set are woken.
InHeapOrder(order, due) ==
    /\ order \in [1..Cardinality(due) -> due] /\ Cardinality(due) \in Nat
    /\ \A e \in due : \E i \in 1..Cardinality(due) : order[i] = e
    /\ \A i, j \in 1..Cardinality(due) : i < j => Precedes(order[i], order[j])

LEMMA WokenInHeapOrder ==
  ASSUME NEW due, HeapOrdered(due)
  PROVE  InHeapOrder(Woken(due), due)
<1> DEFINE n == Cardinality(due)
           rank == [e \in due |-> Rank(e, due)]
           order == Woken(due)
<1>1. /\ IsFiniteSet(due) /\ n \in Nat /\ \A x \in due : x.at \in Nat /\ x.no \in Nat
      /\ \A x, y \in due : x.no = y.no => x = y
  BY FS_CardinalityType DEF HeapOrdered
<1>2. \A x \in due : Rank(x, due) \in 0..n-1
  BY RankGrows
<1>3. ASSUME NEW x \in due, NEW y \in due, Rank(x, due) = Rank(y, due)
      PROVE  x = y
  <2>1. ~ Precedes(x, y) /\ ~ Precedes(y, x)
    <3>1. Rank(x, due) \in Int
      BY <1>2
    <3> QED
      BY <1>3, <3>1, RankGrows
  <2> QED
    BY <1>1, <2>1 DEF Precedes
<1>4. rank \in Injection(due, 0..n-1)
  <2>1. rank \in [due -> 0..n-1]
    BY <1>2
  <2>2. \A x, y \in due : rank[x] = rank[y] => x = y
    BY <1>3
  <2> HIDE DEF rank
  <2> QED
    BY <2>1, <2>2 DEF Injection, IsInjective
<1>5. rank \in Surjection(due, 0..n-1)
  <2>1. 0 \in Int /\ n - 1 \in Int
    BY <1>1
  <2>2. IsFiniteSet(0..n-1) /\ Cardinality(0..n-1) = IF 0 > n - 1 THEN 0 ELSE n - 1 - 0 + 1
    BY <2>1, FS_Interval, Zenon
  <2>3. IsFiniteSet(0..n-1) /\ Cardinality(0..n-1) = Cardinality(due)
    BY <1>1, <2>2
  <2> HIDE DEF rank
  <2> QED
    BY <1>1, <1>4, <2>3, FS_Injection
<1>6. \A i \in 1..n : \E e \in due : Rank(e, due) = i - 1
  <2> TAKE i \in 1..n
  <2>1. i - 1 \in 0..n-1
    BY <1>1
  <2>2. \E e \in due : rank[e] = i - 1
    <3> HIDE DEF rank
    <3> QED
      BY <1>5, <2>1 DEF Surjection
  <2> QED
    BY <2>2
<1>7. order = [i \in 1..n |-> CHOOSE e \in due : Rank(e, due) = i - 1]
  BY DEF Woken, Rank
<1> HIDE DEF order
<1>8. \A i \in 1..n : order[i] \in due /\ Rank(order[i], due) = i - 1
  BY <1>6, <1>7
<1>9. order \in [1..n -> due]
  BY <1>7, <1>8
<1>10. ASSUME NEW e \in due
       PROVE  \E i \in 1..n : order[i] = e
  <2>1. Rank(e, due) \in 0..n-1
    BY <1>2
  <2>2. Rank(e, due) + 1 \in 1..n /\ (Rank(e, due) + 1) - 1 = Rank(e, due)
    BY <1>1, <2>1
  <2>3. order[Rank(e, due) + 1] = e
    BY <1>3, <1>8, <2>2
  <2> QED
    BY <2>2, <2>3
<1>11. ASSUME NEW i \in 1..n, NEW j \in 1..n, i < j
       PROVE  Precedes(order[i], order[j])
  <2>1. /\ order[i] \in due /\ order[j] \in due
        /\ Rank(order[i], due) = i - 1 /\ Rank(order[j], due) = j - 1
    BY <1>8
  <2>2. order[i] # order[j]
    BY <1>11, <2>1
  <2>3. ~ Precedes(order[j], order[i])
    <3>1. ~ (j - 1 < i - 1)
      BY <1>11
    <3> QED
      BY <2>1, <3>1, RankGrows
  <2> QED
    BY <1>1, <2>1, <2>2, <2>3 DEF Precedes
<1> QED
  BY <1>1, <1>9, <1>10, <1>11 DEF InHeapOrder, order

-----------------------------------------------------------------------------
(* The tasks that are ready, in their order *)

LEMMA TailFacts ==
  ASSUME NEW S, NEW q \in Seq(S), q # <<>>
  PROVE  /\ Head(q) = q[1] /\ Head(q) \in ToSet(q) /\ ToSet(q) \subseteq S
         /\ Tail(q) \in Seq(S) /\ Len(q) \in Nat /\ Len(Tail(q)) = Len(q) - 1
         /\ \A i \in 1..Len(q)-1 : Tail(q)[i] = q[i + 1]
         /\ ToSet(q) = ToSet(Tail(q)) \cup {Head(q)}
<1>1. /\ Head(q) = q[1] /\ 1 \in 1..Len(q) /\ Len(q) \in Nat /\ DOMAIN q = 1..Len(q)
      /\ \A i \in 1..Len(q) : q[i] \in S
      /\ Tail(q) \in Seq(S) /\ Len(Tail(q)) = Len(q) - 1 /\ DOMAIN Tail(q) = 1..Len(q)-1
      /\ \A i \in 1..Len(q)-1 : Tail(q)[i] = q[i + 1]
  OBVIOUS
<1>2. \A i \in 1..Len(q) : i = 1 \/ i - 1 \in 1..Len(q)-1
  BY <1>1
<1>3. ToSet(q) \subseteq ToSet(Tail(q)) \cup {Head(q)}
  <2>1. ASSUME NEW i \in 1..Len(q) PROVE q[i] \in ToSet(Tail(q)) \cup {Head(q)}
    <3>1. CASE i = 1
      BY <1>1, <3>1
    <3>2. CASE i - 1 \in 1..Len(q)-1
      <4>1. Tail(q)[i - 1] = q[i]
        BY <1>1, <3>2
      <4> QED
        BY <1>1, <3>2, <4>1 DEF ToSet
    <3> QED
      BY <1>2, <3>1, <3>2
  <2> QED
    BY <1>1, <2>1 DEF ToSet
<1>4. ToSet(Tail(q)) \cup {Head(q)} \subseteq ToSet(q)
  <2>1. \A i \in 1..Len(q)-1 : i + 1 \in 1..Len(q)
    BY <1>1
  <2> QED
    BY <1>1, <2>1 DEF ToSet
<1> QED
  BY <1>1, <1>3, <1>4 DEF ToSet

LEMMA AppendFacts ==
  ASSUME NEW S, NEW q \in Seq(S), NEW t \in S
  PROVE  /\ Append(q, t) \in Seq(S) /\ Len(q) \in Nat /\ Len(Append(q, t)) = Len(q) + 1
         /\ \A i \in 1..Len(q) : Append(q, t)[i] = q[i]
         /\ Append(q, t)[Len(q) + 1] = t
         /\ ToSet(Append(q, t)) = ToSet(q) \cup {t}
<1> DEFINE p == Append(q, t)
<1>1. /\ p \in Seq(S) /\ Len(q) \in Nat /\ Len(p) = Len(q) + 1
      /\ \A i \in 1..Len(q) : p[i] = q[i]
      /\ p[Len(q) + 1] = t
      /\ DOMAIN p = 1..Len(q)+1 /\ DOMAIN q = 1..Len(q)
  OBVIOUS
<1>2. \A i \in 1..Len(q)+1 : i \in 1..Len(q) \/ i = Len(q) + 1
  BY <1>1
<1>3. 1..Len(q) \subseteq 1..Len(q)+1 /\ Len(q) + 1 \in 1..Len(q)+1
  BY <1>1
<1> HIDE DEF p
<1>4. ToSet(p) = ToSet(q) \cup {t}
  <2>1. ToSet(p) \subseteq ToSet(q) \cup {t}
    BY <1>1, <1>2 DEF ToSet
  <2>2. ToSet(q) \cup {t} \subseteq ToSet(p)
    BY <1>1, <1>3 DEF ToSet
  <2> QED
    BY <2>1, <2>2
<1> QED
  BY <1>1, <1>4 DEF p

\* Each task is there once, and those that have slept come before the others and in the
\* order in which they lay down; a task that is cancelled does not count.
InTurn(q, lay, leaving, i, j) ==
    q[i] \notin leaving /\ q[j] \notin leaving /\ lay[q[j]] # NoAlarm
      => lay[q[i]] # NoAlarm /\ lay[q[i]].no < lay[q[j]].no
Orderly(q, lay, leaving) ==
    \A i, j \in 1..Len(q) : i < j => q[i] # q[j] /\ InTurn(q, lay, leaving, i, j)

\* What becomes of the first is no matter to the order of the rest.
LEMMA RestIsOrderly ==
  ASSUME NEW q \in Seq(Tasks), q # <<>>, NEW a, NEW b, NEW c, NEW d, Orderly(q, a, c),
         \A u \in Tasks \ {Head(q)} : a[u] = b[u] /\ (u \in c <=> u \in d)
  PROVE  Orderly(Tail(q), b, d) /\ Head(q) \notin ToSet(Tail(q))
<1>1. /\ Head(q) = q[1] /\ Tail(q) \in Seq(Tasks) /\ Len(q) \in Nat /\ Len(Tail(q)) = Len(q) - 1
      /\ \A i \in 1..Len(q)-1 : Tail(q)[i] = q[i + 1]
  BY TailFacts
<1>2. \A i \in 1..Len(q)-1 : q[1] # q[i + 1] /\ q[i + 1] \in Tasks /\ i + 1 \in 1..Len(q)
  <2>1. \A i \in 1..Len(q)-1 : i + 1 \in 1..Len(q) /\ 1 \in 1..Len(q) /\ 1 < i + 1
    BY <1>1
  <2> QED
    BY <2>1 DEF Orderly
<1>3. ASSUME NEW i \in 1..Len(q)-1, NEW j \in 1..Len(q)-1, i < j
      PROVE  Tail(q)[i] # Tail(q)[j] /\ InTurn(Tail(q), b, d, i, j)
  <2>1. i + 1 \in 1..Len(q) /\ j + 1 \in 1..Len(q) /\ i + 1 < j + 1
    BY <1>1, <1>3
  <2>2. q[i + 1] # q[j + 1] /\ InTurn(q, a, c, i + 1, j + 1)
    BY <2>1 DEF Orderly
  <2>3. /\ a[q[i + 1]] = b[q[i + 1]] /\ (q[i + 1] \in c <=> q[i + 1] \in d)
        /\ a[q[j + 1]] = b[q[j + 1]] /\ (q[j + 1] \in c <=> q[j + 1] \in d)
    BY <1>1, <1>2
  <2>4. Tail(q)[i] = q[i + 1] /\ Tail(q)[j] = q[j + 1]
    BY <1>1
  <2> QED
    BY <2>2, <2>3, <2>4 DEF InTurn
<1>4. Head(q) \notin ToSet(Tail(q))
  <2>1. DOMAIN Tail(q) = 1..Len(q)-1
    BY <1>1
  <2> QED
    BY <1>1, <1>2, <2>1 DEF ToSet
<1> QED
  BY <1>1, <1>3, <1>4 DEF Orderly

\* Who comes last, and has not slept or is cancelled, is no matter to the others.
LEMMA LastIsOrderly ==
  ASSUME NEW q \in Seq(Tasks), NEW t \in Tasks, t \notin ToSet(q),
         NEW a, NEW b, NEW c, NEW d, Orderly(q, a, c), t \in d \/ b[t] = NoAlarm,
         \A u \in Tasks \ {t} : a[u] = b[u] /\ (u \in c <=> u \in d)
  PROVE  Orderly(Append(q, t), b, d)
<1> DEFINE p == Append(q, t)
<1>1. /\ Len(q) \in Nat /\ Len(p) = Len(q) + 1 /\ p[Len(q) + 1] = t
      /\ \A i \in 1..Len(q) : p[i] = q[i]
  BY AppendFacts
<1>2. \A i \in 1..Len(q) : q[i] \in Tasks /\ q[i] # t
  BY DEF ToSet
<1> HIDE DEF p
<1>3. ASSUME NEW i \in 1..Len(q)+1, NEW j \in 1..Len(q)+1, i < j
      PROVE  p[i] # p[j] /\ InTurn(p, b, d, i, j)
  <2>1. i \in 1..Len(q) /\ p[i] = q[i]
    BY <1>1, <1>3
  <2>2. CASE j = Len(q) + 1
    <3>1. p[j] = t
      BY <1>1, <2>2
    <3> QED
      BY <1>2, <2>1, <3>1 DEF InTurn
  <2>3. CASE j \in 1..Len(q)
    <3>1. q[i] # q[j] /\ InTurn(q, a, c, i, j) /\ p[j] = q[j]
      BY <1>1, <1>3, <2>1, <2>3 DEF Orderly
    <3>2. /\ a[q[i]] = b[q[i]] /\ (q[i] \in c <=> q[i] \in d)
          /\ a[q[j]] = b[q[j]] /\ (q[j] \in c <=> q[j] \in d)
      BY <1>2, <2>1, <2>3
    <3> QED
      BY <2>1, <3>1, <3>2 DEF InTurn
  <2> QED
    BY <1>1, <2>2, <2>3
<1> QED
  BY <1>1, <1>3 DEF Orderly, p

-----------------------------------------------------------------------------
(* The inductive invariant *)

Steps == {"new", "running", "done", "failed", "stopped"}
Alarms == [at : Nat, no : Nat, task : Tasks] \cup {NoAlarm}

TypeInv ==
    /\ now \in Nat /\ count \in Nat /\ attempts \in Nat /\ started \in Nat
    /\ ready \in Seq(Tasks) /\ step \in [Tasks -> Steps]
    /\ turn \in [Tasks -> 0..Budget + 2] /\ alarm \in [Tasks -> Alarms]
    /\ doomed \subseteq Tasks /\ loaded \in BOOLEAN /\ crashed \in BOOLEAN
    /\ ~(loaded /\ crashed)

\* Asleep is who has an alarm in the heap: its own, still to come, with a number that no
\* other has.  A task that runs is ready to go on, asleep, or waits for something other
\* than the clock.
SleepInv ==
    /\ \A e \in sleepers : /\ e.task \in Tasks /\ e = alarm[e.task]
                           /\ e.at > now /\ e.no < count
                           /\ step[e.task] = "running"
    /\ \A d, e \in sleepers : d.no = e.no => d = e
    /\ \A t \in Tasks : step[t] = "running" =>
         t \in ToSet(ready) \/ alarm[t] \in sleepers \/ Kind[t] = "event"
    /\ \A t \in Tasks : alarm[t] # NoAlarm => alarm[t].task = t /\ step[t] # "new"

\* Who is ready runs, and if it has slept, it was until now.
ReadyInv ==
    /\ \A t \in ToSet(ready) : step[t] = "running"
    /\ Orderly(ready, alarm, cancelling)
    /\ \A t \in ToSet(ready) \ cancelling : alarm[t] # NoAlarm => alarm[t].at = now
    /\ cancelling \subseteq ToSet(ready)

\* A test that drives a task has seen it begin, and gives up on none that the clock could
\* still help.
TestInv ==
    /\ test \in [mode : {"idle", "advance", "drive"}, until : 0..Horizon,
                 task : Tasks \cup {NoTask}, raised : Tasks \cup {NoTask}]
    /\ test.mode = "drive" => test.task \in Tasks /\ step[test.task] # "new"
    /\ test.raised # NoTask => Kind[test.raised] = "event"

Inv == TypeInv /\ SleepInv /\ ReadyInv /\ TestInv

LEMMA Delays ==
  /\ Load \in Nat /\ Unload \in Nat /\ FirstToken \in Nat /\ Interval \in Nat
  /\ Budget \in Nat /\ Horizon \in Nat
BY SimulationConfig

LEMMA StartsRight ==
  Init => Inv
<1> SUFFICES ASSUME Init PROVE Inv
  OBVIOUS
<1>1. TypeInv
  <2>1. 0 \in 0..Budget + 2
    BY Delays
  <2>2. turn \in [Tasks -> 0..Budget + 2]
    BY <2>1 DEF Init
  <2>3. alarm \in [Tasks -> Alarms] /\ step \in [Tasks -> Steps] /\ ready \in Seq(Tasks)
    BY DEF Init, Alarms, Steps
  <2> QED
    BY <2>2, <2>3 DEF Init, TypeInv
<1>2. SleepInv
  BY DEF Init, SleepInv
<1>3. ReadyInv
  BY DEF Init, ReadyInv, Orderly, ToSet
<1>4. TestInv
  BY Delays DEF Init, TestInv, Idle, NoTask
<1> QED
  BY <1>1, <1>2, <1>3, <1>4 DEF Inv

\* The test's part of the invariant, in a step of a task.
LEMMA TestUndisturbed ==
  ASSUME Inv, UNCHANGED test, \A t \in Tasks : step'[t] = "new" => step[t] = "new"
  PROVE  TestInv'
BY DEF Inv, TestInv

\* Who is ready and has not been cancelled does not sleep.
LEMMA AwakeIsAwake ==
  ASSUME Inv, NEW t \in ToSet(ready), t \notin cancelling
  PROVE  alarm[t] \notin sleepers /\ t \in Tasks /\ \A e \in sleepers : e.task # t
<1>1. t \in Tasks
  BY DEF Inv, TypeInv, ToSet
<1>2. now \in Nat /\ (alarm[t] # NoAlarm => alarm[t].at = now)
  BY DEF Inv, TypeInv, ReadyInv
<1>3. alarm[t] \notin sleepers
  <2>1. \A e \in sleepers : e.at > now
    BY DEF Inv, SleepInv
  <2> QED
    BY <1>2, <2>1 DEF NoAlarm
<1> QED
  BY <1>1, <1>3 DEF Inv, SleepInv

-----------------------------------------------------------------------------
(* What a task does *)

LEMMA BeginKeepsInv ==
  ASSUME Inv, NEW t \in Tasks, Begin(t)
  PROVE  Inv'
<1>1. /\ step[t] = "new" /\ step \in [Tasks -> Steps] /\ step' = [step EXCEPT ![t] = "running"]
      /\ ready \in Seq(Tasks) /\ ready' = Append(ready, t)
      /\ UNCHANGED <<now, sleepers, count, turn, cancelling, alarm, doomed, loaded, crashed,
                     attempts, started, test>>
  BY DEF Inv, TypeInv, Begin, clockVars, mockVars
<1>2. alarm[t] = NoAlarm /\ t \notin ToSet(ready) /\ t \notin cancelling
  BY <1>1 DEF Inv, SleepInv, ReadyInv
<1>3. ready' \in Seq(Tasks) /\ ToSet(ready') = ToSet(ready) \cup {t}
  BY <1>1, AppendFacts
<1>4. TypeInv'
  BY <1>1, <1>3 DEF Inv, TypeInv, Steps
<1>5. SleepInv'
  <2>1. \A e \in sleepers' : /\ e.task \in Tasks /\ e = alarm'[e.task]
                             /\ e.at > now' /\ e.no < count' /\ step'[e.task] = "running"
    BY <1>1 DEF Inv, SleepInv
  <2>2. \A u \in Tasks : /\ step'[u] = "running" =>
                              u \in ToSet(ready') \/ alarm'[u] \in sleepers' \/ Kind[u] = "event"
                         /\ alarm'[u] # NoAlarm => alarm'[u].task = u /\ step'[u] # "new"
    BY <1>1, <1>3 DEF Inv, SleepInv
  <2> QED
    BY <1>1, <2>1, <2>2 DEF Inv, SleepInv
<1>6. ReadyInv'
  <2>1. Orderly(ready, alarm, cancelling)
    BY DEF Inv, ReadyInv
  <2>2. Orderly(ready', alarm', cancelling')
    BY <1>1, <1>2, <2>1, LastIsOrderly
  <2>3. \A u \in ToSet(ready') : step'[u] = "running"
    BY <1>1, <1>3 DEF Inv, ReadyInv
  <2> QED
    BY <1>1, <1>2, <1>3, <2>2, <2>3 DEF Inv, ReadyInv
<1>7. TestInv'
  <2>1. \A u \in Tasks : step'[u] = "new" => step[u] = "new"
    BY <1>1
  <2> QED
    BY <1>1, <2>1, TestUndisturbed
<1> QED
  BY <1>4, <1>5, <1>6, <1>7 DEF Inv

LEMMA CancelKeepsInv ==
  ASSUME Inv, NEW t \in Tasks, Cancel(t)
  PROVE  Inv'
<1>1. /\ step[t] = "running" /\ ready \in Seq(Tasks)
      /\ cancelling' = cancelling \cup {t} /\ t \notin cancelling
      /\ ready' = IF t \in ToSet(ready) THEN ready ELSE Append(ready, t)
      /\ UNCHANGED <<now, sleepers, count, step, turn, alarm, doomed, loaded, crashed,
                     attempts, started, test>>
  BY DEF Inv, TypeInv, Cancel, clockVars, mockVars
<1>2. ready' \in Seq(Tasks) /\ ToSet(ready') = ToSet(ready) \cup {t}
  BY <1>1, AppendFacts
<1>3. TypeInv'
  BY <1>1, <1>2 DEF Inv, TypeInv
<1>4. SleepInv'
  BY <1>1, <1>2 DEF Inv, SleepInv
<1>5. Orderly(ready', alarm', cancelling')
  <2>1. Orderly(ready, alarm, cancelling)
    BY DEF Inv, ReadyInv
  <2>2. CASE t \in ToSet(ready)
    BY <1>1, <2>1, <2>2 DEF Orderly, InTurn
  <2>3. CASE t \notin ToSet(ready)
    <3>1. t \in cancelling' /\ \A u \in Tasks \ {t} : u \in cancelling <=> u \in cancelling'
      BY <1>1
    <3>2. Orderly(Append(ready, t), alarm', cancelling')
      BY <1>1, <2>1, <2>3, <3>1, LastIsOrderly
    <3> QED
      BY <1>1, <2>3, <3>2
  <2> QED
    BY <2>2, <2>3
<1>6. ReadyInv'
  BY <1>1, <1>2, <1>5 DEF Inv, ReadyInv
<1> QED
  BY <1>1, <1>3, <1>4, <1>6, TestUndisturbed DEF Inv

\* A task that has its turn leaves the head of ready.
LEMMA HeadLeaves ==
  ASSUME Inv, NEW t \in Tasks, ready # <<>>, t = Head(ready),
         cancelling' = cancelling \ {t}, \A u \in Tasks \ {t} : alarm'[u] = alarm[u]
  PROVE  /\ Tail(ready) \in Seq(Tasks) /\ ToSet(Tail(ready)) = ToSet(ready) \ {t}
         /\ Orderly(Tail(ready), alarm', cancelling')
         /\ t \in ToSet(ready) /\ step[t] = "running"
<1>1. ready \in Seq(Tasks) /\ Orderly(ready, alarm, cancelling)
  BY DEF Inv, TypeInv, ReadyInv
<1>2. /\ Tail(ready) \in Seq(Tasks) /\ t \in ToSet(ready)
      /\ ToSet(ready) = ToSet(Tail(ready)) \cup {t}
  BY <1>1, TailFacts
<1>3. \A u \in Tasks \ {t} : alarm[u] = alarm'[u] /\ (u \in cancelling <=> u \in cancelling')
  OBVIOUS
<1>4. Orderly(Tail(ready), alarm', cancelling') /\ t \notin ToSet(Tail(ready))
  BY <1>1, <1>3, RestIsOrderly
<1>5. step[t] = "running"
  BY <1>2 DEF Inv, ReadyInv
<1> QED
  BY <1>2, <1>4, <1>5

LEMMA EndKeepsOrder ==
  ASSUME Inv, NEW t \in Tasks, ready # <<>>, t = Head(ready),
         UNCHANGED <<now, count>>, cancelling' = cancelling \ {t},
         sleepers' = sleepers \ {alarm[t]},
         NEW how \in {"done", "failed", "stopped"}, Ends(t, how)
  PROVE  SleepInv' /\ ReadyInv'
<1>1. /\ step' = [step EXCEPT ![t] = how] /\ ready' = Tail(ready)
      /\ alarm' = [alarm EXCEPT ![t] = NoAlarm]
      /\ step \in [Tasks -> Steps] /\ alarm \in [Tasks -> Alarms]
  BY DEF Ends, Inv, TypeInv
<1>2. /\ Orderly(ready', alarm', cancelling') /\ ToSet(ready') = ToSet(ready) \ {t}
      /\ ToSet(ready) \subseteq Tasks
  <2>1. \A u \in Tasks \ {t} : alarm'[u] = alarm[u]
    BY <1>1
  <2>2. ToSet(ready) \subseteq Tasks
    BY DEF Inv, TypeInv, ToSet
  <2> QED
    BY <1>1, <2>1, <2>2, HeadLeaves
<1>3. SleepInv'
  <2>1. \A e \in sleepers' : /\ e.task \in Tasks /\ e.task # t /\ e = alarm'[e.task]
                             /\ e.at > now' /\ e.no < count' /\ step'[e.task] = "running"
    BY <1>1 DEF Inv, SleepInv
  <2>2. \A d, e \in sleepers' : d.no = e.no => d = e
    BY DEF Inv, SleepInv
  <2>3. ASSUME NEW u \in Tasks, step'[u] = "running"
        PROVE  u \in ToSet(ready') \/ alarm'[u] \in sleepers' \/ Kind[u] = "event"
    <3>1. u # t /\ step[u] = "running" /\ alarm'[u] = alarm[u]
      BY <1>1, <2>3
    <3>2. alarm[u] \in sleepers => alarm[u] # alarm[t]
      <4>1. SUFFICES ASSUME alarm[u] \in sleepers, alarm[u] = alarm[t] PROVE FALSE
        OBVIOUS
      <4>2. alarm[u] # NoAlarm
        BY <4>1 DEF Inv, SleepInv, TypeInv, NoAlarm
      <4>3. alarm[u].task = u /\ alarm[t].task = t
        BY <4>1, <4>2 DEF Inv, SleepInv
      <4> QED
        BY <3>1, <4>1, <4>3
    <3> QED
      BY <1>2, <3>1, <3>2 DEF Inv, SleepInv
  <2>4. \A u \in Tasks : alarm'[u] # NoAlarm => alarm'[u].task = u /\ step'[u] # "new"
    BY <1>1 DEF Inv, SleepInv
  <2> QED
    BY <2>1, <2>2, <2>3, <2>4 DEF SleepInv
<1>4. ReadyInv'
  <2>1. \A u \in ToSet(ready') : u # t /\ step'[u] = "running" /\ alarm'[u] = alarm[u]
    BY <1>1, <1>2 DEF Inv, ReadyInv
  <2>2. \A u \in ToSet(ready') \ cancelling' : alarm'[u] # NoAlarm => alarm'[u].at = now'
    BY <1>2, <2>1 DEF Inv, ReadyInv
  <2>3. cancelling' \subseteq ToSet(ready')
    BY <1>2 DEF Inv, ReadyInv
  <2> QED
    BY <1>2, <2>1, <2>2, <2>3 DEF ReadyInv
<1> QED
  BY <1>3, <1>4

LEMMA SleepKeepsOrder ==
  ASSUME Inv, NEW t \in Tasks, ready # <<>>, t = Head(ready), t \notin cancelling,
         UNCHANGED <<now, cancelling, step>>, NEW seconds \in Nat, Sleeps(t, seconds)
  PROVE  /\ SleepInv' /\ ReadyInv'
         /\ count' \in Nat /\ ready' \in Seq(Tasks) /\ alarm' \in [Tasks -> Alarms]
<1>1. /\ now \in Nat /\ count \in Nat /\ step \in [Tasks -> Steps] /\ alarm \in [Tasks -> Alarms]
      /\ ready \in Seq(Tasks) /\ ToSet(ready) \subseteq Tasks
  BY DEF Inv, TypeInv, ToSet
<1>2. \A u \in Tasks \ {t} : alarm'[u] = alarm[u]
  BY <1>1 DEF Sleeps
<1>3. /\ Tail(ready) \in Seq(Tasks) /\ ToSet(Tail(ready)) = ToSet(ready) \ {t}
      /\ Orderly(Tail(ready), alarm', cancelling')
      /\ t \in ToSet(ready) /\ step[t] = "running"
  <2>1. cancelling' = cancelling \ {t}
    OBVIOUS
  <2> QED
    BY <1>2, <2>1, HeadLeaves
<1>4. /\ Append(Tail(ready), t) \in Seq(Tasks)
      /\ ToSet(Append(Tail(ready), t)) = ToSet(Tail(ready)) \cup {t}
  <2> DEFINE rest == Tail(ready)
  <2>1. rest \in Seq(Tasks)
    BY <1>3
  <2> HIDE DEF rest
  <2>2. Append(rest, t) \in Seq(Tasks) /\ ToSet(Append(rest, t)) = ToSet(rest) \cup {t}
    BY <2>1, AppendFacts
  <2> QED
    BY <2>2 DEF rest
<1>5. alarm[t] \notin sleepers /\ \A e \in sleepers : e.task # t
  BY <1>3, AwakeIsAwake
<1>6. \A u \in ToSet(ready') \ {t} : u \in ToSet(ready) /\ alarm'[u] = alarm[u]
  <2>1. ToSet(ready') \subseteq ToSet(Tail(ready)) \cup {t}
    BY <1>4 DEF Sleeps
  <2> QED
    BY <1>1, <1>2, <1>3, <2>1
<1>7. CASE seconds = 0
  <2>1. /\ ready' = Append(Tail(ready), t) /\ alarm' = [alarm EXCEPT ![t] = NoAlarm]
        /\ UNCHANGED <<sleepers, count>>
    BY <1>7 DEF Sleeps
  <2>2. /\ ready' \in Seq(Tasks) /\ ToSet(ready') = ToSet(ready)
        /\ alarm' \in [Tasks -> Alarms] /\ alarm'[t] = NoAlarm
    <3>1. ready' \in Seq(Tasks) /\ ToSet(ready') = ToSet(Tail(ready)) \cup {t}
      BY <1>4, <2>1
    <3> QED
      BY <1>1, <1>3, <2>1, <3>1 DEF Alarms
  <2>3. Orderly(ready', alarm', cancelling')
    <3>1. t \notin ToSet(Tail(ready))
      BY <1>3
    <3> QED
      BY <1>3, <2>1, <2>2, <3>1, LastIsOrderly
  <2>4. SleepInv'
    <3>1. \A e \in sleepers' : /\ e.task \in Tasks /\ e = alarm'[e.task]
                               /\ e.at > now' /\ e.no < count' /\ step'[e.task] = "running"
      BY <1>2, <1>5, <2>1 DEF Inv, SleepInv
    <3>2. \A u \in Tasks : /\ step'[u] = "running" =>
                                u \in ToSet(ready') \/ alarm'[u] \in sleepers' \/ Kind[u] = "event"
                           /\ alarm'[u] # NoAlarm => alarm'[u].task = u /\ step'[u] # "new"
      BY <1>2, <1>3, <2>1, <2>2 DEF Inv, SleepInv
    <3> QED
      BY <2>1, <3>1, <3>2 DEF Inv, SleepInv
  <2>5. ReadyInv'
    BY <1>6, <2>2, <2>3 DEF Inv, ReadyInv
  <2> QED
    BY <1>1, <2>1, <2>2, <2>4, <2>5
<1>8. CASE seconds # 0
  <2> DEFINE entry == [at |-> now + seconds, no |-> count, task |-> t]
  <2>1. /\ ready' = Tail(ready) /\ alarm' = [alarm EXCEPT ![t] = entry]
        /\ sleepers' = sleepers \cup {entry} /\ count' = count + 1
    BY <1>8 DEF Sleeps
  <2>2. /\ entry \in Alarms /\ entry.at > now /\ entry.no = count /\ entry.task = t
    BY <1>1, <1>8 DEF Alarms
  <2> HIDE DEF entry
  <2>3. alarm' \in [Tasks -> Alarms] /\ alarm'[t] = entry /\ count' \in Nat
    BY <1>1, <2>1, <2>2
  <2>4. SleepInv'
    <3>0. \A e \in sleepers : /\ e.task \in Tasks /\ e = alarm[e.task] /\ e.at > now
                              /\ e.no < count /\ step[e.task] = "running" /\ e.no \in Nat
      <4>1. \A e \in sleepers : /\ e.task \in Tasks /\ e = alarm[e.task] /\ e.at > now
                                /\ e.no < count /\ step[e.task] = "running"
        BY DEF Inv, SleepInv
      <4> QED
        BY <1>1, <4>1 DEF Alarms, NoAlarm
    <3>1. \A e \in sleepers' : /\ e.task \in Tasks /\ e = alarm'[e.task]
                               /\ e.at > now' /\ e.no < count' /\ step'[e.task] = "running"
      <4>1. ASSUME NEW e \in sleepers
            PROVE  /\ e.task \in Tasks /\ e = alarm'[e.task]
                   /\ e.at > now' /\ e.no < count' /\ step'[e.task] = "running"
        BY <1>1, <1>2, <1>5, <2>1, <3>0
      <4>2. /\ entry.task \in Tasks /\ entry = alarm'[entry.task]
            /\ entry.at > now' /\ entry.no < count' /\ step'[entry.task] = "running"
        BY <1>1, <1>3, <2>1, <2>2, <2>3
      <4> QED
        BY <2>1, <4>1, <4>2
    <3>2. \A d, e \in sleepers' : d.no = e.no => d = e
      <4>1. \A d, e \in sleepers : d.no = e.no => d = e
        BY DEF Inv, SleepInv
      <4>2. \A e \in sleepers : e.no # entry.no
        BY <1>1, <2>2, <3>0
      <4> QED
        BY <2>1, <4>1, <4>2
    <3>3. \A u \in Tasks \ {t} :
               /\ step'[u] = "running" =>
                    u \in ToSet(ready') \/ alarm'[u] \in sleepers' \/ Kind[u] = "event"
               /\ alarm'[u] # NoAlarm => alarm'[u].task = u /\ step'[u] # "new"
      BY <1>2, <1>3, <2>1 DEF Inv, SleepInv
    <3>4. alarm'[t] \in sleepers' /\ alarm'[t].task = t /\ step'[t] # "new"
      BY <1>3, <2>1, <2>2, <2>3
    <3> QED
      BY <3>1, <3>2, <3>3, <3>4 DEF SleepInv
  <2>5. ReadyInv'
    BY <1>3, <1>6, <2>1 DEF Inv, ReadyInv
  <2> QED
    BY <1>3, <2>1, <2>3, <2>4, <2>5
<1> QED
  BY <1>7, <1>8

\* What MockBackend is left like.
MockInv ==
    /\ attempts \in Nat /\ started \in Nat /\ doomed \subseteq Tasks
    /\ loaded \in BOOLEAN /\ crashed \in BOOLEAN /\ ~(loaded /\ crashed)

\* A task that has had its turn has ended or gone to sleep, or waits for something else.
LEMMA TurnKeepsInv ==
  ASSUME Inv, NEW t \in Tasks, NEW n \in 0..Budget + 1, Resumes(t, n), MockInv',
         \/ /\ UNCHANGED <<sleepers, count>>
            /\ \E how \in {"done", "failed", "stopped"} : Ends(t, how)
         \/ UNCHANGED step /\ \E seconds \in Nat : Sleeps(t, seconds)
  PROVE  Inv'
<1>1. /\ ready # <<>> /\ t = Head(ready) /\ t \notin cancelling /\ turn[t] = n
      /\ turn' = [turn EXCEPT ![t] = @ + 1] /\ UNCHANGED <<now, cancelling, test>>
  BY DEF Resumes
<1>2. /\ now \in Nat /\ count \in Nat /\ step \in [Tasks -> Steps] /\ alarm \in [Tasks -> Alarms]
      /\ turn \in [Tasks -> 0..Budget + 2] /\ ready \in Seq(Tasks)
  BY DEF Inv, TypeInv
<1>3. turn' \in [Tasks -> 0..Budget + 2]
  <2>1. n + 1 \in 0..Budget + 2
    BY Delays
  <2> QED
    BY <1>1, <1>2, <2>1
<1>4. /\ SleepInv' /\ ReadyInv' /\ count' \in Nat /\ ready' \in Seq(Tasks)
      /\ step' \in [Tasks -> Steps] /\ alarm' \in [Tasks -> Alarms]
      /\ \A u \in Tasks : step'[u] = "new" => step[u] = "new"
  <2>1. CASE UNCHANGED step /\ \E seconds \in Nat : Sleeps(t, seconds)
    <3>1. PICK seconds \in Nat : Sleeps(t, seconds)
      BY <2>1
    <3>2. UNCHANGED <<now, cancelling, step>>
      BY <1>1, <2>1
    <3>3. /\ SleepInv' /\ ReadyInv' /\ count' \in Nat /\ ready' \in Seq(Tasks)
          /\ alarm' \in [Tasks -> Alarms]
      BY <1>1, <3>1, <3>2, SleepKeepsOrder
    <3> QED
      BY <1>2, <3>2, <3>3
  <2>2. ASSUME UNCHANGED <<sleepers, count>>,
               NEW how \in {"done", "failed", "stopped"}, Ends(t, how)
        PROVE  /\ SleepInv' /\ ReadyInv' /\ count' \in Nat /\ ready' \in Seq(Tasks)
               /\ step' \in [Tasks -> Steps] /\ alarm' \in [Tasks -> Alarms]
               /\ \A u \in Tasks : step'[u] = "new" => step[u] = "new"
    <3>1. t \in ToSet(ready) /\ Tail(ready) \in Seq(Tasks)
      BY <1>1, <1>2, TailFacts
    <3>2. alarm[t] \notin sleepers
      BY <1>1, <3>1, AwakeIsAwake
    <3>3. /\ sleepers' = sleepers \ {alarm[t]} /\ cancelling' = cancelling \ {t}
          /\ UNCHANGED <<now, count>>
      BY <1>1, <2>2, <3>2
    <3>4. SleepInv' /\ ReadyInv'
      BY <1>1, <2>2, <3>3, EndKeepsOrder
    <3>5. /\ step' = [step EXCEPT ![t] = how] /\ ready' = Tail(ready)
          /\ alarm' = [alarm EXCEPT ![t] = NoAlarm]
      BY <2>2 DEF Ends
    <3> QED
      BY <1>2, <2>2, <3>1, <3>4, <3>5 DEF Steps, Alarms
  <2> QED
    BY <2>1, <2>2
<1>5. TypeInv'
  BY <1>1, <1>2, <1>3, <1>4 DEF TypeInv, MockInv
<1>6. TestInv'
  BY <1>1, <1>4, TestUndisturbed
<1> QED
  BY <1>4, <1>5, <1>6 DEF Inv

LEMMA Turns ==
  /\ 0 \in 0..Budget + 1 /\ 1 \in 0..Budget + 1
  /\ \A n \in 1..Budget + 1 : n \in 0..Budget + 1
BY Delays

LEMMA StopsKeepsInv ==
  ASSUME Inv, NEW t \in Tasks, Stops(t)
  PROVE  Inv'
<1>1. /\ ready # <<>> /\ t = Head(ready) /\ cancelling' = cancelling \ {t}
      /\ sleepers' = sleepers \ {alarm[t]} /\ Ends(t, "stopped")
      /\ UNCHANGED <<now, count, turn, doomed, loaded, crashed, attempts, started, test>>
  BY DEF Stops, mockVars
<1>2. SleepInv' /\ ReadyInv'
  <2>1. UNCHANGED <<now, count>>
    BY <1>1
  <2> QED
    BY <1>1, <2>1, EndKeepsOrder
<1>3. /\ step' = [step EXCEPT ![t] = "stopped"] /\ ready' = Tail(ready)
      /\ alarm' = [alarm EXCEPT ![t] = NoAlarm]
  BY <1>1 DEF Ends
<1>4. ready' \in Seq(Tasks)
  BY <1>1, <1>3, TailFacts DEF Inv, TypeInv
<1>5. TypeInv'
  <2>1. step' \in [Tasks -> Steps] /\ alarm' \in [Tasks -> Alarms]
    BY <1>3 DEF Inv, TypeInv, Steps, Alarms
  <2> QED
    BY <1>1, <1>4, <2>1 DEF Inv, TypeInv
<1>6. TestInv'
  <2>1. \A u \in Tasks : step'[u] = "new" => step[u] = "new"
    BY <1>3 DEF Inv, TypeInv
  <2> QED
    BY <1>1, <2>1, TestUndisturbed
<1> QED
  BY <1>2, <1>5, <1>6 DEF Inv

LEMMA WaitsKeepsInv ==
  ASSUME Inv, NEW t \in Tasks, Waits(t)
  PROVE  Inv'
<1>1. /\ Kind[t] = "event" /\ ready # <<>> /\ t = Head(ready) /\ t \notin cancelling
      /\ turn[t] = 0 /\ turn' = [turn EXCEPT ![t] = @ + 1] /\ ready' = Tail(ready)
      /\ UNCHANGED <<now, sleepers, count, step, cancelling, alarm, doomed, loaded, crashed,
                     attempts, started, test>>
  BY DEF Waits, Resumes, mockVars
<1>2. /\ Tail(ready) \in Seq(Tasks) /\ ToSet(Tail(ready)) = ToSet(ready) \ {t}
      /\ Orderly(Tail(ready), alarm', cancelling')
  <2>1. cancelling' = cancelling \ {t} /\ \A u \in Tasks \ {t} : alarm'[u] = alarm[u]
    BY <1>1
  <2> QED
    BY <1>1, <2>1, HeadLeaves
<1>3. TypeInv'
  <2>1. turn' \in [Tasks -> 0..Budget + 2]
    <3>1. 0 + 1 \in 0..Budget + 2
      BY Delays
    <3> QED
      BY <1>1, <3>1 DEF Inv, TypeInv
  <2> QED
    BY <1>1, <1>2, <2>1 DEF Inv, TypeInv
<1>4. SleepInv'
  BY <1>1, <1>2 DEF Inv, SleepInv
<1>5. ReadyInv'
  BY <1>1, <1>2 DEF Inv, ReadyInv
<1> QED
  BY <1>1, <1>3, <1>4, <1>5, TestUndisturbed DEF Inv

\* The calls of MockBackend: each has one of these ends.
LEMMA MockStepKeepsInv ==
  ASSUME Inv, NEW t \in Tasks,
         \/ StartCalled(t) \/ StartReturns(t) \/ StopCalled(t) \/ StopReturns(t)
         \/ StreamCalled(t) \/ \E n \in 1..Budget + 1 : StreamGoesOn(t, n)
  PROVE  Inv'
<1>0. MockInv
  BY DEF Inv, TypeInv, MockInv
<1>1. CASE StartCalled(t)
  <2>1. Resumes(t, 0) /\ UNCHANGED step /\ \E seconds \in Nat : Sleeps(t, seconds)
    BY <1>1, Delays DEF StartCalled
  <2>2. MockInv'
    BY <1>0, <1>1 DEF StartCalled, MockInv
  <2> QED
    BY <2>1, <2>2, Turns, TurnKeepsInv
<1>2. CASE StartReturns(t)
  <2>1. Resumes(t, 1) /\ UNCHANGED <<sleepers, count>>
    BY <1>2 DEF StartReturns
  <2>2. \E how \in {"done", "failed", "stopped"} : Ends(t, how)
    BY <1>2 DEF StartReturns
  <2>3. MockInv'
    <3>1. UNCHANGED <<doomed, attempts>>
      BY <1>2 DEF StartReturns
    <3>2. CASE UNCHANGED <<loaded, crashed, started>>
      BY <1>0, <3>1, <3>2 DEF MockInv
    <3>3. CASE loaded' = TRUE /\ crashed' = FALSE /\ started' = 0
      BY <1>0, <3>1, <3>3 DEF MockInv
    <3> QED
      BY <1>2, <3>2, <3>3 DEF StartReturns
  <2> QED
    BY <2>1, <2>2, <2>3, Turns, TurnKeepsInv
<1>3. CASE StopCalled(t)
  <2>1. Resumes(t, 0)
    BY <1>3 DEF StopCalled
  <2>2. \/ /\ UNCHANGED <<sleepers, count>>
           /\ \E how \in {"done", "failed", "stopped"} : Ends(t, how)
        \/ UNCHANGED step /\ \E seconds \in Nat : Sleeps(t, seconds)
    BY <1>3, Delays DEF StopCalled, Unloaded
  <2>3. MockInv'
    BY <1>0, <1>3 DEF StopCalled, Unloaded, MockInv
  <2> QED
    BY <2>1, <2>2, <2>3, Turns, TurnKeepsInv
<1>4. CASE StopReturns(t)
  <2>1. Resumes(t, 1) /\ UNCHANGED <<sleepers, count>>
    BY <1>4 DEF StopReturns
  <2>2. \E how \in {"done", "failed", "stopped"} : Ends(t, how)
    BY <1>4 DEF StopReturns, Unloaded
  <2>3. MockInv'
    BY <1>0, <1>4 DEF StopReturns, Unloaded, MockInv
  <2> QED
    BY <2>1, <2>2, <2>3, Turns, TurnKeepsInv
<1>5. CASE StreamCalled(t)
  <2>1. Resumes(t, 0)
    BY <1>5 DEF StreamCalled
  <2>2. \/ /\ UNCHANGED <<sleepers, count>>
           /\ \E how \in {"done", "failed", "stopped"} : Ends(t, how)
        \/ UNCHANGED step /\ \E seconds \in Nat : Sleeps(t, seconds)
    BY <1>5, Delays DEF StreamCalled
  <2>3. MockInv'
    BY <1>0, <1>5 DEF StreamCalled, MockInv
  <2> QED
    BY <2>1, <2>2, <2>3, Turns, TurnKeepsInv
<1>6. ASSUME NEW n \in 1..Budget + 1, StreamGoesOn(t, n)
      PROVE  Inv'
  <2>1. Resumes(t, n) /\ n \in 0..Budget + 1 /\ UNCHANGED <<doomed, attempts, started>>
    BY <1>6, Turns DEF StreamGoesOn
  <2>2. /\ \/ /\ UNCHANGED <<sleepers, count>>
              /\ \E how \in {"done", "failed", "stopped"} : Ends(t, how)
           \/ UNCHANGED step /\ \E seconds \in Nat : Sleeps(t, seconds)
        /\ UNCHANGED <<loaded, crashed>> \/ (crashed' = TRUE /\ loaded' = FALSE)
    BY <1>6, Delays DEF StreamGoesOn
  <2>3. MockInv'
    <3>1. CASE UNCHANGED <<loaded, crashed>>
      BY <1>0, <2>1, <3>1 DEF MockInv
    <3>2. CASE crashed' = TRUE /\ loaded' = FALSE
      BY <1>0, <2>1, <3>2 DEF MockInv
    <3> QED
      BY <2>2, <3>1, <3>2
  <2> QED
    BY <2>1, <2>2, <2>3, TurnKeepsInv
<1> QED
  BY <1>1, <1>2, <1>3, <1>4, <1>5, <1>6

-----------------------------------------------------------------------------
(* What the test does *)

\* Nobody is ready: nobody is being cancelled, and who sleeps is in the heap.
LEMMA SettledFacts ==
  ASSUME Inv, Settled
  PROVE  /\ cancelling = {} /\ ToSet(ready) = {}
         /\ \A t \in Tasks : step[t] = "running" => alarm[t] \in sleepers \/ Kind[t] = "event"
<1>1. ToSet(ready) = {}
  BY DEF Settled, ToSet
<1> QED
  BY <1>1 DEF Inv, SleepInv, ReadyInv

LEMMA SleepersAreHeap ==
  ASSUME Inv
  PROVE  /\ \A due \in SUBSET sleepers : HeapOrdered(due)
         /\ \A e \in sleepers : e \in Alarms /\ e.at \in Nat /\ e.no \in Nat /\ e.at > now
<1>1. \A e \in sleepers : e.task \in Tasks /\ e = alarm[e.task] /\ e.at > now
  BY DEF Inv, SleepInv
<1>2. \A e \in sleepers : e \in Alarms /\ e.at \in Nat /\ e.no \in Nat
  <2>1. \A e \in sleepers : e \in Alarms
    BY <1>1 DEF Inv, TypeInv
  <2> QED
    BY <2>1 DEF Alarms, NoAlarm
<1>3. IsFiniteSet(sleepers)
  <2> DEFINE whose == [e \in sleepers |-> e.task]
  <2>1. \A d, e \in sleepers : d.task = e.task => d = e
    BY <1>1
  <2>2. whose \in [sleepers -> Tasks] /\ \A d, e \in sleepers : whose[d] = whose[e] => d = e
    BY <1>1, <2>1
  <2> HIDE DEF whose
  <2>3. whose \in Injection(sleepers, Tasks)
    BY <2>2 DEF Injection, IsInjective
  <2>4. IsFiniteSet(Tasks)
    BY SimulationConfig
  <2> QED
    BY <2>3, <2>4, FS_Injection
<1>4. ASSUME NEW due \in SUBSET sleepers PROVE HeapOrdered(due)
  <2>1. IsFiniteSet(due)
    BY <1>3, FS_Subset
  <2>2. \A d, e \in due : d.no = e.no => d = e
    BY DEF Inv, SleepInv
  <2> QED
    BY <1>2, <2>1, <2>2 DEF HeapOrdered
<1> QED
  BY <1>1, <1>2, <1>4

\* The clock is never before the earliest alarm.
LEMMA EarliestIsAhead ==
  ASSUME Inv, sleepers # {}
  PROVE  /\ \E e \in sleepers : e.at = Earliest
         /\ \A e \in sleepers : Earliest <= e.at
         /\ Earliest \in Nat /\ Latest(now, Earliest) = Earliest
<1>1. now \in Nat /\ \A e \in sleepers : e.at \in Nat /\ e.at > now
  BY SleepersAreHeap DEF Inv, TypeInv
<1> DEFINE Times == {e.at : e \in sleepers}
<1>2. Times \in SUBSET Nat /\ Times # {}
  BY <1>1
<1>3. \E at \in Times : \A k \in Times : at <= k
  BY <1>2, LeastNatural
<1>4. \E at \in Times : \A e \in sleepers : at <= e.at
  BY <1>3
<1>5. Earliest \in Times /\ \A e \in sleepers : Earliest <= e.at
  BY <1>4 DEF Earliest
<1>6. \E e \in sleepers : e.at = Earliest
  BY <1>5
<1> HIDE DEF Times
<1> QED
  BY <1>1, <1>5, <1>6 DEF Latest

\* Everything due is woken: it is ready, in the order of the heap, and at its time.
LEMMA FiresKeepsInv ==
  ASSUME Inv, Settled, sleepers # {}, now' = Latest(now, Earliest), Fires
  PROVE  Inv'
<1> DEFINE due == {e \in sleepers : e.at <= now'}
           order == Woken(due)
<1>1. /\ sleepers' = sleepers \ due /\ ready' = [i \in DOMAIN order |-> order[i].task]
      /\ UNCHANGED <<count, step, turn, cancelling, alarm, doomed, loaded, crashed,
                     attempts, started, test>>
  BY DEF Fires, mockVars
<1>2. /\ \A e \in sleepers : e \in Alarms /\ e.at \in Nat /\ e.no \in Nat /\ e.at > now
      /\ now' \in Nat /\ now' = Earliest
      /\ due = {e \in sleepers : e.at = now'}
  <2>1. \A e \in sleepers : Earliest <= e.at /\ e \in Alarms /\ e.at \in Nat /\ e.no \in Nat
                            /\ e.at > now
    BY EarliestIsAhead, SleepersAreHeap
  <2>2. now' = Earliest /\ now' \in Nat
    BY EarliestIsAhead
  <2> QED
    BY <2>1, <2>2
<1>3. \A e \in sleepers : e.task \in Tasks /\ e = alarm[e.task] /\ step[e.task] = "running"
                          /\ e # NoAlarm
  BY <1>2 DEF Inv, SleepInv, TypeInv, NoAlarm
<1>4. due \subseteq sleepers /\ \A e \in sleepers \ due : e.at > now'
  <2>1. \A e \in sleepers : Earliest <= e.at
    BY EarliestIsAhead
  <2> QED
    BY <1>2, <2>1
<1>5. InHeapOrder(order, due)
  <2>1. HeapOrdered(due)
    BY <1>4, SleepersAreHeap
  <2> HIDE DEF due
  <2> QED
    BY <2>1, WokenInHeapOrder
<1>6. cancelling = {}
  BY SettledFacts
<1> HIDE DEF due, order
<1> DEFINE n == Cardinality(due)
<1>7. /\ n \in Nat /\ order \in [1..n -> due] /\ DOMAIN order = 1..n
      /\ \A e \in due : \E i \in 1..n : order[i] = e
      /\ \A i, j \in 1..n : i < j => Precedes(order[i], order[j])
  BY <1>5 DEF InHeapOrder
<1> HIDE DEF n
<1>8. /\ ready' \in Seq(Tasks) /\ Len(ready') = n /\ DOMAIN ready' = 1..n
      /\ \A i \in 1..n : /\ order[i] \in due /\ ready'[i] = order[i].task
                         /\ alarm[ready'[i]] = order[i]
  <2>1. \A i \in 1..n : /\ order[i] \in due /\ order[i].task \in Tasks
                        /\ alarm[order[i].task] = order[i]
    BY <1>3, <1>4, <1>7
  <2>2. ready' = [i \in 1..n |-> order[i].task]
    BY <1>1, <1>7
  <2>3. ready' \in [1..n -> Tasks]
    BY <2>1, <2>2
  <2>4. ready' \in Seq(Tasks) /\ Len(ready') = n
    BY <1>7, <2>3
  <2> QED
    BY <2>1, <2>2, <2>4
<1>9. ToSet(ready') = {e.task : e \in due}
  <2>1. \A i \in 1..n : ready'[i] \in {e.task : e \in due}
    BY <1>8
  <2>2. ASSUME NEW e \in due PROVE \E i \in 1..n : ready'[i] = e.task
    BY <1>7, <1>8
  <2>3. ToSet(ready') = {ready'[i] : i \in 1..n}
    BY <1>8 DEF ToSet
  <2>4. ToSet(ready') \subseteq {e.task : e \in due}
    BY <2>1, <2>3
  <2>5. {e.task : e \in due} \subseteq ToSet(ready')
    BY <2>2, <2>3
  <2> QED
    BY <2>4, <2>5
<1>10. TypeInv'
  BY <1>1, <1>2, <1>8 DEF Inv, TypeInv
<1>11. SleepInv'
  <2>1. \A e \in sleepers' : /\ e.task \in Tasks /\ e = alarm'[e.task]
                             /\ e.at > now' /\ e.no < count' /\ step'[e.task] = "running"
    BY <1>1, <1>3, <1>4 DEF Inv, SleepInv
  <2>2. ASSUME NEW u \in Tasks, step'[u] = "running"
        PROVE  u \in ToSet(ready') \/ alarm'[u] \in sleepers' \/ Kind[u] = "event"
    <3>1. alarm[u] \in sleepers \/ Kind[u] = "event"
      BY <1>1, <2>2, SettledFacts
    <3>2. ASSUME alarm[u] \in due PROVE u \in ToSet(ready')
      <4>1. alarm[u].task = u
        BY <1>3, <1>4, <3>2 DEF Inv, SleepInv
      <4> QED
        BY <1>9, <3>2, <4>1
    <3> QED
      BY <1>1, <3>1, <3>2
  <2> QED
    BY <1>1, <2>1, <2>2 DEF Inv, SleepInv
<1>12. Orderly(ready', alarm', cancelling')
  <2>1. ASSUME NEW i \in 1..n, NEW j \in 1..n, i < j
        PROVE  ready'[i] # ready'[j] /\ InTurn(ready', alarm', cancelling', i, j)
    <3>1. /\ order[i] \in due /\ order[j] \in due /\ Precedes(order[i], order[j])
          /\ alarm[ready'[i]] = order[i] /\ alarm[ready'[j]] = order[j]
      BY <1>7, <1>8, <2>1
    <3>2. /\ order[i].at = now' /\ order[j].at = now' /\ now' \in Nat
          /\ order[i].no \in Nat /\ order[j].no \in Nat
          /\ order[i] # NoAlarm
      BY <1>2, <1>3, <1>4, <3>1
    <3>3. order[i].no < order[j].no
      BY <3>1, <3>2 DEF Precedes
    <3>4. order[i] # order[j]
      BY <3>2, <3>3
    <3> QED
      BY <1>1, <3>1, <3>2, <3>3, <3>4 DEF InTurn
  <2> QED
    BY <1>8, <2>1 DEF Orderly
<1>13. ReadyInv'
  <2>1. \A t \in ToSet(ready') : \E e \in due : t = e.task /\ alarm[t] = e
    BY <1>3, <1>4, <1>9
  <2>2. \A t \in ToSet(ready') : step[t] = "running" /\ alarm[t].at = now'
    BY <1>2, <1>3, <1>4, <2>1
  <2> QED
    BY <1>1, <1>6, <1>12, <2>2 DEF ReadyInv
<1>14. TestInv'
  BY <1>1, TestUndisturbed
<1> QED
  BY <1>10, <1>11, <1>13, <1>14 DEF Inv

LEMMA ArrivesKeepsInv ==
  ASSUME Inv, Arrives
  PROVE  Inv'
<1>1. /\ Settled /\ now' = Latest(now, test.until) /\ test' = Idle
      /\ \A e \in sleepers : e.at > test.until
      /\ UNCHANGED <<sleepers, count, ready, step, turn, cancelling, alarm, doomed,
                     loaded, crashed, attempts, started>>
  BY DEF Arrives, taskVars, mockVars
<1>2. test.until \in Nat /\ now \in Nat
  BY Delays DEF Inv, TestInv, TypeInv
<1>3. now' \in Nat /\ \A e \in sleepers : e.at > now'
  <2>1. \A e \in sleepers : e.at > now
    BY SleepersAreHeap
  <2> QED
    BY <1>1, <1>2, <2>1 DEF Latest
<1>4. TypeInv'
  BY <1>1, <1>3 DEF Inv, TypeInv
<1>5. SleepInv'
  BY <1>1, <1>3 DEF Inv, SleepInv
<1>6. ReadyInv'
  BY <1>1, SettledFacts DEF Inv, ReadyInv
<1>7. TestInv'
  BY <1>1, Delays DEF TestInv, Idle, NoTask
<1> QED
  BY <1>4, <1>5, <1>6, <1>7 DEF Inv

\* What the test says and asks for changes nothing else.
LEMMA TestKeepsInv ==
  ASSUME Inv, TestInv', UNCHANGED <<clockVars, taskVars, mockVars>>
  PROVE  Inv'
<1>1. UNCHANGED <<now, sleepers, count, ready, step, turn, cancelling, alarm, doomed,
                  loaded, crashed, attempts, started>>
  BY DEF clockVars, taskVars, mockVars
<1>2. TypeInv' /\ SleepInv' /\ ReadyInv'
  BY <1>1 DEF Inv, TypeInv, SleepInv, ReadyInv
<1> QED
  BY <1>2 DEF Inv

\* drive() gives up when nobody is ready and nobody sleeps: what runs then waits for
\* something other than the clock.
LEMMA TestStepKeepsInv ==
  ASSUME Inv,
         \/ \E t \in Tasks : Drive(t)
         \/ \E until \in 1..Horizon : AdvanceTo(until)
         \/ TestStep
  PROVE  Inv'
<1>1. ASSUME NEW t \in Tasks, Drive(t) PROVE Inv'
  <2>1. /\ test' = [Idle EXCEPT !.mode = "drive", !.task = t] /\ step[t] = "running"
        /\ UNCHANGED step
    BY <1>1 DEF Drive, taskVars
  <2>2. TestInv'
    <3>1. test' = [mode |-> "drive", until |-> 0, task |-> t, raised |-> NoTask]
      BY <2>1 DEF Idle
    <3>2. 0 \in 0..Horizon /\ step'[t] # "new"
      BY <2>1, Delays
    <3> QED
      BY <3>1, <3>2 DEF TestInv
  <2> QED
    BY <1>1, <2>2, TestKeepsInv DEF Drive
<1>2. ASSUME NEW until \in 1..Horizon, AdvanceTo(until) PROVE Inv'
  <2>1. test' = [mode |-> "advance", until |-> until, task |-> NoTask, raised |-> NoTask]
    BY <1>2 DEF AdvanceTo, Idle
  <2>2. TestInv'
    <3>1. until \in 0..Horizon
      BY Delays
    <3> QED
      BY <2>1, <3>1 DEF TestInv
  <2> QED
    BY <1>2, <2>2, TestKeepsInv DEF AdvanceTo
<1>3. CASE Advances \/ DrivesOn
  BY <1>3, FiresKeepsInv DEF Advances, DrivesOn
<1>4. CASE Arrives
  BY <1>4, ArrivesKeepsInv
<1>5. CASE DriveReturns
  <2>1. TestInv'
    BY <1>5, Delays DEF DriveReturns, TestInv, Idle, NoTask
  <2> QED
    BY <1>5, <2>1, TestKeepsInv DEF DriveReturns
<1>6. CASE DriveRaises
  <2>1. /\ test.mode = "drive" /\ Settled /\ ~Over(test.task) /\ sleepers = {}
        /\ test' = [Idle EXCEPT !.raised = test.task] /\ UNCHANGED step
        /\ UNCHANGED <<clockVars, taskVars, mockVars>>
    BY <1>6 DEF DriveRaises, taskVars
  <2>2. test.task \in Tasks /\ step[test.task] \in Steps /\ step[test.task] # "new"
    BY <2>1 DEF Inv, TestInv, TypeInv
  <2>3. step[test.task] = "running"
    BY <2>1, <2>2 DEF Over, Steps
  <2>4. Kind[test.task] = "event"
    BY <2>1, <2>2, <2>3, SettledFacts
  <2>5. TestInv'
    BY <2>1, <2>2, <2>4, Delays DEF TestInv, Idle, NoTask
  <2> QED
    BY <2>1, <2>5, TestKeepsInv
<1> QED
  BY <1>1, <1>2, <1>3, <1>4, <1>5, <1>6 DEF TestStep

-----------------------------------------------------------------------------
(* The theorems *)

\* The inductive invariant of the simulated world.
THEOREM InvHolds == Spec => []Inv
<1>1. Init => Inv
  BY StartsRight
<1>2. Inv /\ [Next]_vars => Inv'
  <2> SUFFICES ASSUME Inv, [Next]_vars PROVE Inv'
    OBVIOUS
  <2>1. ASSUME NEW t \in Tasks, TaskStep(t) PROVE Inv'
    BY <2>1, StopsKeepsInv, MockStepKeepsInv, WaitsKeepsInv DEF TaskStep
  <2>2. ASSUME NEW t \in Tasks, Begin(t) \/ Cancel(t) PROVE Inv'
    BY <2>2, BeginKeepsInv, CancelKeepsInv
  <2>3. CASE (\E t \in Tasks : Drive(t)) \/ (\E until \in 1..Horizon : AdvanceTo(until)) \/ TestStep
    BY <2>3, TestStepKeepsInv
  <2>4. CASE UNCHANGED vars
    <3>1. UNCHANGED <<clockVars, taskVars, mockVars>> /\ UNCHANGED test
      BY <2>4 DEF vars
    <3>2. TestInv'
      <4>1. UNCHANGED step
        BY <3>1 DEF taskVars
      <4> QED
        BY <3>1, <4>1, TestUndisturbed
    <3> QED
      BY <3>1, <3>2, TestKeepsInv
  <2> QED
    BY <2>1, <2>2, <2>3, <2>4 DEF Next, Finished
<1> QED
  BY <1>1, <1>2, PTL DEF Spec

\* The order is one of positions: two of them do not hold the same task.
LEMMA OrderedOnce ==
  ASSUME Inv
  PROVE  IsInjective(ready) /\ WokenInOrder
<1>1. ready \in Seq(Tasks) /\ DOMAIN ready = 1..Len(ready) /\ Len(ready) \in Nat
  BY DEF Inv, TypeInv
<1>2. \A i, j \in DOMAIN ready : i < j => ready[i] # ready[j] /\ InTurn(ready, alarm, cancelling, i, j)
  BY <1>1 DEF Inv, ReadyInv, Orderly
<1>3. IsInjective(ready)
  <2>1. \A i, j \in DOMAIN ready : i = j \/ i < j \/ j < i
    BY <1>1
  <2> QED
    BY <1>2, <2>1 DEF IsInjective
<1>4. WokenInOrder
  BY <1>2 DEF WokenInOrder, InTurn
<1> QED
  BY <1>3, <1>4

\* Simulated time is time, whatever the delays of the backend, the tasks, and who is
\* cancelled: a sleeper wakes at its deadline and in its turn, nobody is left behind, and
\* nobody who has left holds time back.
THEOREM SimulatedTimeIsHonest == Spec => []TimeIsHonest
<1>1. Inv => TimeIsHonest
  <2> SUFFICES ASSUME Inv PROVE TimeIsHonest
    OBVIOUS
  <2>1. TypeOK
    <3>1. \A e \in sleepers : e.task \in Tasks /\ e.no < count /\ e = alarm[e.task]
      BY DEF Inv, SleepInv
    <3>2. ToSet(ready) \subseteq {t \in Tasks : step[t] = "running"}
      BY DEF Inv, TypeInv, ReadyInv, ToSet
    <3>3. /\ test.mode \in {"idle", "advance", "drive"} /\ test.until \in 0..Horizon
          /\ {test.task, test.raised} \subseteq Tasks \cup {NoTask}
      BY DEF Inv, TestInv
    <3> QED
      BY <3>1, <3>2, <3>3, OrderedOnce DEF TypeOK, Inv, TypeInv, ReadyInv, Steps
  <2>2. WokenOnTime
    BY DEF Inv, SleepInv, ReadyInv, WokenOnTime
  <2>3. CancelledHoldsNothing
    BY DEF Inv, SleepInv, CancelledHoldsNothing
  <2> QED
    BY <2>1, <2>2, <2>3, OrderedOnce DEF TimeIsHonest
<1> QED
  BY <1>1, InvHolds, PTL

\* drive() gives up only on a task that no advance of the clock could have helped.
THEOREM RaisesWithReason == Spec => []RaisesOnlyWhenStuck
<1>1. Inv => RaisesOnlyWhenStuck
  BY DEF Inv, TestInv, RaisesOnlyWhenStuck
<1> QED
  BY <1>1, InvHolds, PTL
=============================================================================
