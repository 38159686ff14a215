---------------------------- MODULE SyncTheorems ----------------------------
(***************************************************************************)
(* Proofs that the synchronous path keeps its promises for any number of    *)
(* models, requests and chunks.                                            *)
(***************************************************************************)
EXTENDS SyncProperties, SequenceTheorems, FiniteSetTheorems, WellFoundedInduction, TLAPS

-----------------------------------------------------------------------------
(* Induction and recursion over the numbers, for sets and functions *)

\* A set of naturals that is not empty has a least element.
LEMMA LeastNatural ==
  ASSUME NEW T \in SUBSET Nat, T # {}
  PROVE  \E n \in T : \A k \in T : n <= k
<1> DEFINE R == {p \in Nat \X Nat : p[1] < p[2]}
<1>1. OpToRel(<, Nat) = R
  BY DEF OpToRel
<1>2. IsWellFoundedOn(R, Nat)
  BY <1>1, NatLessThanWellFounded, Zenon
<1> HIDE DEF R
<1>3. PICK n \in T : \A k \in T : ~ (<<k, n>> \in R)
  BY <1>2, WFMin, Zenon
<1>4. ASSUME NEW k \in T PROVE n <= k
  <2>1. <<k, n>> \notin {p \in Nat \X Nat : p[1] < p[2]}
    BY <1>3 DEF R
  <2>2. ~ (k < n)
    BY <2>1
  <2> QED
    BY <2>2
<1> QED
  BY <1>4

\* A set that holds 0, and with each number below n the next one, holds all up to n.
LEMMA UpToInduction ==
  ASSUME NEW n \in Nat, NEW T, 0 \in T, \A i \in 0..n-1 : i \in T => i + 1 \in T
  PROVE  \A i \in 0..n : i \in T
<1> DEFINE Missing == {i \in 0..n : i \notin T}
<1> SUFFICES ASSUME Missing # {}
             PROVE  FALSE
  OBVIOUS
<1>1. PICK k \in Missing : \A i \in Missing : k <= i
  <2>1. Missing \in SUBSET Nat
    OBVIOUS
  <2> QED
    BY <2>1, LeastNatural
<1>2. k - 1 \in 0..n-1 /\ k - 1 \notin Missing
  BY <1>1
<1>3. k - 1 \in T /\ (k - 1) + 1 = k
  BY <1>2
<1> QED
  BY <1>2, <1>3

LEMMA LastOrBefore ==
  ASSUME NEW n \in Nat, NEW j \in 1..n+1
  PROVE  j \in 1..n \/ j = n + 1
  OBVIOUS

\* A function defined by recursion on 0..n exists.
Iterates(f, n, S, base, step) ==
    /\ f \in [0..n -> S] /\ f[0] = base
    /\ \A i \in 1..n : f[i] = step[i][f[i - 1]]

LEMMA Iteration ==
  ASSUME NEW n \in Nat, NEW S, NEW base \in S, NEW step \in [1..n -> [S -> S]]
  PROVE  \E f : Iterates(f, n, S, base, step)
<1> DEFINE Good(k, f) ==
             f[0] = base /\ \A i \in 1..k : f[i] = step[i][f[i - 1]]
           T == {k \in 0..n : \E f \in [0..k -> S] : Good(k, f)}
<1>1. 0 \in T
  <2> DEFINE g == [i \in 0..0 |-> base]
  <2>1. g \in [0..0 -> S] /\ g[0] = base
    OBVIOUS
  <2>2. \A i \in 1..0 : g[i] = step[i][g[i - 1]]
    OBVIOUS
  <2>3. 0 \in 0..n
    OBVIOUS
  <2> HIDE DEF g
  <2> QED
    BY <2>1, <2>2, <2>3
<1>2. ASSUME NEW k \in 0..n-1, k \in T
      PROVE  k + 1 \in T
  <2>1. PICK f \in [0..k -> S] : Good(k, f)
    BY <1>2
  <2> DEFINE g == [i \in 0..k+1 |-> IF i = k + 1 THEN step[k + 1][f[k]] ELSE f[i]]
  <2>2. f[k] \in S /\ k + 1 \in 1..n
    OBVIOUS
  <2>3. step[k + 1][f[k]] \in S
    BY <2>2
  <2>4. g \in [0..k+1 -> S]
    BY <2>3
  <2>5. /\ \A i \in 0..k : g[i] = f[i]
        /\ g[k + 1] = step[k + 1][f[k]]
    OBVIOUS
  <2> HIDE DEF g
  <2>6. \A i \in 1..k+1 : g[i] = step[i][g[i - 1]]
    <3> TAKE i \in 1..k+1
    <3>1. CASE i = k + 1
      BY <3>1, <2>5
    <3>2. CASE i # k + 1
      <4>1. i \in 1..k /\ i - 1 \in 0..k /\ i \in 0..k
        BY <3>2
      <4> QED
        BY <4>1, <2>1, <2>5
    <3> QED
      BY <3>1, <3>2
  <2>7. g[0] = base
    BY <2>1, <2>5
  <2>8. \E h \in [0..k+1 -> S] : Good(k + 1, h)
    BY <2>4, <2>6, <2>7
  <2>9. k + 1 \in 0..n
    OBVIOUS
  <2> QED
    BY <2>8, <2>9
<1> HIDE DEF T
<1>3. n \in T
  <2>1. \A i \in 0..n : i \in T
    BY <1>1, <1>2, UpToInduction
  <2> QED
    BY <2>1
<1>4. PICK f \in [0..n -> S] : Good(n, f)
  BY <1>3 DEF T
<1> QED
  BY <1>4, Zenon DEF Iterates

-----------------------------------------------------------------------------
(* The deques.  S stands for the requests and `out` for the cancelled ones. *)

\* What is chosen by the recursion of LiveIn is what the recursion says.
Unfolded(live, S, q, out) ==
    /\ live \in [0..Len(q) -> Seq(S)]
    /\ live[0] = <<>>
    /\ \A i \in 1..Len(q) :
         live[i] = IF q[i] \in out THEN live[i - 1] ELSE Append(live[i - 1], q[i])
    /\ LiveIn(q, out) = live[Len(q)]

LEMMA LiveUnfolds ==
  ASSUME NEW S, NEW q \in Seq(S), NEW out
  PROVE  \E live : Unfolded(live, S, q, out)
<1> DEFINE n == Len(q)
           Fits(f) == f = [i \in 0..n |-> IF i = 0 THEN <<>>
                                          ELSE IF q[i] \in out THEN f[i - 1]
                                          ELSE Append(f[i - 1], q[i])]
           step == [i \in 1..n |-> [s \in Seq(S) |-> IF q[i] \in out THEN s
                                                    ELSE Append(s, q[i])]]
<1>1. n \in Nat /\ \A i \in 1..n : q[i] \in S
  BY LenProperties
<1>2. step \in [1..n -> [Seq(S) -> Seq(S)]]
  <2>1. \A i \in 1..n, s \in Seq(S) : (IF q[i] \in out THEN s ELSE Append(s, q[i])) \in Seq(S)
    BY <1>1, AppendProperties
  <2> QED
    BY <2>1
<1>3. \A i \in 1..n, s \in Seq(S) :
        step[i][s] = IF q[i] \in out THEN s ELSE Append(s, q[i])
  OBVIOUS
<1> HIDE DEF step
<1>4. PICK f : Iterates(f, n, Seq(S), <<>>, step)
  <2>1. <<>> \in Seq(S)
    BY EmptySeq
  <2> QED
    BY <1>1, <1>2, <2>1, Iteration
<1>5. Fits(f)
  <2>1. f \in [0..n -> Seq(S)] /\ f[0] = <<>>
    BY <1>4 DEF Iterates
  <2>2. \A i \in 0..n : f[i] = IF i = 0 THEN <<>>
                                ELSE IF q[i] \in out THEN f[i - 1]
                                ELSE Append(f[i - 1], q[i])
    <3> TAKE i \in 0..n
    <3>1. CASE i = 0
      BY <3>1, <2>1
    <3>2. CASE i # 0
      <4>1. i \in 1..n /\ i - 1 \in 0..n
        BY <3>2, <1>1
      <4>2. f[i] = step[i][f[i - 1]]
        BY <4>1, <1>4 DEF Iterates
      <4>3. f[i - 1] \in Seq(S)
        BY <4>1, <2>1
      <4> QED
        BY <3>2, <4>1, <4>2, <4>3, <1>3
    <3> QED
      BY <3>1, <3>2
  <2> QED
    BY <2>1, <2>2
<1>6. PICK live : Fits(live) /\ LiveIn(q, out) = live[n]
  <2>1. Fits(CHOOSE g : Fits(g))
    BY <1>5, Zenon
  <2>2. LiveIn(q, out) = (CHOOSE g : Fits(g))[n]
    BY Zenon DEF LiveIn
  <2> QED
    BY <2>1, <2>2, Zenon
<1>7. DOMAIN live = 0..n /\ 0 \in 0..n
  BY <1>1, <1>6
<1>8. /\ live[0] = <<>>
      /\ \A i \in 1..n :
            live[i] = IF q[i] \in out THEN live[i - 1] ELSE Append(live[i - 1], q[i])
  <2>1. \A i \in 0..n : live[i] = IF i = 0 THEN <<>>
                                   ELSE IF q[i] \in out THEN live[i - 1]
                                   ELSE Append(live[i - 1], q[i])
    BY <1>6, Zenon
  <2>2. \A i \in 1..n : i \in 0..n /\ i # 0
    BY <1>1
  <2> HIDE DEF Fits
  <2> QED
    BY <1>7, <2>1, <2>2
<1>9. \A i \in 0..n : live[i] \in Seq(S)
  <2> DEFINE T == {i \in 0..n : live[i] \in Seq(S)}
  <2>1. 0 \in T
    <3>1. <<>> \in Seq(S)
      BY EmptySeq
    <3> QED
      BY <1>7, <1>8, <3>1
  <2>2. ASSUME NEW i \in 0..n-1, i \in T
        PROVE  i + 1 \in T
    <3>1. i + 1 \in 1..n /\ i + 1 \in 0..n /\ (i + 1) - 1 = i
      BY <1>1
    <3>2. live[i + 1] = IF q[i + 1] \in out THEN live[i] ELSE Append(live[i], q[i + 1])
      BY <1>8, <3>1
    <3>3. live[i] \in Seq(S) /\ q[i + 1] \in S
      BY <1>1, <2>2, <3>1
    <3>4. Append(live[i], q[i + 1]) \in Seq(S)
      BY <3>3, AppendProperties
    <3> QED
      BY <3>1, <3>2, <3>3, <3>4
  <2> HIDE DEF T
  <2>3. \A i \in 0..n : i \in T
    BY <1>1, <2>1, <2>2, UpToInduction
  <2> QED
    BY <2>3 DEF T
<1>10. live \in [0..n -> Seq(S)]
  <2>1. live = [i \in 0..n |-> live[i]]
    <3>1. live = [i \in 0..n |-> IF i = 0 THEN <<>>
                                 ELSE IF q[i] \in out THEN live[i - 1]
                                 ELSE Append(live[i - 1], q[i])]
      BY <1>6
    <3> QED
      BY <3>1, Zenon
  <2> QED
    BY <1>9, <2>1
<1> QED
  BY <1>6, <1>8, <1>10, Zenon DEF Unfolded

\* A read keeps the live entries, nothing else, and their order.
Ordered(s, key) == \A i, j \in 1..Len(s) : i < j => key[s[i]] < key[s[j]]
LiveAt(q, out, k) == {i \in 1..k : q[i] \notin out}

LEMMA LiveFacts ==
  ASSUME NEW S, NEW q \in Seq(S), NEW out
  PROVE  /\ LiveIn(q, out) \in Seq(S)
         /\ ToSet(LiveIn(q, out)) = ToSet(q) \ out
         /\ Len(LiveIn(q, out)) = Cardinality(LiveAt(q, out, Len(q)))
         /\ \A key \in [S -> Int] : Ordered(q, key) => Ordered(LiveIn(q, out), key)
<1> DEFINE n == Len(q)
           Kept(s, k) == {s[j] : j \in 1..Len(s)} = {q[i] : i \in LiveAt(q, out, k)}
           Counted(s, k) == Len(s) = Cardinality(LiveAt(q, out, k))
           InOrder(s) == \A key \in [S -> Int] : Ordered(q, key) => Ordered(s, key)
<1>1. n \in Nat /\ DOMAIN q = 1..n /\ \A i \in 1..n : q[i] \in S
  BY LenProperties
<1>2. PICK live : Unfolded(live, S, q, out)
  BY LiveUnfolds
<1>3. /\ live \in [0..n -> Seq(S)] /\ live[0] = <<>> /\ LiveIn(q, out) = live[n]
      /\ \A i \in 1..n :
           live[i] = IF q[i] \in out THEN live[i - 1] ELSE Append(live[i - 1], q[i])
  BY <1>2 DEF Unfolded
<1> DEFINE T == {k \in 0..n : /\ Kept(live[k], k) /\ Counted(live[k], k)
                              /\ InOrder(live[k])}
<1>4. 0 \in T
  <2>1. LiveAt(q, out, 0) = {}
    BY DEF LiveAt
  <2>2. Kept(<<>>, 0)
    BY <2>1
  <2>3. Counted(<<>>, 0)
    BY <2>1, FS_EmptySet
  <2>4. InOrder(<<>>)
    BY DEF Ordered
  <2>5. 0 \in 0..n /\ live[0] = <<>>
    BY <1>1, <1>3
  <2> HIDE DEF Kept, Counted, InOrder
  <2> QED
    BY <2>2, <2>3, <2>4, <2>5
<1>5. ASSUME NEW k \in 0..n-1, k \in T
      PROVE  k + 1 \in T
  <2> DEFINE s == live[k]
             t == live[k + 1]
             x == q[k + 1]
  <2>1. k \in Nat /\ k + 1 \in 1..n /\ k + 1 \in 0..n /\ (k + 1) - 1 = k
    BY <1>1
  <2>2. s \in Seq(S) /\ t \in Seq(S) /\ x \in S /\ Len(s) \in Nat
    <3>1. k \in 0..n
      BY <1>1
    <3>2. s \in Seq(S) /\ t \in Seq(S) /\ x \in S
      BY <1>1, <1>3, <2>1, <3>1
    <3> QED
      BY <3>2, LenProperties
  <2>3. t = IF x \in out THEN s ELSE Append(s, x)
    BY <1>3, <2>1
  <2>4. Kept(s, k) /\ Counted(s, k) /\ InOrder(s)
    BY <1>5
  <2>5. LiveAt(q, out, k + 1) = IF x \in out THEN LiveAt(q, out, k)
                                ELSE LiveAt(q, out, k) \cup {k + 1}
    BY <2>1 DEF LiveAt
  <2> HIDE DEF s, t, x
  <2>6. CASE x \in out
    BY <2>1, <2>3, <2>4, <2>5, <2>6 DEF s, t
  <2>7. CASE x \notin out
    <3>1. /\ t = Append(s, x) /\ Len(t) = Len(s) + 1
          /\ \A j \in 1..Len(s) : t[j] = s[j]
          /\ t[Len(s) + 1] = x
      BY <2>2, <2>3, <2>7, AppendProperties
    <3>2. Kept(t, k + 1)
      <4>1. {t[j] : j \in 1..Len(t)} = {s[j] : j \in 1..Len(s)} \cup {x}
        <5>1. \A j \in 1..Len(t) : j \in 1..Len(s) \/ j = Len(s) + 1
          BY <2>2, <3>1
        <5>2. 1..Len(s) \subseteq 1..Len(t) /\ Len(s) + 1 \in 1..Len(t)
          BY <2>2, <3>1
        <5> QED
          BY <3>1, <5>1, <5>2
      <4>2. {q[i] : i \in LiveAt(q, out, k + 1)} = {q[i] : i \in LiveAt(q, out, k)} \cup {x}
        BY <2>5, <2>7 DEF x
      <4> QED
        BY <2>4, <4>1, <4>2
    <3>3. Counted(t, k + 1)
      <4>1. IsFiniteSet(1..k) /\ LiveAt(q, out, k) \in SUBSET (1..k)
        <5>1. 1 \in Int /\ k \in Int
          BY <2>1
        <5>2. IsFiniteSet(1..k)
          BY <5>1, FS_Interval, Zenon
        <5> QED
          BY <5>2 DEF LiveAt
      <4>2. IsFiniteSet(LiveAt(q, out, k)) /\ k + 1 \notin LiveAt(q, out, k)
        BY <2>1, <4>1, FS_Subset
      <4>3. Cardinality(LiveAt(q, out, k + 1)) = Cardinality(LiveAt(q, out, k)) + 1
        BY <2>5, <2>7, <4>2, FS_AddElement
      <4> QED
        BY <2>4, <3>1, <4>3
    <3>4. InOrder(t)
      <4> SUFFICES ASSUME NEW key \in [S -> Int], Ordered(q, key),
                          NEW i \in 1..Len(t), NEW j \in 1..Len(t), i < j
                   PROVE  key[t[i]] < key[t[j]]
        BY DEF Ordered
      <4>1. Ordered(s, key)
        BY <2>4
      <4>2. CASE j \in 1..Len(s)
        <5>1. i \in 1..Len(s)
          BY <2>2, <4>2
        <5> QED
          BY <3>1, <4>1, <4>2, <5>1 DEF Ordered
      <4>3. CASE j = Len(s) + 1
        <5>1. i \in 1..Len(s)
          BY <2>2, <4>3, <3>1
        <5>2. s[i] \in {q[l] : l \in LiveAt(q, out, k)}
          BY <2>4, <5>1
        <5>3. PICK l \in LiveAt(q, out, k) : s[i] = q[l]
          BY <5>2
        <5>4. l \in 1..n /\ l < k + 1
          BY <1>1, <2>1 DEF LiveAt
        <5>5. key[q[l]] < key[q[k + 1]]
          BY <2>1, <5>4 DEF Ordered
        <5> QED
          BY <3>1, <4>3, <5>1, <5>3, <5>5 DEF x
      <4>4. j \in 1..Len(s) \/ j = Len(s) + 1
        <5>1. j \in 1..Len(s) + 1
          BY <3>1
        <5>2. Len(s) \in Nat
          BY <2>2
        <5> QED
          BY <5>1, <5>2, LastOrBefore, Zenon
      <4> QED
        BY <4>2, <4>3, <4>4
    <3> QED
      BY <2>1, <3>2, <3>3, <3>4 DEF t
  <2> QED
    BY <2>6, <2>7
<1> HIDE DEF T
<1>6. n \in T
  <2>1. \A k \in 0..n : k \in T
    BY <1>1, <1>4, <1>5, UpToInduction
  <2> QED
    BY <1>1, <2>1
<1>7. live[n] \in Seq(S) /\ Kept(live[n], n) /\ Counted(live[n], n) /\ InOrder(live[n])
  BY <1>1, <1>3, <1>6 DEF T
<1>8. ToSet(live[n]) = ToSet(q) \ out
  <2>1. DOMAIN live[n] = 1..Len(live[n])
    BY <1>7, LenProperties
  <2>2. {q[i] : i \in LiveAt(q, out, n)} = {q[i] : i \in 1..n} \ out
    BY DEF LiveAt
  <2> QED
    BY <1>1, <1>7, <2>1, <2>2 DEF ToSet
<1> QED
  BY <1>3, <1>7, <1>8

\* next_for stops at the first live entry, or at the end.
StopsAt(q, out, f) ==
    /\ f \in 1..Len(q) /\ q[f] \notin out /\ \A i \in 1..f-1 : q[i] \in out
    /\ NextFor(q, out) = [request |-> q[f], rest |-> SubSeq(q, f + 1, Len(q)),
                          dropped |-> ToSet(SubSeq(q, 1, f - 1))]
RunsDry(q, out) ==
    /\ \A i \in 1..Len(q) : q[i] \in out
    /\ NextFor(q, out) = [request |-> Nothing, rest |-> <<>>, dropped |-> ToSet(q)]

LEMMA NextForStops ==
  ASSUME NEW S, NEW q \in Seq(S), NEW out
  PROVE  RunsDry(q, out) \/ \E f : StopsAt(q, out, f)
<1> DEFINE I == {i \in 1..Len(q) : q[i] \notin out}
           first == SelectInSeq(q, LAMBDA r : r \notin out)
<1>1. Len(q) \in Nat
  BY LenProperties
<1>2. first = IF I # {} THEN Min(I) ELSE 0
  BY Zenon DEF SelectInSeq
<1>3. NextFor(q, out) =
        IF first = 0 THEN [request |-> Nothing, rest |-> <<>>, dropped |-> ToSet(q)]
        ELSE [request |-> q[first], rest |-> SubSeq(q, first + 1, Len(q)),
              dropped |-> ToSet(SubSeq(q, 1, first - 1))]
  BY Zenon DEF NextFor
<1> HIDE DEF first
<1>4. CASE I = {}
  <2>1. first = 0
    BY <1>2, <1>4
  <2>2. \A i \in 1..Len(q) : q[i] \in out
    BY <1>4
  <2> QED
    BY <1>3, <2>1, <2>2 DEF RunsDry
<1>5. CASE I # {}
  <2>1. I \in SUBSET Nat
    BY <1>1
  <2>2. \E f \in I : \A j \in I : f <= j
    BY <1>5, <2>1, LeastNatural
  <2>3. first \in I /\ \A j \in I : first <= j
    BY <1>2, <1>5, <2>2 DEF Min
  <2>4. first \in 1..Len(q) /\ q[first] \notin out /\ first # 0
    BY <1>1, <2>3
  <2>5. \A i \in 1..first-1 : q[i] \in out
    <3> TAKE i \in 1..first-1
    <3>1. i \in 1..Len(q) /\ ~(first <= i)
      BY <1>1, <2>4
    <3> QED
      BY <2>3, <3>1
  <2> QED
    BY <1>3, <2>4, <2>5 DEF StopsAt
<1> QED
  BY <1>4, <1>5

\* What is between two places of a deque.
IsSlice(s, q, S, a, b) ==
    /\ s \in Seq(S) /\ ToSet(s) = {q[i] : i \in a..b}
    /\ Len(s) = IF a <= b THEN b - a + 1 ELSE 0
    /\ \A i \in 1..b-a+1 : s[i] = q[a + i - 1]

LEMMA SubSeqIsSlice ==
  ASSUME NEW S, NEW q \in Seq(S), NEW a \in 1..Len(q)+1, NEW b \in 0..Len(q)
  PROVE  IsSlice(SubSeq(q, a, b), q, S, a, b)
<1> DEFINE s == SubSeq(q, a, b)
<1>1. Len(q) \in Nat /\ a \in Int /\ b \in Int /\ a \in Nat /\ b \in Nat
  BY LenProperties
<1>2. \A i \in a..b : q[i] \in S
  <2>1. \A i \in a..b : i \in 1..Len(q)
    BY <1>1
  <2> QED
    BY <2>1, ElementOfSeq
<1>3. /\ s \in Seq(S)
      /\ Len(s) = IF a <= b THEN b - a + 1 ELSE 0
      /\ \A i \in 1..b-a+1 : s[i] = q[a + i - 1]
  BY <1>1, <1>2, SubSeqProperties
<1> HIDE DEF s
<1>4. DOMAIN s = 1..b-a+1
  <2>1. DOMAIN s = 1..Len(s)
    BY <1>3, LenProperties
  <2> QED
    BY <1>1, <1>3, <2>1
<1>5. ToSet(s) = {q[i] : i \in a..b}
  <2>1. ASSUME NEW i \in 1..b-a+1
        PROVE  s[i] \in {q[j] : j \in a..b}
    <3>1. a + i - 1 \in a..b
      BY <1>1
    <3> QED
      BY <1>3, <3>1
  <2>2. ASSUME NEW j \in a..b
        PROVE  \E i \in 1..b-a+1 : s[i] = q[j]
    <3>1. j - a + 1 \in 1..b-a+1 /\ a + (j - a + 1) - 1 = j
      BY <1>1
    <3> QED
      BY <1>3, <3>1
  <2> QED
    BY <1>4, <2>1, <2>2 DEF ToSet
<1> QED
  BY <1>3, <1>5 DEF s, IsSlice

\* One next_for on what is left of a deque after its first k entries have gone.
DeadAt(q, out, k) == {i \in 1..k : q[i] \in out}

Advances(q, out, k, l, next) ==
    /\ l \in k..Len(q)
    /\ next.rest = SubSeq(q, l + 1, Len(q))
    /\ {next.request} \ {Nothing} = {q[i] : i \in LiveAt(q, out, l) \ LiveAt(q, out, k)}
    /\ next.dropped = {q[i] : i \in DeadAt(q, out, l) \ DeadAt(q, out, k)}
    /\ \/ l = Len(q) /\ LiveAt(q, out, l) = LiveAt(q, out, k)
       \/ l > k /\ LiveAt(q, out, l) = LiveAt(q, out, k) \cup {l}

LEMMA NextForAdvances ==
  ASSUME NEW S, Nothing \notin S, NEW q \in Seq(S), NEW out, NEW k \in 0..Len(q)
  PROVE  \E l : Advances(q, out, k, l, NextFor(SubSeq(q, k + 1, Len(q)), out))
<1> DEFINE n == Len(q)
           s == SubSeq(q, k + 1, n)
           next == NextFor(s, out)
<1>1. n \in Nat /\ k \in Nat /\ k <= n /\ k + 1 \in 1..n+1 /\ n \in 0..n
      /\ \A i \in 1..n : q[i] \in S
  BY LenProperties
<1>2. /\ s \in Seq(S) /\ Len(s) = n - k
      /\ ToSet(s) = {q[i] : i \in k+1..n}
      /\ \A i \in 1..n-k : s[i] = q[k + i]
  <2>1. /\ s \in Seq(S) /\ ToSet(s) = {q[i] : i \in k+1..n}
        /\ Len(s) = IF k + 1 <= n THEN n - (k + 1) + 1 ELSE 0
        /\ \A i \in 1..n-(k+1)+1 : s[i] = q[k + 1 + i - 1]
    <3>1. IsSlice(s, q, S, k + 1, n)
      BY <1>1, SubSeqIsSlice
    <3> QED
      BY <3>1 DEF IsSlice
  <2>2. Len(s) = n - k
    BY <1>1, <2>1
  <2>3. \A i \in 1..n-k : s[i] = q[k + i]
    <3> TAKE i \in 1..n-k
    <3>1. i \in 1..n-(k+1)+1 /\ k + 1 + i - 1 = k + i
      BY <1>1
    <3> QED
      BY <2>1, <3>1
  <2> QED
    BY <2>1, <2>2, <2>3
<1> HIDE DEF s
<1>3. CASE RunsDry(s, out)
  <2>1. next.request = Nothing /\ next.rest = <<>> /\ next.dropped = ToSet(s)
    BY <1>3 DEF RunsDry
  <2>2. \A i \in k+1..n : q[i] \in out
    <3> TAKE i \in k+1..n
    <3>1. i - k \in 1..n-k /\ k + (i - k) = i
      BY <1>1
    <3> QED
      BY <1>2, <1>3, <3>1 DEF RunsDry
  <2>3. LiveAt(q, out, n) = LiveAt(q, out, k)
    BY <1>1, <2>2 DEF LiveAt
  <2>4. DeadAt(q, out, n) \ DeadAt(q, out, k) = k+1..n
    BY <1>1, <2>2 DEF DeadAt
  <2>5. SubSeq(q, n + 1, n) = <<>>
    <3>1. n \in Int /\ n + 1 \in Int /\ n < n + 1
      BY <1>1
    <3> QED
      BY <3>1, SubSeqEmpty
  <2>6. n \in k..Len(q)
    BY <1>1
  <2> HIDE DEF next
  <2>7. Advances(q, out, k, n, next)
    BY <1>2, <2>1, <2>3, <2>4, <2>5, <2>6 DEF Advances
  <2> QED
    BY <2>7 DEF next, s
<1>4. CASE \E f : StopsAt(s, out, f)
  <2>1. PICK f : StopsAt(s, out, f)
    BY <1>4
  <2> DEFINE l == k + f
  <2>2. /\ f \in 1..n-k /\ s[f] \notin out /\ \A i \in 1..f-1 : s[i] \in out
        /\ next.request = s[f] /\ next.rest = SubSeq(s, f + 1, n - k)
        /\ next.dropped = ToSet(SubSeq(s, 1, f - 1))
    BY <1>2, <2>1 DEF StopsAt
  <2>3. l \in k..n /\ l > k /\ l \in 1..n /\ l \in Nat
    BY <1>1, <2>2
  <2>4. s[f] = q[l] /\ q[l] \in S /\ q[l] \notin out
    BY <1>1, <1>2, <2>2, <2>3
  <2>5. \A i \in k+1..l-1 : q[i] \in out
    <3> TAKE i \in k+1..l-1
    <3>1. i - k \in 1..n-k /\ i - k \in 1..f-1 /\ k + (i - k) = i
      BY <1>1, <2>2
    <3> QED
      BY <1>2, <2>2, <3>1
  <2>6. LiveAt(q, out, l) = LiveAt(q, out, k) \cup {l} /\ l \notin LiveAt(q, out, k)
    BY <1>1, <2>3, <2>4, <2>5 DEF LiveAt
  <2>7. DeadAt(q, out, l) \ DeadAt(q, out, k) = k+1..l-1
    BY <1>1, <2>3, <2>4, <2>5 DEF DeadAt
  <2>8. next.rest = SubSeq(q, l + 1, n)
    <3>1. CASE f = n - k
      <4>1. l = n /\ n - k < f + 1 /\ n < n + 1 /\ f + 1 \in Int /\ n - k \in Int
            /\ n \in Int /\ n + 1 \in Int
        BY <1>1, <2>2, <3>1
      <4>2. SubSeq(s, f + 1, n - k) = <<>> /\ SubSeq(q, n + 1, n) = <<>>
        BY <4>1, SubSeqEmpty
      <4> QED
        BY <2>2, <4>1, <4>2
    <3>2. CASE f # n - k
      <4> DEFINE u == SubSeq(s, f + 1, n - k)
                 v == SubSeq(q, l + 1, n)
      <4>1. /\ f + 1 \in 1..Len(s)+1 /\ n - k \in 0..Len(s) /\ f + 1 <= n - k
            /\ l + 1 \in 1..n+1 /\ n \in 0..n /\ l + 1 <= n
        <5>1. f \in Nat /\ 1 <= f /\ f <= n - k /\ f # n - k /\ Len(s) = n - k
          BY <1>1, <1>2, <2>2, <3>2
        <5> QED
          BY <1>1, <5>1
      <4>2. /\ u \in Seq(S) /\ Len(u) = n - k - (f + 1) + 1
            /\ \A i \in 1..n-k-(f+1)+1 : u[i] = s[f + 1 + i - 1]
        <5>1. IsSlice(u, s, S, f + 1, n - k)
          BY <1>2, <4>1, SubSeqIsSlice
        <5> QED
          BY <4>1, <5>1 DEF IsSlice
      <4>3. /\ v \in Seq(S) /\ Len(v) = n - (l + 1) + 1
            /\ \A i \in 1..n-(l+1)+1 : v[i] = q[l + 1 + i - 1]
        <5>1. IsSlice(v, q, S, l + 1, n)
          BY <4>1, SubSeqIsSlice
        <5> QED
          BY <4>1, <5>1 DEF IsSlice
      <4> HIDE DEF u, v
      <4>4. Len(u) = n - l /\ Len(v) = n - l
        <5>1. n - k - (f + 1) + 1 = n - l /\ n - (l + 1) + 1 = n - l
          BY <1>1, <2>2
        <5> QED
          BY <4>2, <4>3, <5>1
      <4>5. \A i \in 1..n-l : u[i] = v[i]
        <5> TAKE i \in 1..n-l
        <5>1. /\ i \in 1..n-k-(f+1)+1 /\ i \in 1..n-(l+1)+1 /\ f + i \in 1..n-k
              /\ f + 1 + i - 1 = f + i /\ l + 1 + i - 1 = k + (f + i)
          <6>1. f \in Nat /\ 1 <= f /\ f <= n - k /\ i \in Nat /\ 1 <= i /\ i <= n - (k + f)
            BY <1>1, <2>2
          <6> QED
            BY <1>1, <6>1
        <5>2. u[i] = s[f + i] /\ v[i] = q[k + (f + i)]
          BY <4>2, <4>3, <5>1
        <5> QED
          BY <1>2, <5>1, <5>2
      <4>6. u = v
        BY <4>2, <4>3, <4>4, <4>5, SeqEqual
      <4> QED
        BY <2>2, <4>6 DEF u, v
    <3> QED
      BY <3>1, <3>2
  <2>9. next.dropped = {q[i] : i \in k+1..l-1}
    <3>1. 1 \in 1..Len(s)+1 /\ f - 1 \in 0..Len(s)
      BY <1>1, <1>2, <2>2
    <3>2. ToSet(SubSeq(s, 1, f - 1)) = {s[i] : i \in 1..f-1}
      <4>1. IsSlice(SubSeq(s, 1, f - 1), s, S, 1, f - 1)
        BY <1>2, <3>1, SubSeqIsSlice
      <4> QED
        BY <4>1 DEF IsSlice
    <3>3. ASSUME NEW i \in 1..f-1
          PROVE  s[i] \in {q[j] : j \in k+1..l-1}
      <4>1. i \in 1..n-k /\ k + i \in k+1..l-1
        BY <1>1, <2>2
      <4> QED
        BY <1>2, <4>1
    <3>4. ASSUME NEW j \in k+1..l-1
          PROVE  \E i \in 1..f-1 : s[i] = q[j]
      <4>1. j - k \in 1..f-1 /\ j - k \in 1..n-k /\ k + (j - k) = j
        BY <1>1, <2>2
      <4> QED
        BY <1>2, <4>1
    <3>5. {s[i] : i \in 1..f-1} = {q[j] : j \in k+1..l-1}
      BY <3>3, <3>4
    <3> QED
      BY <2>2, <3>2, <3>5
  <2> HIDE DEF next, l
  <2>10. LiveAt(q, out, l) \ LiveAt(q, out, k) = {l}
    BY <2>6
  <2>11. {next.request} \ {Nothing} = {q[l]}
    BY <2>2, <2>4
  <2>12. Advances(q, out, k, l, next)
    <3>1. {next.request} \ {Nothing} = {q[i] : i \in LiveAt(q, out, l) \ LiveAt(q, out, k)}
      BY <2>10, <2>11
    <3>2. next.dropped = {q[i] : i \in DeadAt(q, out, l) \ DeadAt(q, out, k)}
      BY <2>7, <2>9
    <3>3. l > k /\ LiveAt(q, out, l) = LiveAt(q, out, k) \cup {l}
      BY <2>3, <2>6
    <3> QED
      BY <2>3, <2>8, <3>1, <3>2, <3>3 DEF Advances
  <2> QED
    BY <2>12 DEF next, s
<1> QED
  BY <1>2, <1>3, <1>4, NextForStops

\* The whole of a deque is a slice of it.
LEMMA SubSeqWhole ==
  ASSUME NEW S, NEW q \in Seq(S)
  PROVE  SubSeq(q, 0 + 1, Len(q)) = q
<1> DEFINE s == SubSeq(q, 1, Len(q))
<1>1. Len(q) \in Nat /\ 1 \in 1..Len(q)+1 /\ Len(q) \in 0..Len(q)
  BY LenProperties
<1>2. IsSlice(s, q, S, 1, Len(q))
  BY <1>1, SubSeqIsSlice
<1>3. s \in Seq(S) /\ Len(s) = Len(q) /\ \A i \in 1..Len(q) : s[i] = q[i]
  <2>1. /\ s \in Seq(S)
        /\ Len(s) = IF 1 <= Len(q) THEN Len(q) - 1 + 1 ELSE 0
        /\ \A i \in 1..Len(q)-1+1 : s[i] = q[1 + i - 1]
    BY <1>2 DEF IsSlice
  <2>2. \A i \in 1..Len(q) : i \in 1..Len(q)-1+1 /\ 1 + i - 1 = i
    BY <1>1
  <2> HIDE DEF s
  <2> QED
    BY <1>1, <2>1, <2>2
<1> HIDE DEF s
<1>4. s = q
  BY <1>3, SeqEqual
<1> QED
  BY <1>4 DEF s

\* next_for on any deque of S leaves a deque of S, and sets of S.
NextInto(next, S) ==
    /\ next.rest \in Seq(S) /\ next.dropped \subseteq S
    /\ {next.request} \ {Nothing} \subseteq S

LEMMA NextForIsTyped ==
  ASSUME NEW S, Nothing \notin S, NEW q \in Seq(S), NEW out
  PROVE  NextInto(NextFor(q, out), S)
<1> DEFINE next == NextFor(q, out)
<1>1. Len(q) \in Nat /\ 0 \in 0..Len(q) /\ \A i \in 1..Len(q) : q[i] \in S
  BY LenProperties
<1>2. PICK l : Advances(q, out, 0, l, next)
  <2>1. \E l : Advances(q, out, 0, l, NextFor(SubSeq(q, 0 + 1, Len(q)), out))
    BY <1>1, NextForAdvances
  <2>2. SubSeq(q, 0 + 1, Len(q)) = q
    BY SubSeqWhole
  <2> QED
    BY <2>1, <2>2
<1> HIDE DEF next
<1>3. /\ l \in 0..Len(q) /\ next.rest = SubSeq(q, l + 1, Len(q))
      /\ {next.request} \ {Nothing} = {q[i] : i \in LiveAt(q, out, l) \ LiveAt(q, out, 0)}
      /\ next.dropped = {q[i] : i \in DeadAt(q, out, l) \ DeadAt(q, out, 0)}
  BY <1>2 DEF Advances
<1>4. next.rest \in Seq(S)
  <2>1. l + 1 \in 1..Len(q)+1 /\ Len(q) \in 0..Len(q)
    BY <1>1, <1>3
  <2>2. IsSlice(SubSeq(q, l + 1, Len(q)), q, S, l + 1, Len(q))
    BY <2>1, SubSeqIsSlice
  <2> QED
    BY <1>3, <2>2 DEF IsSlice
<1>5. \A i \in LiveAt(q, out, l) \cup DeadAt(q, out, l) : q[i] \in S
  BY <1>1, <1>3 DEF LiveAt, DeadAt
<1>6. next.dropped \subseteq S /\ {next.request} \ {Nothing} \subseteq S
  BY <1>3, <1>5
<1> QED
  BY <1>4, <1>6 DEF next, NextInto

\* What is chosen by the recursion of TakeWhile is what the recursion says.
TakeStep(p, out) ==
    [taken   |-> p.taken \cup ({NextFor(p.rest, out).request} \ {Nothing}),
     rest    |-> NextFor(p.rest, out).rest,
     dropped |-> p.dropped \cup NextFor(p.rest, out).dropped]

Taking(take, q, out, limit) ==
    /\ take[0] = [taken |-> {}, rest |-> q, dropped |-> {}]
    /\ \A n \in 1..limit : take[n] = TakeStep(take[n - 1], out)
    /\ TakeWhile(q, out, limit) = take[limit]

LEMMA TakeWhileUnfolds ==
  ASSUME NEW S, Nothing \notin S, NEW q \in Seq(S), NEW out, NEW limit \in Nat
  PROVE  \E take : Taking(take, q, out, limit)
<1> DEFINE R == [taken : SUBSET S, rest : Seq(S), dropped : SUBSET S]
           base == [taken |-> {}, rest |-> q, dropped |-> {}]
           Fits(f) == f = [n \in 0..limit |-> IF n = 0 THEN base
                                              ELSE TakeStep(f[n - 1], out)]
           step == [n \in 1..limit |-> [p \in R |-> TakeStep(p, out)]]
<1>1. base \in R
  OBVIOUS
<1>2. step \in [1..limit -> [R -> R]]
  <2>1. ASSUME NEW p \in R
        PROVE  TakeStep(p, out) \in R
    <3>1. p.rest \in Seq(S) /\ p.taken \subseteq S /\ p.dropped \subseteq S
      OBVIOUS
    <3>2. NextInto(NextFor(p.rest, out), S)
      BY <3>1, NextForIsTyped
    <3> QED
      BY <3>1, <3>2 DEF NextInto, TakeStep
  <2> HIDE DEF R
  <2> QED
    BY <2>1
<1>3. \A n \in 1..limit, p \in R : step[n][p] = TakeStep(p, out)
  OBVIOUS
<1> HIDE DEF step, R, base
<1>4. PICK f : Iterates(f, limit, R, base, step)
  BY <1>1, <1>2, Iteration
<1>5. Fits(f)
  <2>1. f \in [0..limit -> R] /\ f[0] = base
    BY <1>4 DEF Iterates
  <2>2. \A n \in 0..limit : f[n] = IF n = 0 THEN base ELSE TakeStep(f[n - 1], out)
    <3> TAKE n \in 0..limit
    <3>1. CASE n = 0
      BY <3>1, <2>1
    <3>2. CASE n # 0
      <4>1. n \in 1..limit /\ n - 1 \in 0..limit
        BY <3>2
      <4>2. f[n] = step[n][f[n - 1]] /\ f[n - 1] \in R
        BY <2>1, <4>1, <1>4 DEF Iterates
      <4> QED
        BY <3>2, <4>1, <4>2, <1>3
    <3> QED
      BY <3>1, <3>2
  <2> QED
    BY <2>1, <2>2
<1>6. PICK take : Fits(take) /\ TakeWhile(q, out, limit) = take[limit]
  <2>1. Fits(CHOOSE g : Fits(g))
    BY <1>5, Zenon
  <2>2. TakeWhile(q, out, limit) = (CHOOSE g : Fits(g))[limit]
    BY Zenon DEF TakeWhile, TakeStep, base
  <2> QED
    BY <2>1, <2>2, Zenon
<1>7. \A n \in 0..limit : take[n] = IF n = 0 THEN base ELSE TakeStep(take[n - 1], out)
  BY <1>6, Zenon
<1>8. 0 \in 0..limit /\ \A n \in 1..limit : n \in 0..limit /\ n # 0
  OBVIOUS
<1> HIDE DEF Fits
<1>9. take[0] = base /\ \A n \in 1..limit : take[n] = TakeStep(take[n - 1], out)
  BY <1>7, <1>8
<1> QED
  BY <1>6, <1>9, Zenon DEF Taking, base

\* take_while takes the live entries among the first k, for some k that is the whole
\* deque unless the limit was reached, and drops the others among them.
TakesTo(q, out, limit, k, pop) ==
    /\ k \in 0..Len(q) /\ pop.rest = SubSeq(q, k + 1, Len(q))
    /\ pop.taken = {q[i] : i \in LiveAt(q, out, k)}
    /\ pop.dropped = {q[i] : i \in DeadAt(q, out, k)}
    /\ \/ Cardinality(LiveAt(q, out, k)) = limit
       \/ Cardinality(LiveAt(q, out, k)) < limit /\ k = Len(q)

LEMMA TakeWhileTakes ==
  ASSUME NEW S, Nothing \notin S, NEW q \in Seq(S), NEW out, NEW limit \in Nat
  PROVE  \E k : TakesTo(q, out, limit, k, TakeWhile(q, out, limit))
<1>1. PICK take : Taking(take, q, out, limit)
  BY TakeWhileUnfolds
<1> DEFINE T == {n \in 0..limit : \E k : TakesTo(q, out, n, k, take[n])}
<1>2. Len(q) \in Nat
  BY LenProperties
<1>3. 0 \in T
  <2>1. take[0].rest = q /\ take[0].taken = {} /\ take[0].dropped = {}
    BY <1>1 DEF Taking
  <2>2. LiveAt(q, out, 0) = {} /\ DeadAt(q, out, 0) = {}
    BY DEF LiveAt, DeadAt
  <2>3. Cardinality(LiveAt(q, out, 0)) = 0
    BY <2>2, FS_EmptySet
  <2>4. SubSeq(q, 0 + 1, Len(q)) = q /\ 0 \in 0..Len(q)
    BY <1>2, SubSeqWhole
  <2>5. TakesTo(q, out, 0, 0, take[0])
    BY <2>1, <2>2, <2>3, <2>4 DEF TakesTo
  <2> QED
    BY <2>5
<1>4. ASSUME NEW n \in 0..limit-1, n \in T
      PROVE  n + 1 \in T
  <2>1. PICK k : TakesTo(q, out, n, k, take[n])
    BY <1>4
  <2> DEFINE p == take[n]
             next == NextFor(p.rest, out)
  <2>2. n + 1 \in 1..limit /\ (n + 1) - 1 = n
    OBVIOUS
  <2>3. take[n + 1] = TakeStep(p, out)
    BY <1>1, <2>2 DEF Taking
  <2>4. /\ take[n + 1].taken = p.taken \cup ({next.request} \ {Nothing})
        /\ take[n + 1].rest = next.rest
        /\ take[n + 1].dropped = p.dropped \cup next.dropped
    BY <2>3 DEF TakeStep
  <2>5. /\ k \in 0..Len(q) /\ p.rest = SubSeq(q, k + 1, Len(q))
        /\ p.taken = {q[i] : i \in LiveAt(q, out, k)}
        /\ p.dropped = {q[i] : i \in DeadAt(q, out, k)}
        /\ \/ Cardinality(LiveAt(q, out, k)) = n
           \/ Cardinality(LiveAt(q, out, k)) < n /\ k = Len(q)
    BY <2>1 DEF TakesTo
  <2>6. PICK l : Advances(q, out, k, l, next)
    <3>1. \E l : Advances(q, out, k, l, NextFor(SubSeq(q, k + 1, Len(q)), out))
      BY <2>5, NextForAdvances
    <3> QED
      BY <2>5, <3>1
  <2> HIDE DEF next, p
  <2>7. /\ l \in k..Len(q) /\ next.rest = SubSeq(q, l + 1, Len(q))
        /\ {next.request} \ {Nothing} = {q[i] : i \in LiveAt(q, out, l) \ LiveAt(q, out, k)}
        /\ next.dropped = {q[i] : i \in DeadAt(q, out, l) \ DeadAt(q, out, k)}
        /\ \/ l = Len(q) /\ LiveAt(q, out, l) = LiveAt(q, out, k)
           \/ l > k /\ LiveAt(q, out, l) = LiveAt(q, out, k) \cup {l}
    BY <2>6 DEF Advances
  <2>8. /\ LiveAt(q, out, k) \subseteq LiveAt(q, out, l)
        /\ DeadAt(q, out, k) \subseteq DeadAt(q, out, l)
    BY <1>2, <2>5, <2>7 DEF LiveAt, DeadAt
  <2>9. /\ take[n + 1].taken = {q[i] : i \in LiveAt(q, out, l)}
        /\ take[n + 1].dropped = {q[i] : i \in DeadAt(q, out, l)}
    <3>1. /\ take[n + 1].taken = {q[i] : i \in LiveAt(q, out, k)}
                \cup {q[i] : i \in LiveAt(q, out, l) \ LiveAt(q, out, k)}
          /\ take[n + 1].dropped = {q[i] : i \in DeadAt(q, out, k)}
                \cup {q[i] : i \in DeadAt(q, out, l) \ DeadAt(q, out, k)}
      <4>1. take[n + 1].taken = {q[i] : i \in LiveAt(q, out, k)}
                \cup {q[i] : i \in LiveAt(q, out, l) \ LiveAt(q, out, k)}
        BY <2>4, <2>5, <2>7, Zenon
      <4>2. take[n + 1].dropped = {q[i] : i \in DeadAt(q, out, k)}
                \cup {q[i] : i \in DeadAt(q, out, l) \ DeadAt(q, out, k)}
        BY <2>4, <2>5, <2>7, Zenon
      <4> QED
        BY <4>1, <4>2
    <3>2. \A A, B : A \subseteq B =>
            {q[i] : i \in B} = {q[i] : i \in A} \cup {q[i] : i \in B \ A}
      OBVIOUS
    <3> QED
      BY <2>8, <3>1, <3>2, Zenon
  <2>10. \/ Cardinality(LiveAt(q, out, l)) = n + 1
         \/ Cardinality(LiveAt(q, out, l)) < n + 1 /\ l = Len(q)
    <3>1. IsFiniteSet(LiveAt(q, out, k)) /\ Cardinality(LiveAt(q, out, k)) \in Nat
      <4>1. 1 \in Int /\ k \in Int
        BY <2>5
      <4>2. IsFiniteSet(1..k)
        BY <4>1, FS_Interval, Zenon
      <4>3. LiveAt(q, out, k) \subseteq 1..k
        BY DEF LiveAt
      <4>4. IsFiniteSet(LiveAt(q, out, k))
        BY <4>2, <4>3, FS_Subset
      <4> QED
        BY <4>4, FS_CardinalityType
    <3>2. CASE l = Len(q) /\ LiveAt(q, out, l) = LiveAt(q, out, k)
      BY <2>5, <3>1, <3>2
    <3>3. CASE l > k /\ LiveAt(q, out, l) = LiveAt(q, out, k) \cup {l}
      <4>1. k # Len(q) /\ l \notin LiveAt(q, out, k)
        BY <1>2, <2>5, <2>7, <3>3 DEF LiveAt
      <4>2. Cardinality(LiveAt(q, out, l)) = Cardinality(LiveAt(q, out, k)) + 1
        BY <3>1, <3>3, <4>1, FS_AddElement
      <4> QED
        BY <2>5, <4>1, <4>2
    <3> QED
      BY <2>7, <3>2, <3>3
  <2>11. l \in 0..Len(q)
    BY <1>2, <2>5, <2>7
  <2>12. TakesTo(q, out, n + 1, l, take[n + 1])
    BY <2>4, <2>7, <2>9, <2>10, <2>11 DEF TakesTo
  <2> QED
    BY <2>2, <2>12
<1> HIDE DEF T
<1>5. limit \in T
  <2>1. \A n \in 0..limit : n \in T
    BY <1>3, <1>4, UpToInduction
  <2> QED
    BY <2>1
<1>6. PICK k : TakesTo(q, out, limit, k, take[limit])
  BY <1>5 DEF T
<1> QED
  BY <1>1, <1>6 DEF Taking

\* The place of r among the live entries is the number of those before it.
LEMMA PositionCounts ==
  ASSUME NEW S, NEW q \in Seq(S), NEW out, NEW i \in 1..Len(q),
         \A j \in 1..Len(q) : q[j] = q[i] => j = i
  PROVE  PositionOf(q, out, q[i]) = Cardinality(LiveAt(q, out, i - 1))
<1> DEFINE r == q[i]
           at == SelectInSeq(q, LAMBDA x : x = r)
           s == SubSeq(q, 1, i - 1)
<1>1. Len(q) \in Nat
  BY LenProperties
<1>2. at = i
  <2> DEFINE I == {j \in 1..Len(q) : q[j] = r}
  <2>1. at = IF I # {} THEN Min(I) ELSE 0
    BY Zenon DEF SelectInSeq
  <2>2. I = {i}
    OBVIOUS
  <2> HIDE DEF at, I
  <2>3. at = Min({i})
    BY <2>1, <2>2
  <2>4. Min({i}) = CHOOSE x \in {i} : \A y \in {i} : x <= y
    BY Zenon DEF Min
  <2>5. i <= i
    OBVIOUS
  <2> QED
    BY <2>3, <2>4, <2>5
<1>3. PositionOf(q, out, r) = Len(LiveIn(s, out))
  <2>1. PositionOf(q, out, r) = Len(LiveIn(SubSeq(q, 1, at - 1), out))
    BY Zenon DEF PositionOf, Depth
  <2> HIDE DEF at
  <2> QED
    BY <1>2, <2>1
<1>4. IsSlice(s, q, S, 1, i - 1)
  <2>1. 1 \in 1..Len(q)+1 /\ i - 1 \in 0..Len(q)
    BY <1>1
  <2> QED
    BY <2>1, SubSeqIsSlice
<1>5. s \in Seq(S) /\ Len(s) = i - 1 /\ \A j \in 1..i-1 : s[j] = q[j]
  <2>1. /\ s \in Seq(S)
        /\ Len(s) = IF 1 <= i - 1 THEN i - 1 - 1 + 1 ELSE 0
        /\ \A j \in 1..i-1-1+1 : s[j] = q[1 + j - 1]
    BY <1>4 DEF IsSlice
  <2>2. \A j \in 1..i-1 : j \in 1..i-1-1+1 /\ 1 + j - 1 = j
    BY <1>1
  <2> HIDE DEF s
  <2> QED
    BY <1>1, <2>1, <2>2
<1> HIDE DEF s
<1>6. LiveAt(s, out, i - 1) = LiveAt(q, out, i - 1)
  BY <1>5 DEF LiveAt
<1>7. Len(LiveIn(s, out)) = Cardinality(LiveAt(s, out, Len(s)))
  BY <1>5, LiveFacts
<1> QED
  BY <1>3, <1>5, <1>6, <1>7 DEF r

-----------------------------------------------------------------------------
(* The inductive invariant *)

States == {"new", "queued", "running", "done", "failed", "cancelled"}
Terminators == {"none", "end", "error"}

\* Every variable is what it is meant to be; `noticed` and `cancelled` have their causes.
TypeInv ==
    /\ deque \in [Models -> Seq(Requests)] /\ arrival \in [Requests -> Nat]
    /\ state \in [Requests -> States] /\ terminator \in [Requests -> Terminators]
    /\ cancelled \subseteq Requests /\ ended \subseteq Requests
    /\ sent \in [Requests -> 0..MaxChunks] /\ events \in [Requests -> Seq(Events)]
    /\ place \in [Requests -> Places]
    /\ inHand \in [Requests -> Events \cup {Nothing}]
    /\ parts \in [Requests -> 0..MaxChunks]
    /\ answer \in [Requests -> {"none", "complete", "error", "closed"}]
    /\ gone \subseteq Requests /\ noticed \subseteq gone /\ shutdown \in BOOLEAN

\* A deque holds the queued requests of its model in the order they came in.
DequeInv ==
    /\ \A m \in Models : /\ ToSet(deque[m]) = {r \in Queued : ModelOf[r] = m}
                         /\ Ordered(deque[m], arrival)
    /\ \A r \in Requests :
         /\ arrival[r] = 0 <=> state[r] = "new"
         /\ arrival[r] <= Cardinality({q \in Requests : arrival[q] > 0})

\* The life of a request, as far as its handler can tell by the terminator.
LifeInv(r) ==
    /\ state[r] \in {"new", "queued", "running"} => terminator[r] = "none"
    /\ terminator[r] = "end" => state[r] = "done"
    /\ terminator[r] = "error" => state[r] \in {"failed", "cancelled"}
    /\ terminator[r] # "none" => r \in ended \/ shutdown
    /\ place[r] = "none" <=> state[r] = "new"
    /\ state[r] = "new" => /\ sent[r] = 0 /\ parts[r] = 0
                           /\ events[r] = <<>> /\ inHand[r] = Nothing

\* The chunks that the handler has neither collected nor sent on are on the queue, but
\* for one that may be in its hand; the terminator comes behind them.
Held(r) == IF place[r] = "waiting" /\ inHand[r] = "chunk" THEN 1 ELSE 0
Chunks(s, n) == \A i \in 1..n : s[i] = "chunk"

Reads(r) ==
    /\ place[r] \in {"waiting", "sending"} /\ inHand[r] \in {Nothing, "chunk"}
    /\ \/ /\ terminator[r] = "none" /\ Chunks(events[r], Len(events[r]))
          /\ sent[r] = parts[r] + Held(r) + Len(events[r])
       \/ /\ terminator[r] # "none" /\ Len(events[r]) > 0
          /\ Chunks(events[r], Len(events[r]) - 1)
          /\ events[r][Len(events[r])] = terminator[r]
          /\ sent[r] = parts[r] + Held(r) + Len(events[r]) - 1
HasRead(r) ==
    /\ place[r] \in {"waiting", "closing"} /\ terminator[r] # "none"
    /\ inHand[r] = terminator[r] /\ events[r] = <<>> /\ sent[r] = parts[r]

ReadInv(r) == Active(r) => Reads(r) \/ HasRead(r)

AnswerInv(r) ==
    /\ answer[r] # "none" => place[r] = "over"
    /\ answer[r] = "complete" => state[r] = "done" /\ parts[r] = sent[r]
    /\ answer[r] = "error" => state[r] \in {"failed", "cancelled"}

Inv ==
    /\ TypeInv /\ DequeInv /\ OnlyTheDepartedAreCancelled
    /\ \A r \in Requests : LifeInv(r) /\ ReadInv(r) /\ AnswerInv(r)

ReqInv(r) == LifeInv(r) /\ ReadInv(r) /\ AnswerInv(r)

\* What a step that is none of r's business leaves of it.
LeavesAlone(r) ==
    /\ state'[r] = state[r] /\ terminator'[r] = terminator[r]
    /\ sent'[r] = sent[r] /\ events'[r] = events[r]
    /\ place'[r] = place[r] /\ inHand'[r] = inHand[r]
    /\ parts'[r] = parts[r] /\ answer'[r] = answer[r]
    /\ (r \in ended => r \in ended') /\ (shutdown => shutdown')

LEMMA LeftAlone ==
  ASSUME NEW r \in Requests, ReqInv(r), LeavesAlone(r)
  PROVE  ReqInv(r)'
<1>1. LifeInv(r)'
  BY DEF ReqInv, LeavesAlone, LifeInv
<1>2. ReadInv(r)'
  <2>1. Held(r)' = Held(r)
    BY DEF LeavesAlone, Held
  <2> QED
    BY <2>1 DEF ReqInv, LeavesAlone, ReadInv, Reads, HasRead, Active, Chunks
<1>3. AnswerInv(r)'
  BY DEF ReqInv, LeavesAlone, AnswerInv
<1> QED
  BY <1>1, <1>2, <1>3 DEF ReqInv

\* An event taken from the queue, when there is one.
LEMMA EventTaken ==
  ASSUME NEW s \in Seq(Events), s # <<>>
  PROVE  /\ Len(s) \in Nat /\ Len(s) > 0 /\ Head(s) = s[1] /\ s[1] \in Events
         /\ Tail(s) \in Seq(Events) /\ Len(Tail(s)) = Len(s) - 1
         /\ \A i \in 1..Len(s)-1 : Tail(s)[i] = s[i + 1]
  BY HeadTailProperties, LenProperties, EmptySeq

\* What Ask makes of a handler that has nothing in hand.
LEMMA AskReads ==
  ASSUME TypeInv, NEW r \in Requests, Ask(r), place'[r] = "waiting",
         sent' = sent, terminator' = terminator,
         \/ /\ terminator[r] = "none" /\ Chunks(events[r], Len(events[r]))
            /\ sent[r] = parts'[r] + Len(events[r])
         \/ /\ terminator[r] # "none" /\ Len(events[r]) > 0
            /\ Chunks(events[r], Len(events[r]) - 1)
            /\ events[r][Len(events[r])] = terminator[r]
            /\ sent[r] = parts'[r] + Len(events[r]) - 1,
         parts'[r] \in 0..MaxChunks
  PROVE  Reads(r)' \/ HasRead(r)'
<1> DEFINE s == events[r]
<1>1. /\ s \in Seq(Events) /\ Len(s) \in Nat /\ terminator[r] \in Terminators
      /\ inHand'[r] = (IF s = <<>> THEN Nothing ELSE Head(s))
      /\ events'[r] = (IF s = <<>> THEN s ELSE Tail(s))
  <2>1. s \in Seq(Events)
    BY DEF TypeInv
  <2>2. Len(s) \in Nat
    BY <2>1, LenProperties
  <2> QED
    BY <2>1, <2>2 DEF TypeInv, Ask
<1>2. CASE s = <<>>
  <2>1. Len(s) = 0
    BY <1>2, EmptySeq
  <2>2. terminator[r] = "none" /\ sent[r] = parts'[r] + Len(s)
    BY <2>1
  <2>3. Held(r)' = 0
    BY <1>1, <1>2 DEF Held, Nothing
  <2> QED
    BY <1>1, <1>2, <2>1, <2>2, <2>3 DEF Reads, Chunks
<1>3. CASE s # <<>>
  <2> DEFINE t == Tail(s)
  <2>1. /\ Len(s) > 0 /\ inHand'[r] = s[1] /\ s[1] \in Events /\ events'[r] = t
        /\ Len(t) = Len(s) - 1 /\ Len(t) \in Nat /\ t \in Seq(Events)
        /\ \A i \in 1..Len(s)-1 : t[i] = s[i + 1]
    BY <1>1, <1>3, EventTaken
  <2> HIDE DEF s, t
  <2>2. CASE terminator[r] = "none"
    <3>1. Chunks(s, Len(s)) /\ sent[r] = parts'[r] + Len(s)
      BY <2>2 DEF s
    <3>2. inHand'[r] = "chunk"
      BY <1>1, <2>1, <3>1 DEF Chunks
    <3>3. Chunks(t, Len(t))
      <4> SUFFICES ASSUME NEW i \in 1..Len(t)
                   PROVE  t[i] = "chunk"
        BY DEF Chunks
      <4>1. i \in 1..Len(s)-1 /\ i + 1 \in 1..Len(s)
        BY <1>1, <2>1
      <4> QED
        BY <2>1, <3>1, <4>1 DEF Chunks
    <3>4. Held(r)' = 1
      BY <3>2 DEF Held
    <3>5. sent'[r] = parts'[r] + Held(r)' + Len(t)
      BY <1>1, <2>1, <3>1, <3>4
    <3> QED
      BY <2>1, <2>2, <3>2, <3>3, <3>5 DEF Reads
  <2>3. CASE terminator[r] # "none"
    <3>1. /\ Chunks(s, Len(s) - 1) /\ s[Len(s)] = terminator[r]
          /\ sent[r] = parts'[r] + Len(s) - 1
      BY <2>3 DEF s
    <3>2. CASE Len(s) = 1
      <4>1. inHand'[r] = terminator[r] /\ Len(t) = 0
        BY <2>1, <3>1, <3>2
      <4>2. t = <<>>
        BY <2>1, <4>1, EmptySeq
      <4>3. sent'[r] = parts'[r]
        BY <3>1, <3>2 DEF TypeInv
      <4> QED
        BY <2>1, <2>3, <4>1, <4>2, <4>3 DEF HasRead
    <3>3. CASE Len(s) # 1
      <4>1. Len(t) > 0 /\ 1 \in 1..Len(s)-1
        BY <1>1, <2>1, <3>3
      <4>2. inHand'[r] = "chunk"
        BY <2>1, <3>1, <4>1 DEF Chunks
      <4>3. Chunks(t, Len(t) - 1)
        <5> SUFFICES ASSUME NEW i \in 1..Len(t)-1
                     PROVE  t[i] = "chunk"
          BY DEF Chunks
        <5>1. i \in 1..Len(s)-1 /\ i + 1 \in 1..Len(s)-1
          BY <1>1, <2>1
        <5> QED
          BY <2>1, <3>1, <5>1 DEF Chunks
      <4>4. t[Len(t)] = terminator[r]
        <5>1. Len(t) \in 1..Len(s)-1 /\ Len(t) + 1 = Len(s)
          BY <1>1, <2>1, <4>1
        <5> QED
          BY <2>1, <3>1, <5>1
      <4>5. Held(r)' = 1
        BY <4>2 DEF Held
      <4>6. sent'[r] = parts'[r] + Held(r)' + Len(t) - 1
        <5>1. parts'[r] \in Int /\ Len(s) \in Int /\ sent'[r] = parts'[r] + Len(s) - 1
          BY <1>1, <3>1
        <5>2. Held(r)' = 1 /\ Len(t) = Len(s) - 1
          BY <2>1, <4>5
        <5> QED
          BY <5>1, <5>2
      <4> QED
        BY <2>1, <2>3, <4>1, <4>2, <4>3, <4>4, <4>6 DEF Reads
    <3> QED
      BY <3>2, <3>3
  <2> QED
    BY <2>2, <2>3
<1> QED
  BY <1>2, <1>3

\* Two places of an ordered deque hold two requests.
LEMMA OrderedIsInjective ==
  ASSUME NEW S, NEW q \in Seq(S), NEW key \in [S -> Nat], Ordered(q, key)
  PROVE  \A i, j \in 1..Len(q) : q[i] = q[j] => i = j
<1> SUFFICES ASSUME NEW i \in 1..Len(q), NEW j \in 1..Len(q), q[i] = q[j], i < j
             PROVE  FALSE
  <2>1. Len(q) \in Nat
    BY LenProperties
  <2> QED
    BY <2>1
<1>1. key[q[i]] < key[q[j]] /\ q[i] \in S
  BY ElementOfSeq DEF Ordered
<1> QED
  BY <1>1

\* What a dispatch takes, drops and leaves of a deque.
Pops(m, pop) ==
    /\ pop.rest \in Seq(Requests) /\ Ordered(pop.rest, arrival)
    /\ ToSet(pop.rest) = ToSet(deque[m]) \ (pop.taken \cup pop.dropped)
    /\ pop.taken \subseteq ToSet(deque[m]) \ cancelled
    /\ pop.dropped \subseteq ToSet(deque[m]) \cap cancelled

LEMMA DispatchPops ==
  ASSUME TypeInv, DequeInv, NEW m \in Models, NEW limit \in Nat
  PROVE  Pops(m, TakeWhile(deque[m], cancelled, limit))
<1> DEFINE q == deque[m]
           n == Len(q)
           pop == TakeWhile(q, cancelled, limit)
<1>1. /\ q \in Seq(Requests) /\ n \in Nat /\ Ordered(q, arrival)
      /\ arrival \in [Requests -> Nat] /\ \A i \in 1..n : q[i] \in Requests
      /\ ToSet(q) = {q[i] : i \in 1..n}
  <2>1. q \in Seq(Requests)
    BY DEF TypeInv
  <2>2. n \in Nat /\ DOMAIN q = 1..n /\ \A i \in 1..n : q[i] \in Requests
    BY <2>1, LenProperties, ElementOfSeq
  <2> QED
    BY <2>1, <2>2 DEF TypeInv, DequeInv, ToSet
<1>2. \A i, j \in 1..n : q[i] = q[j] => i = j
  BY <1>1, OrderedIsInjective
<1>3. PICK k : TakesTo(q, cancelled, limit, k, pop)
  BY <1>1, TakeWhileTakes, SyncConfig
<1>4. /\ k \in 0..n /\ pop.rest = SubSeq(q, k + 1, n)
      /\ pop.taken = {q[i] : i \in LiveAt(q, cancelled, k)}
      /\ pop.dropped = {q[i] : i \in DeadAt(q, cancelled, k)}
  BY <1>3 DEF TakesTo
<1> HIDE DEF pop
<1>5. IsSlice(pop.rest, q, Requests, k + 1, n)
  <2>1. k + 1 \in 1..n+1 /\ n \in 0..n
    BY <1>1, <1>4
  <2>2. IsSlice(SubSeq(q, k + 1, n), q, Requests, k + 1, n)
    BY <1>1, <2>1, SubSeqIsSlice
  <2> QED
    BY <1>4, <2>2
<1>6. /\ pop.rest \in Seq(Requests) /\ ToSet(pop.rest) = {q[i] : i \in k+1..n}
      /\ Len(pop.rest) = n - k /\ \A i \in 1..n-k : pop.rest[i] = q[k + i]
  <2>1. /\ pop.rest \in Seq(Requests) /\ ToSet(pop.rest) = {q[i] : i \in k+1..n}
        /\ Len(pop.rest) = IF k + 1 <= n THEN n - (k + 1) + 1 ELSE 0
        /\ \A i \in 1..n-(k+1)+1 : pop.rest[i] = q[k + 1 + i - 1]
    BY <1>5 DEF IsSlice
  <2>2. \A i \in 1..n-k : i \in 1..n-(k+1)+1 /\ k + 1 + i - 1 = k + i
    BY <1>1, <1>4
  <2> QED
    BY <1>1, <1>4, <2>1, <2>2
<1>7. Ordered(pop.rest, arrival)
  <2> SUFFICES ASSUME NEW i \in 1..n-k, NEW j \in 1..n-k, i < j
               PROVE  arrival[pop.rest[i]] < arrival[pop.rest[j]]
    BY <1>6 DEF Ordered
  <2>1. k + i \in 1..n /\ k + j \in 1..n /\ k + i < k + j
    BY <1>1, <1>4
  <2> QED
    BY <1>1, <1>6, <2>1 DEF Ordered
<1>8. LiveAt(q, cancelled, k) \cup DeadAt(q, cancelled, k) = 1..k
  BY DEF LiveAt, DeadAt
<1>9. pop.taken \cup pop.dropped = {q[i] : i \in 1..k}
  BY <1>4, <1>8
<1>10. \A i \in 1..n : i \in 1..k \/ i \in k+1..n
  BY <1>1, <1>4
<1>11. 1..k \subseteq 1..n /\ k+1..n \subseteq 1..n /\ (1..k) \cap (k+1..n) = {}
  BY <1>1, <1>4
<1>12. {q[i] : i \in k+1..n} = {q[i] : i \in 1..n} \ {q[i] : i \in 1..k}
  BY <1>2, <1>10, <1>11
<1>13. pop.taken \subseteq ToSet(q) \ cancelled
  BY <1>1, <1>4, <1>11 DEF LiveAt
<1>14. pop.dropped \subseteq ToSet(q) \cap cancelled
  BY <1>1, <1>4, <1>11 DEF DeadAt
<1> QED
  BY <1>1, <1>6, <1>7, <1>9, <1>12, <1>13, <1>14 DEF Pops, pop

\* A step of one request is none of another's business.
LEMMA OthersLeftAlone ==
  ASSUME TypeInv, NEW q \in Requests, NEW r \in Requests, r # q,
         \/ Submit(r) \/ Leave(r) \/ WatcherNotices(r) \/ GetterTakes(r)
         \/ HandlerStep(r) \/ Killed(r) \/ ServeStep(r)
  PROVE  LeavesAlone(q)
<1> USE DEF TypeInv, LeavesAlone, vars, queueVars, lifeVars, eventVars, handlerVars, socketVars
<1>1. CASE Submit(r)
  BY <1>1 DEF Submit
<1>2. CASE Leave(r) \/ WatcherNotices(r)
  BY <1>2 DEF Leave, WatcherNotices
<1>3. CASE GetterTakes(r)
  BY <1>3 DEF GetterTakes, Ask
<1>4. CASE CollectChunk(r)
  BY <1>4 DEF CollectChunk, Ask
<1>5. CASE CollectEnd(r)
  BY <1>5 DEF CollectEnd, Close
<1>6. CASE Vanished(r)
  BY <1>6 DEF Vanished, Close
<1>7. CASE StreamOn(r)
  BY <1>7 DEF StreamOn
<1>8. CASE Sent(r)
  BY <1>8 DEF Sent, Ask
<1>9. CASE StreamEnds(r)
  BY <1>9 DEF StreamEnds, Close
<1>10. CASE Killed(r)
  BY <1>10 DEF Killed, Close
<1>11. CASE Emit(r)
  BY <1>11 DEF Emit, Put
<1>12. ASSUME NEW outcome, NEW last, EndServe(r, outcome, last)
       PROVE  LeavesAlone(q)
  BY <1>12 DEF EndServe, Put
<1>13. CASE Completes(r) \/ Fails(r) \/ CutShort(r)
  BY <1>12, <1>13 DEF Completes, Fails, CutShort
<1> QED
  BY <1>1, <1>2, <1>3, <1>4, <1>5, <1>6, <1>7, <1>8, <1>9, <1>10, <1>11, <1>13
     DEF HandlerStep, ServeStep

\* An event put on a queue comes behind what is on it.
LEMMA EventPut ==
  ASSUME NEW s \in Seq(Events), NEW e \in Events
  PROVE  /\ Append(s, e) \in Seq(Events) /\ Len(s) \in Nat
         /\ Len(Append(s, e)) = Len(s) + 1
         /\ Append(s, e)[Len(s) + 1] = e
         /\ \A i \in 1..Len(s) : Append(s, e)[i] = s[i]
  BY AppendProperties, LenProperties

\* The end of a request, seen by its handler: with the terminator put, it reads on.
LEMMA TerminatorPut ==
  ASSUME TypeInv, NEW r \in Requests, ReadInv(r), terminator[r] = "none",
         NEW e \in {"end", "error"},
         events'[r] = Append(events[r], e), terminator'[r] = e,
         sent'[r] = sent[r], place'[r] = place[r], inHand'[r] = inHand[r],
         parts'[r] = parts[r]
  PROVE  ReadInv(r)'
<1> SUFFICES ASSUME Active(r)
             PROVE  Reads(r)'
  BY DEF ReadInv, Active
<1>1. Reads(r)
  BY DEF ReadInv, HasRead
<1> DEFINE s == events[r]
           t == Append(s, e)
<1>2. /\ s \in Seq(Events) /\ Len(s) \in Nat /\ Len(t) = Len(s) + 1 /\ t[Len(s) + 1] = e
      /\ \A i \in 1..Len(s) : t[i] = s[i]
  <2>1. s \in Seq(Events) /\ e \in Events
    BY DEF TypeInv, Events
  <2> QED
    BY <2>1, EventPut
<1>3. Chunks(s, Len(s)) /\ sent[r] = parts[r] + Held(r) + Len(s)
  BY <1>1 DEF Reads
<1>4. events'[r] = t
  OBVIOUS
<1>5. place[r] \in {"waiting", "sending"} /\ inHand[r] \in {Nothing, "chunk"}
  BY <1>1 DEF Reads
<1> HIDE DEF t, s
<1>6. Chunks(t, Len(t) - 1) /\ t[Len(t)] = e /\ Len(t) > 0
  BY <1>2, <1>3 DEF Chunks
<1>7. Held(r)' = Held(r) /\ Held(r) \in Nat
  BY DEF Held
<1>8. sent'[r] = parts'[r] + Held(r)' + Len(t) - 1
  <2>1. parts[r] \in Int
    BY DEF TypeInv
  <2> QED
    BY <1>2, <1>3, <1>7, <2>1
<1> QED
  BY <1>4, <1>5, <1>6, <1>8 DEF Reads

LEMMA ChunkPut ==
  ASSUME TypeInv, NEW r \in Requests, ReadInv(r), terminator[r] = "none", Emit(r)
  PROVE  ReadInv(r)'
<1> SUFFICES ASSUME Active(r)
             PROVE  Reads(r)'
  BY DEF ReadInv, Active, Emit, handlerVars
<1>1. Reads(r)
  BY DEF ReadInv, HasRead
<1> DEFINE s == events[r]
           t == Append(s, "chunk")
<1>2. /\ s \in Seq(Events) /\ Len(s) \in Nat /\ Len(t) = Len(s) + 1
      /\ t[Len(s) + 1] = "chunk" /\ \A i \in 1..Len(s) : t[i] = s[i]
  <2>1. s \in Seq(Events) /\ "chunk" \in Events
    BY DEF TypeInv, Events
  <2> QED
    BY <2>1, EventPut
<1>3. Chunks(s, Len(s)) /\ sent[r] = parts[r] + Held(r) + Len(s)
  BY <1>1 DEF Reads
<1>4. /\ events'[r] = t /\ sent'[r] = sent[r] + 1 /\ place' = place /\ inHand' = inHand
      /\ parts' = parts /\ terminator' = terminator
  BY DEF Emit, Put, TypeInv, handlerVars, lifeVars
<1>5. place[r] \in {"waiting", "sending"} /\ inHand[r] \in {Nothing, "chunk"}
  BY <1>1 DEF Reads
<1> HIDE DEF t, s
<1>6. Chunks(t, Len(t))
  <2> SUFFICES ASSUME NEW i \in 1..Len(s)+1
               PROVE  t[i] = "chunk"
    BY <1>2 DEF Chunks
  <2>1. CASE i \in 1..Len(s)
    BY <1>2, <1>3, <2>1 DEF Chunks
  <2>2. CASE i = Len(s) + 1
    BY <1>2, <2>2
  <2> QED
    BY <1>2, <2>1, <2>2, LastOrBefore, Zenon
<1>7. Held(r)' = Held(r) /\ Held(r) \in Nat
  BY <1>4 DEF Held
<1>8. sent'[r] = parts'[r] + Held(r)' + Len(t)
  <2>1. parts[r] \in Int
    BY DEF TypeInv
  <2> QED
    <3>1. /\ parts'[r] = parts[r] /\ Len(s) \in Int
          /\ sent'[r] = parts[r] + Held(r) + Len(s) + 1
      BY <1>2, <1>3, <1>4
    <3> QED
      BY <1>2, <1>7, <2>1, <3>1
<1> QED
  BY <1>4, <1>5, <1>6, <1>8 DEF Reads

\* What a step of its own makes of a request.
LEMMA OwnStep ==
  ASSUME TypeInv, OnlyTheDepartedAreCancelled, NEW r \in Requests, ReqInv(r),
         \/ Submit(r) \/ Leave(r) \/ WatcherNotices(r) \/ GetterTakes(r)
         \/ HandlerStep(r) \/ Killed(r) \/ ServeStep(r)
  PROVE  ReqInv(r)'
<1> USE DEF queueVars, lifeVars, eventVars, handlerVars, socketVars
<1>1. LifeInv(r) /\ ReadInv(r) /\ AnswerInv(r)
  BY DEF ReqInv
<1>2. CASE Submit(r)
  <2>1. /\ state[r] = "new" /\ state'[r] = "queued" /\ terminator' = terminator
        /\ sent' = sent /\ events' = events /\ inHand' = inHand /\ parts' = parts
        /\ answer' = answer /\ ended' = ended
        /\ place'[r] \in {"waiting", "sending"}
    BY <1>2 DEF Submit, TypeInv
  <2>2. /\ terminator[r] = "none" /\ sent[r] = 0 /\ parts[r] = 0 /\ events[r] = <<>>
        /\ inHand[r] = Nothing /\ place[r] = "none"
    BY <1>1, <2>1 DEF LifeInv
  <2>3. Len(events[r]) = 0 /\ Held(r)' = 0 /\ answer[r] = "none"
    BY <1>1, <2>1, <2>2, EmptySeq DEF Held, Nothing, AnswerInv, TypeInv
  <2>4. Reads(r)'
    BY <2>1, <2>2, <2>3 DEF Reads, Chunks
  <2> QED
    BY <2>1, <2>2, <2>3, <2>4 DEF ReqInv, LifeInv, ReadInv, AnswerInv
<1>3. CASE Leave(r) \/ WatcherNotices(r)
  <2>1. LeavesAlone(r)
    BY <1>3 DEF Leave, WatcherNotices, LeavesAlone
  <2> QED
    BY <2>1, LeftAlone
<1>4. CASE GetterTakes(r)
  <2>1. /\ place' = place /\ parts' = parts /\ sent' = sent /\ terminator' = terminator
        /\ state' = state /\ answer' = answer /\ ended' = ended /\ shutdown' = shutdown
        /\ place[r] = "waiting" /\ inHand[r] = Nothing /\ Ask(r)
    BY <1>4 DEF GetterTakes
  <2>2. Reads(r) /\ Held(r) = 0
    <3>1. Reads(r) \/ HasRead(r)
      BY <1>1, <2>1 DEF ReadInv, Active
    <3>2. terminator[r] # "none" => terminator[r] # Nothing
      BY DEF TypeInv, Terminators, Nothing
    <3> QED
      BY <2>1, <3>1, <3>2 DEF HasRead, Held, Nothing
  <2>3. parts[r] + Held(r) = parts[r] /\ parts[r] \in 0..MaxChunks
    BY <2>2 DEF TypeInv
  <2>4. Reads(r)' \/ HasRead(r)'
    BY <2>1, <2>2, <2>3, AskReads DEF Reads
  <2>5. LifeInv(r)' /\ AnswerInv(r)'
    BY <1>1, <2>1 DEF LifeInv, AnswerInv
  <2> QED
    BY <2>4, <2>5 DEF ReqInv, ReadInv
<1>5. CASE CollectChunk(r)
  <2>1. /\ place' = place /\ parts'[r] = parts[r] + 1 /\ sent' = sent
        /\ terminator' = terminator
        /\ state' = state /\ answer' = answer /\ ended' = ended /\ shutdown' = shutdown
        /\ place[r] = "waiting" /\ inHand[r] = "chunk" /\ Ask(r)
    BY <1>5 DEF CollectChunk, TypeInv
  <2>2. Reads(r) /\ Held(r) = 1
    <3>1. Reads(r) \/ HasRead(r)
      BY <1>1, <2>1 DEF ReadInv, Active
    <3>2. terminator[r] # "chunk"
      BY DEF TypeInv, Terminators
    <3> QED
      BY <2>1, <3>1, <3>2 DEF HasRead, Held
  <2>3. parts[r] + Held(r) = parts'[r]
    BY <2>1, <2>2
  <2>4. parts'[r] \in 0..MaxChunks
    <3>1. events[r] \in Seq(Events) /\ sent[r] \in 0..MaxChunks /\ parts[r] \in 0..MaxChunks
      BY DEF TypeInv
    <3>2. Len(events[r]) \in Nat
      BY <3>1, LenProperties
    <3>3. \/ sent[r] = parts'[r] + Len(events[r])
          \/ sent[r] = parts'[r] + Len(events[r]) - 1 /\ Len(events[r]) > 0
      BY <2>2, <2>3 DEF Reads
    <3>4. MaxChunks \in Nat
      BY SyncConfig
    <3>5. parts'[r] <= sent[r] /\ parts'[r] \in Nat
      BY <2>1, <3>1, <3>2, <3>3
    <3> QED
      BY <3>1, <3>4, <3>5
  <2>5. Reads(r)' \/ HasRead(r)'
    BY <2>1, <2>2, <2>3, <2>4, AskReads DEF Reads
  <2>6. state[r] # "new" /\ answer[r] = "none"
    BY <1>1, <2>1 DEF LifeInv, AnswerInv, TypeInv
  <2>7. LifeInv(r)' /\ AnswerInv(r)'
    BY <1>1, <2>1, <2>6 DEF LifeInv, AnswerInv
  <2> QED
    BY <2>5, <2>7 DEF ReqInv, ReadInv
<1>6. CASE StreamOn(r)
  <2>1. /\ place[r] = "waiting" /\ inHand[r] # Nothing /\ inHand' = inHand
        /\ parts'[r] = (IF inHand[r] = "chunk" THEN parts[r] + 1 ELSE parts[r])
        /\ place'[r] = (IF inHand[r] \in {"end", "error"} THEN "closing" ELSE "sending")
        /\ sent' = sent /\ events' = events /\ terminator' = terminator
        /\ state' = state /\ answer' = answer /\ ended' = ended /\ shutdown' = shutdown
    BY <1>6 DEF StreamOn, AfterSending, TypeInv
  <2>2. Reads(r) \/ HasRead(r)
    BY <1>1, <2>1 DEF ReadInv, Active
  <2>3. state[r] # "new" /\ answer[r] = "none"
    BY <1>1, <2>1 DEF LifeInv, AnswerInv, TypeInv
  <2>4. LifeInv(r)' /\ AnswerInv(r)'
    BY <1>1, <2>1, <2>3 DEF LifeInv, AnswerInv
  <2>5. CASE Reads(r)
    <3>1. inHand[r] = "chunk" /\ Held(r) = 1 /\ Held(r)' = 0 /\ place'[r] = "sending"
      BY <2>1, <2>5 DEF Reads, Held
    <3>2. parts'[r] + Held(r)' = parts[r] + Held(r)
      <4>1. parts[r] \in Int
        BY DEF TypeInv
      <4> QED
        BY <2>1, <3>1, <4>1
    <3>3. Reads(r)'
      BY <2>1, <2>5, <3>1, <3>2 DEF Reads, Chunks
    <3> QED
      BY <2>4, <3>3 DEF ReqInv, ReadInv
  <2>6. CASE HasRead(r)
    <3>1. inHand[r] \in {"end", "error"}
      BY <2>6 DEF HasRead, TypeInv, Terminators
    <3>2. place'[r] = "closing" /\ parts'[r] = parts[r]
      BY <2>1, <3>1
    <3>3. HasRead(r)'
      BY <2>1, <2>6, <3>2 DEF HasRead
    <3> QED
      BY <2>4, <3>3 DEF ReqInv, ReadInv
  <2> QED
    BY <2>2, <2>5, <2>6
<1>7. CASE Sent(r)
  <2>1. /\ place[r] = "sending" /\ place'[r] = "waiting" /\ parts' = parts /\ sent' = sent
        /\ terminator' = terminator
        /\ state' = state /\ answer' = answer /\ ended' = ended /\ shutdown' = shutdown
        /\ Ask(r)
    BY <1>7 DEF Sent, TypeInv
  <2>2. Reads(r) /\ Held(r) = 0
    BY <1>1, <2>1 DEF ReadInv, Active, HasRead, Held
  <2>3. parts[r] + Held(r) = parts[r] /\ parts[r] \in 0..MaxChunks
    BY <2>2 DEF TypeInv
  <2>4. Reads(r)' \/ HasRead(r)'
    BY <2>1, <2>2, <2>3, AskReads DEF Reads
  <2>5. state[r] # "new" /\ answer[r] = "none"
    BY <1>1, <2>1 DEF LifeInv, AnswerInv, TypeInv
  <2>6. LifeInv(r)' /\ AnswerInv(r)'
    BY <1>1, <2>1, <2>5 DEF LifeInv, AnswerInv
  <2> QED
    BY <2>4, <2>6 DEF ReqInv, ReadInv
<1>8. ASSUME NEW what, Active(r), Close(r, what),
             state' = state, terminator' = terminator, ended' = ended, sent' = sent,
             events' = events, inHand' = inHand, parts' = parts, shutdown' = shutdown,
             \/ what = "closed"
             \/ HasRead(r) /\ what = Result(r)
      PROVE  ReqInv(r)'
  <2>1. place'[r] = "over" /\ answer'[r] = what /\ state[r] # "new"
    BY <1>1, <1>8 DEF Close, TypeInv, LifeInv, Active
  <2>2. LifeInv(r)' /\ ReadInv(r)'
    BY <1>1, <1>8, <2>1 DEF LifeInv, ReadInv, Active
  <2>3. AnswerInv(r)'
    <3>1. CASE what = "closed"
      BY <2>1, <3>1 DEF AnswerInv
    <3>2. CASE HasRead(r) /\ what = Result(r)
      <4>1. /\ terminator[r] \in {"end", "error"} /\ inHand[r] = terminator[r]
            /\ parts[r] = sent[r]
        BY <3>2 DEF HasRead, TypeInv, Terminators
      <4>2. /\ terminator[r] = "end" => what = "complete" /\ state[r] = "done"
            /\ terminator[r] = "error" => what = "error" /\ state[r] \in {"failed", "cancelled"}
        BY <1>1, <3>2, <4>1 DEF Result, LifeInv
      <4> QED
        BY <1>8, <2>1, <4>1, <4>2 DEF AnswerInv
    <3> QED
      BY <1>8, <3>1, <3>2
  <2> QED
    BY <2>2, <2>3 DEF ReqInv
<1>9. CASE CollectEnd(r)
  <2>1. HasRead(r)
    BY <1>1, <1>9 DEF CollectEnd, ReadInv, Active, Reads, Nothing
  <2> QED
    BY <1>8, <1>9, <2>1 DEF CollectEnd, Active
<1>10. CASE Vanished(r)
  BY <1>8, <1>10 DEF Vanished, Active
<1>11. CASE StreamEnds(r)
  <2>1. HasRead(r)
    BY <1>1, <1>11 DEF StreamEnds, ReadInv, Active, Reads
  <2> QED
    BY <1>8, <1>11, <2>1 DEF StreamEnds, Active
<1>12. CASE Killed(r)
  BY <1>8, <1>12 DEF Killed
<1>13. CASE Emit(r)
  <2>1. state[r] = "running" /\ terminator[r] = "none"
    BY <1>1, <1>13 DEF Emit, Running, LifeInv
  <2>2. ReadInv(r)'
    BY <1>1, <1>13, <2>1, ChunkPut
  <2>3. LifeInv(r)' /\ AnswerInv(r)'
    BY <1>1, <1>13, <2>1 DEF Emit, LifeInv, AnswerInv
  <2> QED
    BY <2>2, <2>3 DEF ReqInv
<1>14. ASSUME NEW outcome, NEW last, r \in Running, EndServe(r, outcome, last),
              \/ outcome = "done" /\ last = "end"
              \/ outcome = "failed" /\ last = "error"
              \/ outcome = "cancelled" /\ last = "none"
       PROVE  ReqInv(r)'
  <2>1. /\ state[r] = "running" /\ terminator[r] = "none"
        /\ state'[r] = outcome /\ terminator'[r] = last /\ r \in ended'
        /\ sent' = sent /\ place' = place /\ inHand' = inHand /\ parts' = parts
        /\ answer' = answer
        /\ IF last = "none" THEN events' = events
           ELSE events'[r] = Append(events[r], last)
    BY <1>1, <1>14 DEF EndServe, Put, Running, LifeInv, TypeInv
  <2>2. ReadInv(r)'
    <3>1. CASE last = "none"
      <4>1. Held(r)' = Held(r)
        BY <2>1 DEF Held
      <4> QED
        BY <1>1, <2>1, <3>1, <4>1 DEF ReadInv, Active, Reads, HasRead, Chunks
    <3>2. CASE last \in {"end", "error"}
      BY <1>1, <2>1, <3>2, TerminatorPut
    <3> QED
      BY <1>14, <3>1, <3>2
  <2>3. LifeInv(r)' /\ AnswerInv(r)'
    BY <1>1, <1>14, <2>1 DEF LifeInv, AnswerInv
  <2> QED
    BY <2>2, <2>3 DEF ReqInv
<1>15. CASE Completes(r) \/ Fails(r) \/ CutShort(r)
  BY <1>14, <1>15 DEF Completes, Fails, CutShort
<1> QED
  BY <1>2, <1>3, <1>4, <1>5, <1>6, <1>7, <1>9, <1>10, <1>11, <1>12, <1>13, <1>15
     DEF HandlerStep, ServeStep

\* What the engine and the server do to many requests at once.
LEMMA CommonStep ==
  ASSUME TypeInv, DequeInv, NEW r \in Requests, ReqInv(r),
         \/ \E m \in Models, limit \in 0..Cardinality(Requests) : Dispatch(m, limit)
         \/ Purge \/ TurnAway \/ Shutdown \/ Over
  PROVE  ReqInv(r)'
<1> USE DEF queueVars, lifeVars, eventVars, handlerVars, socketVars
<1>1. LifeInv(r) /\ ReadInv(r) /\ AnswerInv(r)
  BY DEF ReqInv
<1>2. ASSUME sent' = sent, events' = events, place' = place, inHand' = inHand,
             parts' = parts, answer' = answer, terminator' = terminator, ended' = ended,
             shutdown' = shutdown,
             \/ state'[r] = state[r]
             \/ state[r] = "queued" /\ state'[r] \in {"running", "cancelled"}
      PROVE  ReqInv(r)'
  <2>1. Held(r)' = Held(r)
    BY <1>2 DEF Held
  <2>2. ReadInv(r)'
    BY <1>1, <1>2, <2>1 DEF ReadInv, Active, Reads, HasRead, Chunks
  <2>3. LifeInv(r)' /\ AnswerInv(r)'
    BY <1>1, <1>2 DEF LifeInv, AnswerInv
  <2> QED
    BY <2>2, <2>3 DEF ReqInv
<1>3. ASSUME NEW m \in Models, NEW limit \in 0..Cardinality(Requests), Dispatch(m, limit)
      PROVE  ReqInv(r)'
  <2> DEFINE pop == TakeWhile(deque[m], cancelled, limit)
  <2>1. Pops(m, pop)
    <3>1. limit \in Nat
      OBVIOUS
    <3> QED
      BY <3>1, DispatchPops
  <2>2. /\ state'[r] = (IF r \in pop.taken THEN "running"
                        ELSE IF r \in pop.dropped THEN "cancelled" ELSE state[r])
        /\ UNCHANGED <<arrival, cancelled, terminator, ended, eventVars, handlerVars,
                       socketVars>>
    BY <1>3 DEF Dispatch
  <2> HIDE DEF pop
  <2>3. r \in pop.taken \cup pop.dropped => state[r] = "queued"
    BY <2>1 DEF Pops, DequeInv, Queued
  <2> QED
    BY <1>2, <2>2, <2>3
<1>4. CASE Purge
  BY <1>2, <1>4 DEF Purge, Queued
<1>5. CASE TurnAway
  <2>1. CASE r \in Queued
    <3>1. /\ state[r] = "queued" /\ terminator[r] = "none" /\ state'[r] = "cancelled"
          /\ terminator'[r] = "error" /\ events'[r] = Append(events[r], "error")
          /\ sent' = sent /\ place' = place /\ inHand' = inHand /\ parts' = parts
          /\ answer' = answer /\ shutdown'
      BY <1>1, <1>5, <2>1 DEF TurnAway, Queued, LifeInv
    <3>2. ReadInv(r)'
      BY <1>1, <3>1, TerminatorPut
    <3>3. LifeInv(r)' /\ AnswerInv(r)'
      BY <1>1, <3>1 DEF LifeInv, AnswerInv
    <3> QED
      BY <3>2, <3>3 DEF ReqInv
  <2>2. CASE r \notin Queued
    <3>1. LeavesAlone(r)
      BY <1>5, <2>2 DEF TurnAway, LeavesAlone
    <3> QED
      BY <3>1, LeftAlone
  <2> QED
    BY <2>1, <2>2
<1>6. CASE Shutdown \/ Over
  <2>1. LeavesAlone(r)
    BY <1>6 DEF Shutdown, Over, LeavesAlone, vars
  <2> QED
    BY <2>1, LeftAlone
<1> QED
  BY <1>3, <1>4, <1>5, <1>6

\* Each step keeps what the invariant says of each request.
LEMMA RequestStep ==
  ASSUME Inv, Next, NEW q \in Requests
  PROVE  ReqInv(q)'
<1>1. TypeInv /\ DequeInv /\ OnlyTheDepartedAreCancelled /\ ReqInv(q)
  BY DEF Inv, ReqInv
<1>2. ASSUME NEW r \in Requests,
             \/ Submit(r) \/ Leave(r) \/ WatcherNotices(r) \/ GetterTakes(r)
             \/ HandlerStep(r) \/ Killed(r) \/ ServeStep(r)
      PROVE  ReqInv(q)'
  <2>1. CASE r = q
    BY <1>1, <1>2, <2>1, OwnStep
  <2>2. CASE r # q
    <3>1. LeavesAlone(q)
      BY <1>1, <1>2, <2>2, OthersLeftAlone
    <3> QED
      BY <1>1, <3>1, LeftAlone
  <2> QED
    BY <2>1, <2>2
<1>3. CASE \/ \E m \in Models, limit \in 0..Cardinality(Requests) : Dispatch(m, limit)
           \/ Purge \/ TurnAway \/ Shutdown \/ Over
  BY <1>1, <1>3, CommonStep
<1> QED
  BY <1>2, <1>3 DEF Next

-----------------------------------------------------------------------------
(* The types, and the deques *)

\* What the handlers and the sockets do keeps off the deques.
LEMMA DequesLeftAlone ==
  ASSUME TypeInv, DequeInv, deque' = deque, arrival' = arrival,
         \A r \in Requests : \/ state'[r] = state[r]
                             \/ state[r] = "running" /\ state'[r] \notin {"new", "queued"}
  PROVE  DequeInv'
<1>1. Queued' = Queued
  BY DEF Queued
<1>2. \A r \in Requests : state'[r] = "new" <=> state[r] = "new"
  OBVIOUS
<1> QED
  BY <1>1, <1>2 DEF DequeInv, Ordered

LEMMA DequeStep ==
  ASSUME Inv, Next
  PROVE  deque' \in [Models -> Seq(Requests)] /\ arrival' \in [Requests -> Nat] /\ DequeInv'
<1> USE DEF queueVars, lifeVars, eventVars, handlerVars, socketVars
<1>1. TypeInv /\ DequeInv /\ deque \in [Models -> Seq(Requests)]
      /\ arrival \in [Requests -> Nat] /\ state \in [Requests -> States]
  BY DEF Inv, TypeInv
<1>2. ASSUME NEW r \in Requests, Submit(r)
      PROVE  deque' \in [Models -> Seq(Requests)] /\ arrival' \in [Requests -> Nat] /\ DequeInv'
  <2> DEFINE m == ModelOf[r]
             d == deque[m]
             Arrived == {q \in Requests : arrival[q] > 0}
             ticket == 1 + Cardinality(Arrived)
  <2>1. /\ state[r] = "new" /\ state' = [state EXCEPT ![r] = "queued"]
        /\ deque' = [deque EXCEPT ![m] = Append(d, r)]
        /\ arrival' = [arrival EXCEPT ![r] = ticket]
    BY <1>2 DEF Submit
  <2>2. m \in Models /\ d \in Seq(Requests) /\ IsFiniteSet(Requests)
    BY <1>1, SyncConfig
  <2>3. IsFiniteSet(Arrived) /\ Cardinality(Arrived) \in Nat /\ arrival[r] = 0 /\ r \notin Arrived
    <3>1. IsFiniteSet(Arrived)
      BY <2>2, FS_Subset
    <3>2. arrival[r] = 0
      BY <1>1, <2>1 DEF DequeInv
    <3> QED
      BY <3>1, <3>2, FS_CardinalityType
  <2>4. /\ Append(d, r) \in Seq(Requests) /\ Len(Append(d, r)) = Len(d) + 1 /\ Len(d) \in Nat
        /\ Append(d, r)[Len(d) + 1] = r /\ \A i \in 1..Len(d) : Append(d, r)[i] = d[i]
    BY <2>2, AppendProperties, LenProperties
  <2>5. deque' \in [Models -> Seq(Requests)] /\ arrival' \in [Requests -> Nat]
    <3>1. ticket \in Nat
      BY <2>3
    <3> HIDE DEF ticket
    <3>2. arrival' \in [Requests -> Nat]
      BY <1>1, <2>1, <3>1
    <3> QED
      BY <1>1, <2>1, <2>2, <2>4, <3>2
  <2>6. Arrived' = Arrived \cup {r}
    <3>1. ticket > 0
      BY <2>3
    <3> HIDE DEF ticket
    <3> QED
      BY <1>1, <2>1, <3>1
  <2>7. Cardinality(Arrived') = ticket
    <3> HIDE DEF Arrived
    <3>1. Cardinality(Arrived \cup {r}) = Cardinality(Arrived) + 1
      BY <2>3, FS_AddElement
    <3> QED
      BY <2>3, <2>6, <3>1
  <2>8. ASSUME NEW q \in Requests
        PROVE  /\ arrival'[q] = 0 <=> state'[q] = "new"
               /\ arrival'[q] <= Cardinality(Arrived')
    BY <1>1, <2>1, <2>3, <2>7 DEF DequeInv
  <2>9. Queued' = Queued \cup {r} /\ r \notin Queued
    BY <1>1, <2>1 DEF Queued
  <2>10. ASSUME NEW n \in Models
         PROVE  /\ ToSet(deque[n])' = {q \in Queued' : ModelOf[q] = n}
                /\ Ordered(deque'[n], arrival')
    <3>1. r \notin ToSet(deque[n])
      BY <1>1, <2>9 DEF DequeInv
    <3>2. deque[n] \in Seq(Requests) /\ Len(deque[n]) \in Nat /\ DOMAIN deque[n] = 1..Len(deque[n])
      BY <1>1, LenProperties
    <3>3. \A i \in 1..Len(deque[n]) : /\ deque[n][i] \in ToSet(deque[n])
                                     /\ deque[n][i] \in Requests
      BY <3>2, ElementOfSeq DEF ToSet
    <3>4. \A i \in 1..Len(deque[n]) : arrival'[deque[n][i]] = arrival[deque[n][i]]
      BY <1>1, <2>1, <3>1, <3>3
    <3>5. Ordered(deque[n], arrival')
      BY <1>1, <3>4 DEF DequeInv, Ordered
    <3>6. CASE n # m
      BY <1>1, <2>1, <2>9, <3>5, <3>6 DEF DequeInv
    <3>7. CASE n = m
      <4> DEFINE t == Append(d, r)
      <4>1. t = deque'[n] /\ d = deque[n]
        BY <1>1, <2>1, <2>2, <3>7
      <4>2. DOMAIN t = 1..Len(d)+1
        BY <2>4, LenProperties
      <4> HIDE DEF t
      <4>3. ToSet(t) = ToSet(d) \cup {r}
        <5>1. \A i \in 1..Len(d)+1 : i \in 1..Len(d) \/ i = Len(d) + 1
          BY <2>4
        <5>2. 1..Len(d) \subseteq 1..Len(d)+1 /\ Len(d) + 1 \in 1..Len(d)+1
          BY <2>4
        <5>3. {t[i] : i \in 1..Len(d)+1} = {d[i] : i \in 1..Len(d)} \cup {r}
          BY <2>4, <5>1, <5>2 DEF t
        <5> QED
          BY <3>2, <4>1, <4>2, <5>3 DEF ToSet
      <4>4. ToSet(t) = {q \in Queued' : ModelOf[q] = n}
        BY <1>1, <2>2, <2>9, <3>7, <4>1, <4>3 DEF DequeInv
      <4>5. Ordered(t, arrival')
        <5> SUFFICES ASSUME NEW i \in 1..Len(d)+1, NEW j \in 1..Len(d)+1, i < j
                     PROVE  arrival'[t[i]] < arrival'[t[j]]
          BY <2>4 DEF Ordered, t
        <5>1. i \in 1..Len(d)
          BY <2>4
        <5>2. CASE j \in 1..Len(d)
          BY <2>4, <3>5, <4>1, <5>1, <5>2 DEF Ordered, t
        <5>3. CASE j = Len(d) + 1
          <6>1. t[i] = d[i] /\ t[j] = r /\ d[i] \in Requests
            BY <2>4, <3>3, <4>1, <5>1, <5>3 DEF t
          <6>2. arrival'[r] = ticket
            BY <1>1, <2>1
          <6>3. arrival'[d[i]] = arrival[d[i]] /\ arrival[d[i]] <= Cardinality(Arrived)
            BY <1>1, <3>4, <4>1, <5>1, <6>1 DEF DequeInv
          <6>4. arrival[d[i]] \in Nat
            BY <1>1, <6>1
          <6> QED
            BY <2>3, <6>1, <6>2, <6>3, <6>4
        <5>4. j \in 1..Len(d) \/ j = Len(d) + 1
          BY <2>4, LastOrBefore, Zenon
        <5> QED
          BY <5>2, <5>3, <5>4
      <4> QED
        BY <4>1, <4>4, <4>5
    <3> QED
      BY <3>6, <3>7
  <2> QED
    BY <2>5, <2>8, <2>10 DEF DequeInv
<1>3. ASSUME NEW m \in Models, NEW limit \in 0..Cardinality(Requests), Dispatch(m, limit)
      PROVE  deque' \in [Models -> Seq(Requests)] /\ arrival' \in [Requests -> Nat] /\ DequeInv'
  <2> DEFINE pop == TakeWhile(deque[m], cancelled, limit)
  <2>1. Pops(m, pop)
    <3>1. limit \in Nat
      OBVIOUS
    <3> QED
      BY <1>1, <3>1, DispatchPops
  <2>2. /\ deque' = [deque EXCEPT ![m] = pop.rest] /\ arrival' = arrival
        /\ \A r \in Requests :
             state'[r] = (IF r \in pop.taken THEN "running"
                          ELSE IF r \in pop.dropped THEN "cancelled" ELSE state[r])
    BY <1>3 DEF Dispatch
  <2> HIDE DEF pop
  <2>3. /\ pop.rest \in Seq(Requests) /\ Ordered(pop.rest, arrival)
        /\ ToSet(pop.rest) = ToSet(deque[m]) \ (pop.taken \cup pop.dropped)
        /\ pop.taken \cup pop.dropped \subseteq ToSet(deque[m])
    BY <2>1 DEF Pops
  <2>4. ToSet(deque[m]) = {r \in Queued : ModelOf[r] = m}
    BY <1>1 DEF DequeInv
  <2>5. Queued' = Queued \ (pop.taken \cup pop.dropped)
    BY <2>2, <2>3, <2>4 DEF Queued
  <2>6. \A r \in Requests : state'[r] = "new" <=> state[r] = "new"
    BY <2>2, <2>3, <2>4 DEF Queued
  <2>7. \A n \in Models : /\ ToSet(deque'[n]) = {r \in Queued' : ModelOf[r] = n}
                          /\ Ordered(deque'[n], arrival')
    <3> TAKE n \in Models
    <3>1. CASE n = m
      BY <1>1, <2>2, <2>3, <2>4, <2>5, <3>1
    <3>2. CASE n # m
      <4>1. {r \in Queued' : ModelOf[r] = n} = {r \in Queued : ModelOf[r] = n}
        BY <2>3, <2>4, <2>5, <3>2
      <4> QED
        BY <1>1, <2>2, <3>2, <4>1 DEF DequeInv
    <3> QED
      BY <3>1, <3>2
  <2> QED
    BY <1>1, <2>2, <2>3, <2>6, <2>7 DEF DequeInv
<1>4. CASE Purge
  <2>1. /\ deque' = [m \in Models |-> LiveIn(deque[m], cancelled)] /\ arrival' = arrival
        /\ state' = [r \in Requests |-> IF r \in Queued \cap cancelled THEN "cancelled"
                                        ELSE state[r]]
    BY <1>4 DEF Purge
  <2>2. \A m \in Models : /\ LiveIn(deque[m], cancelled) \in Seq(Requests)
                          /\ ToSet(LiveIn(deque[m], cancelled)) = ToSet(deque[m]) \ cancelled
                          /\ Ordered(LiveIn(deque[m], cancelled), arrival)
    <3> TAKE m \in Models
    <3>1. deque[m] \in Seq(Requests) /\ Ordered(deque[m], arrival) /\ arrival \in [Requests -> Int]
      BY <1>1 DEF DequeInv
    <3> QED
      BY <3>1, LiveFacts
  <2>3. Queued' = Queued \ cancelled
    BY <2>1 DEF Queued
  <2>4. \A r \in Requests : state'[r] = "new" <=> state[r] = "new"
    BY <2>1 DEF Queued
  <2> QED
    BY <1>1, <2>1, <2>2, <2>3, <2>4 DEF DequeInv
<1>5. CASE TurnAway
  <2>1. /\ deque' = [m \in Models |-> <<>>] /\ arrival' = arrival
        /\ state' = [r \in Requests |-> IF r \in Queued THEN "cancelled" ELSE state[r]]
    BY <1>5 DEF TurnAway
  <2>2. Queued' = {} /\ \A r \in Requests : state'[r] = "new" <=> state[r] = "new"
    BY <2>1 DEF Queued
  <2>3. <<>> \in Seq(Requests) /\ ToSet(<<>>) = {} /\ Ordered(<<>>, arrival)
    BY EmptySeq DEF ToSet, Ordered
  <2> QED
    BY <1>1, <2>1, <2>2, <2>3 DEF DequeInv
<1>6. ASSUME NEW r \in Requests,
             \/ Leave(r) \/ WatcherNotices(r) \/ GetterTakes(r)
             \/ HandlerStep(r) \/ Killed(r) \/ Emit(r)
      PROVE  deque' = deque /\ arrival' = arrival /\ state' = state
  BY <1>6 DEF Leave, WatcherNotices, GetterTakes, HandlerStep, CollectChunk, CollectEnd,
              Vanished, StreamOn, Sent, StreamEnds, Killed, Emit
<1>7. ASSUME NEW r \in Requests, Completes(r) \/ Fails(r) \/ CutShort(r)
      PROVE  /\ deque' = deque /\ arrival' = arrival
             /\ \A q \in Requests : \/ state'[q] = state[q]
                                    \/ /\ state[q] = "running"
                                       /\ state'[q] \notin {"new", "queued"}
  BY <1>1, <1>7 DEF Completes, Fails, CutShort, EndServe, Running
<1>8. CASE Shutdown \/ Over
  BY <1>1, <1>8, DequesLeftAlone DEF Shutdown, Over, vars
<1> QED
  BY <1>1, <1>2, <1>3, <1>4, <1>5, <1>6, <1>7, <1>8, DequesLeftAlone DEF Next, ServeStep

\* There is room for every chunk that is in a handler's hand.
LEMMA RoomForChunk ==
  ASSUME TypeInv, NEW r \in Requests, ReadInv(r), place[r] = "waiting", inHand[r] = "chunk"
  PROVE  parts[r] + 1 \in 0..MaxChunks
<1>1. Reads(r) /\ Held(r) = 1
  <2>1. Reads(r) \/ HasRead(r)
    BY DEF ReadInv, Active
  <2>2. terminator[r] # "chunk"
    BY DEF TypeInv, Terminators
  <2> QED
    BY <2>1, <2>2 DEF HasRead, Held
<1>2. Len(events[r]) \in Nat /\ sent[r] \in 0..MaxChunks /\ parts[r] \in 0..MaxChunks
  <2>1. events[r] \in Seq(Events)
    BY DEF TypeInv
  <2> QED
    BY <2>1, LenProperties DEF TypeInv
<1>3. \/ sent[r] = parts[r] + 1 + Len(events[r])
      \/ sent[r] = parts[r] + 1 + Len(events[r]) - 1 /\ Len(events[r]) > 0
  BY <1>1 DEF Reads
<1>4. MaxChunks \in Nat /\ parts[r] + 1 <= sent[r]
  BY <1>2, <1>3, SyncConfig
<1> QED
  BY <1>2, <1>4

\* The handlers' variables keep their types.
LEMMA AskTypes ==
  ASSUME TypeInv, NEW r \in Requests, Ask(r)
  PROVE  events' \in [Requests -> Seq(Events)] /\ inHand' \in [Requests -> Events \cup {Nothing}]
<1>1. events \in [Requests -> Seq(Events)] /\ inHand \in [Requests -> Events \cup {Nothing}]
  BY DEF TypeInv
<1>2. CASE events[r] = <<>>
  BY <1>1, <1>2 DEF Ask
<1>3. CASE events[r] # <<>>
  <2>1. Head(events[r]) \in Events /\ Tail(events[r]) \in Seq(Events)
    BY <1>1, <1>3, EventTaken
  <2> QED
    BY <1>1, <1>3, <2>1 DEF Ask
<1> QED
  BY <1>2, <1>3

TypeRest ==
    /\ state \in [Requests -> States] /\ terminator \in [Requests -> Terminators]
    /\ cancelled \subseteq Requests /\ ended \subseteq Requests
    /\ sent \in [Requests -> 0..MaxChunks] /\ events \in [Requests -> Seq(Events)]
    /\ place \in [Requests -> Places]
    /\ inHand \in [Requests -> Events \cup {Nothing}]
    /\ parts \in [Requests -> 0..MaxChunks]
    /\ answer \in [Requests -> {"none", "complete", "error", "closed"}]
    /\ gone \subseteq Requests /\ noticed \subseteq gone /\ shutdown \in BOOLEAN

LEMMA TypeStep ==
  ASSUME Inv, Next
  PROVE  TypeRest'
<1> USE DEF queueVars, lifeVars, eventVars, handlerVars, socketVars
<1>1. TypeInv /\ TypeRest
  BY DEF Inv, TypeInv, TypeRest
<1>2. ASSUME NEW r \in Requests, Submit(r)
      PROVE  TypeRest'
  BY <1>1, <1>2 DEF TypeRest, Submit, States, Places
<1>3. ASSUME NEW r \in Requests, Leave(r) \/ WatcherNotices(r)
      PROVE  TypeRest'
  BY <1>1, <1>3 DEF TypeRest, Leave, WatcherNotices
<1>4. ASSUME NEW r \in Requests, GetterTakes(r) \/ Sent(r)
      PROVE  TypeRest'
  <2>1. Ask(r)
    BY <1>4 DEF GetterTakes, Sent
  <2>2. events' \in [Requests -> Seq(Events)] /\ inHand' \in [Requests -> Events \cup {Nothing}]
    BY <1>1, <2>1, AskTypes
  <2>3. place' \in [Requests -> Places]
    BY <1>1, <1>4 DEF TypeRest, GetterTakes, Sent, Places
  <2> QED
    BY <1>1, <1>4, <2>2, <2>3 DEF TypeRest, GetterTakes, Sent
<1>5. ASSUME NEW r \in Requests, CollectChunk(r)
      PROVE  TypeRest'
  <2>1. events' \in [Requests -> Seq(Events)] /\ inHand' \in [Requests -> Events \cup {Nothing}]
    BY <1>1, <1>5, AskTypes DEF CollectChunk
  <2>2. parts[r] + 1 \in 0..MaxChunks
    BY <1>1, <1>5, RoomForChunk DEF CollectChunk, Inv
  <2>3. parts' = [parts EXCEPT ![r] = parts[r] + 1]
    BY <1>5 DEF CollectChunk
  <2>4. parts' \in [Requests -> 0..MaxChunks]
    BY <1>1, <2>2, <2>3 DEF TypeRest
  <2> QED
    BY <1>1, <1>5, <2>1, <2>4 DEF TypeRest, CollectChunk
<1>6. ASSUME NEW r \in Requests, StreamOn(r)
      PROVE  TypeRest'
  <2>1. inHand[r] = "chunk" => parts[r] + 1 \in 0..MaxChunks
    BY <1>1, <1>6, RoomForChunk DEF StreamOn, Inv
  <2>2. parts' = [parts EXCEPT ![r] = IF inHand[r] = "chunk" THEN parts[r] + 1 ELSE parts[r]]
    BY <1>6 DEF StreamOn
  <2>3. parts' \in [Requests -> 0..MaxChunks]
    BY <1>1, <2>1, <2>2 DEF TypeRest
  <2>4. place' \in [Requests -> Places]
    BY <1>1, <1>6 DEF TypeRest, StreamOn, AfterSending, Places
  <2> QED
    BY <1>1, <1>6, <2>3, <2>4 DEF TypeRest, StreamOn
<1>7. ASSUME NEW r \in Requests, CollectEnd(r) \/ Vanished(r) \/ StreamEnds(r) \/ Killed(r)
      PROVE  TypeRest'
  <2>1. \E what \in {"complete", "error", "closed"} : Close(r, what)
    BY <1>7 DEF CollectEnd, Vanished, StreamEnds, Killed, Result
  <2>2. /\ place' \in [Requests -> Places]
        /\ answer' \in [Requests -> {"none", "complete", "error", "closed"}]
    BY <1>1, <2>1 DEF TypeRest, Close, Places
  <2>3. cancelled' \subseteq Requests
    BY <1>1, <1>7 DEF TypeRest, CollectEnd, Vanished, StreamEnds, Killed, Finally
  <2> QED
    BY <1>1, <1>7, <2>2, <2>3 DEF TypeRest, CollectEnd, Vanished, StreamEnds, Killed
<1>8. ASSUME NEW r \in Requests, Emit(r)
      PROVE  TypeRest'
  <2>1. events[r] \in Seq(Events) /\ "chunk" \in Events
    BY <1>1 DEF TypeRest, Events
  <2>2. Append(events[r], "chunk") \in Seq(Events)
    BY <2>1, EventPut
  <2>3. events' \in [Requests -> Seq(Events)]
    BY <1>1, <1>8, <2>2 DEF TypeRest, Emit, Put
  <2>4. sent[r] + 1 \in 0..MaxChunks
    BY <1>1, <1>8, SyncConfig DEF TypeRest, Emit
  <2> QED
    BY <1>1, <1>8, <2>3, <2>4 DEF TypeRest, Emit
<1>9. ASSUME NEW r \in Requests, NEW outcome \in States, NEW last \in Terminators,
             EndServe(r, outcome, last)
      PROVE  TypeRest'
  <2>1. events' \in [Requests -> Seq(Events)]
    <3>1. CASE last = "none"
      BY <1>1, <1>9, <3>1 DEF TypeRest, EndServe
    <3>2. CASE last # "none"
      <4>1. events[r] \in Seq(Events) /\ last \in Events
        BY <1>1, <3>2 DEF TypeRest, Terminators, Events
      <4>2. Append(events[r], last) \in Seq(Events)
        BY <4>1, EventPut
      <4> QED
        BY <1>1, <1>9, <3>2, <4>2 DEF TypeRest, EndServe, Put
    <3> QED
      BY <3>1, <3>2
  <2> QED
    BY <1>1, <1>9, <2>1 DEF TypeRest, EndServe
<1>10. ASSUME NEW r \in Requests, Completes(r) \/ Fails(r) \/ CutShort(r)
       PROVE  TypeRest'
  BY <1>9, <1>10 DEF Completes, Fails, CutShort, States, Terminators
<1>11. ASSUME NEW m \in Models, NEW limit \in 0..Cardinality(Requests), Dispatch(m, limit)
       PROVE  TypeRest'
  <2> DEFINE pop == TakeWhile(deque[m], cancelled, limit)
  <2>1. state' = [r \in Requests |-> IF r \in pop.taken THEN "running"
                                     ELSE IF r \in pop.dropped THEN "cancelled" ELSE state[r]]
    BY <1>11 DEF Dispatch
  <2> HIDE DEF pop
  <2>2. state' \in [Requests -> States]
    BY <1>1, <2>1 DEF TypeRest, States
  <2> QED
    BY <1>1, <1>11, <2>2 DEF TypeRest, Dispatch
<1>12. CASE Purge
  BY <1>1, <1>12 DEF TypeRest, Purge, States
<1>13. CASE TurnAway
  <2>1. \A r \in Requests : Append(events[r], "error") \in Seq(Events)
    <3> TAKE r \in Requests
    <3>1. events[r] \in Seq(Events) /\ "error" \in Events
      BY <1>1 DEF TypeRest, Events
    <3> QED
      BY <3>1, EventPut
  <2>2. events' \in [Requests -> Seq(Events)]
    BY <1>1, <1>13, <2>1 DEF TypeRest, TurnAway
  <2> QED
    BY <1>1, <1>13, <2>2 DEF TypeRest, TurnAway, States, Terminators
<1>14. CASE Shutdown \/ Over
  BY <1>1, <1>14 DEF TypeRest, Shutdown, Over, vars
<1> QED
  BY <1>2, <1>3, <1>4, <1>5, <1>6, <1>7, <1>8, <1>10, <1>11, <1>12, <1>13, <1>14
     DEF Next, HandlerStep, ServeStep

\* Each request that a step cancels is one whose client has gone, or the server goes down.
LEMMA CancelStep ==
  ASSUME Inv, Next
  PROVE  OnlyTheDepartedAreCancelled'
<1> USE DEF queueVars, lifeVars, eventVars, handlerVars, socketVars
<1>1. /\ OnlyTheDepartedAreCancelled /\ TypeInv
      /\ \A r \in Requests : LifeInv(r) /\ ReadInv(r)
  BY DEF Inv
<1>2. gone \subseteq gone' /\ (shutdown => shutdown')
  <2>1. ASSUME NEW r \in Requests, HandlerStep(r) \/ Killed(r) \/ ServeStep(r)
        PROVE  UNCHANGED <<gone, shutdown>>
    BY <2>1 DEF HandlerStep, CollectChunk, CollectEnd, Vanished, StreamOn, Sent, StreamEnds,
                Killed, ServeStep, Emit, Completes, Fails, CutShort, EndServe
  <2>2. ASSUME NEW r \in Requests, Submit(r) \/ WatcherNotices(r) \/ GetterTakes(r)
        PROVE  UNCHANGED <<gone, shutdown>>
    BY <2>2 DEF Submit, WatcherNotices, GetterTakes
  <2>3. ASSUME NEW m \in Models, NEW limit, Dispatch(m, limit)
        PROVE  UNCHANGED <<gone, shutdown>>
    BY <2>3 DEF Dispatch
  <2>4. CASE Purge \/ TurnAway \/ Over
    BY <2>4 DEF Purge, TurnAway, Over, vars
  <2>5. ASSUME NEW r \in Requests, Leave(r)
        PROVE  gone \subseteq gone' /\ shutdown' = shutdown
    BY <2>5 DEF Leave
  <2>6. CASE Shutdown
    BY <2>6 DEF Shutdown
  <2> QED
    BY <2>1, <2>2, <2>3, <2>4, <2>5, <2>6 DEF Next
<1>3. \A r \in cancelled' \ cancelled : r \in gone \/ shutdown
  <2>1. ASSUME NEW r \in Requests, Vanished(r) \/ StreamEnds(r) \/ Killed(r)
        PROVE  \/ cancelled' = cancelled
               \/ cancelled' = cancelled \cup {r} /\ (r \in gone \/ shutdown)
    <3>1. CASE Vanished(r)
      BY <1>1, <3>1 DEF Vanished, TypeInv
    <3>2. CASE StreamEnds(r)
      <4>1. terminator[r] # "none"
        BY <1>1, <3>2 DEF StreamEnds, ReadInv, Active, Reads, HasRead
      <4>2. r \in ended \/ shutdown
        BY <1>1, <4>1 DEF LifeInv
      <4> QED
        BY <3>2, <4>2 DEF StreamEnds, Finally
    <3>3. CASE Killed(r)
      BY <3>3 DEF Killed, Finally
    <3> QED
      BY <2>1, <3>1, <3>2, <3>3
  <2>2. \/ cancelled' = cancelled
        \/ \E r \in Requests : Vanished(r) \/ StreamEnds(r) \/ Killed(r)
    BY DEF Next, HandlerStep, ServeStep, Submit, Leave, WatcherNotices, GetterTakes,
           CollectChunk, CollectEnd, StreamOn, Sent, Emit, Completes, Fails, CutShort,
           EndServe, Dispatch, Purge, TurnAway, Shutdown, Over, vars
  <2> QED
    BY <2>1, <2>2
<1> QED
  BY <1>1, <1>2, <1>3 DEF OnlyTheDepartedAreCancelled

-----------------------------------------------------------------------------
(* The theorems *)

LEMMA InvInit == Init => Inv
<1> SUFFICES ASSUME Init
             PROVE  Inv
  OBVIOUS
<1>1. <<>> \in Seq(Requests) /\ <<>> \in Seq(Events) /\ ToSet(<<>>) = {}
      /\ Ordered(<<>>, arrival) /\ MaxChunks \in Nat
  BY EmptySeq, SyncConfig DEF ToSet, Ordered
<1>2. TypeInv
  <2>1. 0 \in 0..MaxChunks
    BY <1>1
  <2>2. /\ state \in [Requests -> States] /\ terminator \in [Requests -> Terminators]
        /\ place \in [Requests -> Places] /\ inHand \in [Requests -> Events \cup {Nothing}]
        /\ answer \in [Requests -> {"none", "complete", "error", "closed"}]
    BY DEF Init, States, Terminators, Places
  <2>3. /\ sent \in [Requests -> 0..MaxChunks] /\ parts \in [Requests -> 0..MaxChunks]
        /\ arrival \in [Requests -> Nat]
    BY <2>1 DEF Init
  <2>4. deque \in [Models -> Seq(Requests)] /\ events \in [Requests -> Seq(Events)]
    BY <1>1 DEF Init
  <2> QED
    BY <2>2, <2>3, <2>4 DEF Init, TypeInv
<1>3. DequeInv
  <2>1. {q \in Requests : arrival[q] > 0} = {}
    BY DEF Init
  <2>2. Cardinality({q \in Requests : arrival[q] > 0}) = 0
    BY <2>1, FS_EmptySet
  <2>3. Queued = {}
    BY DEF Init, Queued
  <2> QED
    <3>1. \A r \in Requests : /\ arrival[r] = 0 /\ state[r] = "new"
                              /\ arrival[r] <= Cardinality({q \in Requests : arrival[q] > 0})
      BY <2>2 DEF Init
    <3>2. \A m \in Models : deque[m] = <<>>
      BY DEF Init
    <3>3. \A m \in Models : /\ ToSet(deque[m]) = {r \in Queued : ModelOf[r] = m}
                            /\ Ordered(deque[m], arrival)
      BY <1>1, <2>3, <3>2
    <3> QED
      BY <3>1, <3>3 DEF DequeInv
<1>4. OnlyTheDepartedAreCancelled
  BY DEF Init, OnlyTheDepartedAreCancelled
<1>5. \A r \in Requests : LifeInv(r) /\ ReadInv(r) /\ AnswerInv(r)
  BY DEF Init, LifeInv, ReadInv, Active, AnswerInv
<1> QED
  BY <1>2, <1>3, <1>4, <1>5 DEF Inv

LEMMA InvStep == Inv /\ [Next]_vars => Inv'
<1> SUFFICES ASSUME Inv, [Next]_vars
             PROVE  Inv'
  OBVIOUS
<1>1. CASE Next
  <2>1. TypeInv'
    BY <1>1, TypeStep, DequeStep DEF TypeRest, TypeInv
  <2>2. DequeInv' /\ OnlyTheDepartedAreCancelled'
    BY <1>1, DequeStep, CancelStep
  <2>3. \A r \in Requests : ReqInv(r)'
    BY <1>1, RequestStep
  <2> QED
    BY <2>1, <2>2, <2>3 DEF Inv, ReqInv
<1>2. CASE UNCHANGED vars
  <2> USE DEF vars, queueVars, lifeVars, eventVars, handlerVars, socketVars
  <2>1. TypeInv'
    BY <1>2 DEF Inv, TypeInv
  <2>2. DequeInv' /\ OnlyTheDepartedAreCancelled'
    BY <1>2 DEF Inv, DequeInv, Ordered, Queued, OnlyTheDepartedAreCancelled
  <2>3. \A r \in Requests : ReqInv(r)'
    <3> TAKE r \in Requests
    <3>1. ReqInv(r) /\ LeavesAlone(r)
      BY <1>2 DEF Inv, ReqInv, LeavesAlone
    <3> QED
      BY <3>1, LeftAlone
  <2> QED
    BY <2>1, <2>2, <2>3 DEF Inv, ReqInv
<1> QED
  BY <1>1, <1>2

THEOREM InvHolds == Spec => []Inv
<1> QED
  BY InvInit, InvStep, PTL DEF Spec

\* What a client is answered with is what became of its request: a completion only for a
\* request that is done, with every chunk that was sent; an error only for one that is not.
THEOREM AnswersAreComplete == Spec => []AnswerIsComplete
<1>1. Inv => AnswerIsComplete
  BY DEF Inv, AnswerInv, AnswerIsComplete
<1> QED
  BY <1>1, InvHolds, PTL

\* A handler that waits for a request whose terminator was put on its queue (_serve,
\* Engine.stop) has something to go on with: an event in hand, or one that its getter will
\* find.  What it has passed on and what it has yet to read are all that was sent.
NobodyWaitsInVain ==
    \A r \in Requests :
      place[r] = "waiting" =>
        /\ terminator[r] # "none" => inHand[r] # Nothing \/ events[r] # <<>>
        /\ parts[r] <= sent[r]

\* The safety half of AnsweredInTheEnd: whatever was cancelled, killed or turned away, no
\* reachable state has a handler that only a client's leaving could move.
THEOREM TerminatorsAreFound == Spec => []NobodyWaitsInVain
<1>1. Inv => NobodyWaitsInVain
  <2> SUFFICES ASSUME Inv, NEW r \in Requests, place[r] = "waiting"
               PROVE  /\ terminator[r] # "none" => inHand[r] # Nothing \/ events[r] # <<>>
                      /\ parts[r] <= sent[r]
    BY DEF NobodyWaitsInVain
  <2>1. Reads(r) \/ HasRead(r)
    BY DEF Inv, ReadInv, Active
  <2>2. /\ parts[r] \in Nat /\ sent[r] \in Nat
        /\ Len(events[r]) \in Nat /\ Held(r) \in {0, 1}
    <3>1. /\ parts \in [Requests -> 0..MaxChunks] /\ sent \in [Requests -> 0..MaxChunks]
          /\ events \in [Requests -> Seq(Events)]
      BY DEF Inv, TypeInv
    <3>2. Len(events[r]) \in Nat
      BY <3>1, LenProperties
    <3> QED
      BY <3>1, <3>2, SyncConfig DEF Held
  <2>3. CASE Reads(r)
    <3>1. parts[r] <= sent[r]
      BY <2>2, <2>3 DEF Reads
    <3>2. terminator[r] # "none" => events[r] # <<>>
      <4>1. terminator[r] # "none" => Len(events[r]) > 0
        BY <2>3 DEF Reads
      <4> QED
        BY <4>1
    <3> QED
      BY <3>1, <3>2
  <2>4. CASE HasRead(r)
    <3>1. /\ inHand[r] = terminator[r] /\ terminator[r] \in Terminators \ {"none"}
          /\ sent[r] = parts[r]
      BY <2>4 DEF HasRead, Inv, TypeInv
    <3> QED
      BY <2>2, <3>1 DEF Terminators, Nothing
  <2> QED
    BY <2>1, <2>3, <2>4
<1> QED
  BY <1>1, InvHolds, PTL

\* An ordered deque holds as many requests as it has entries.
LEMMA DequeIsASet ==
  ASSUME Inv, NEW m \in Models
  PROVE  Len(deque[m]) = Cardinality(ToSet(deque[m]))
<1> DEFINE q == deque[m]
           n == Len(q)
<1>1. /\ q \in Seq(Requests) /\ n \in Nat /\ DOMAIN q = 1..n
      /\ arrival \in [Requests -> Nat] /\ Ordered(q, arrival)
  <2>1. q \in Seq(Requests) /\ arrival \in [Requests -> Nat] /\ Ordered(q, arrival)
    BY DEF Inv, TypeInv, DequeInv
  <2> QED
    BY <2>1, LenProperties
<1>2. \A i, j \in 1..n : q[i] = q[j] => i = j
  BY <1>1, OrderedIsInjective
<1>3. ToSet(q) = {q[i] : i \in 1..n}
  BY <1>1 DEF ToSet
<1> HIDE DEF q, n
<1>4. q = [i \in 1..n |-> q[i]]
  BY <1>1 DEF q, n
<1>5. q \in [1..n -> ToSet(q)]
  BY <1>3, <1>4
<1>6. q \in Bijection(1..n, ToSet(q))
  BY <1>2, <1>3, <1>5 DEF Bijection, Injection, Surjection, IsInjective
<1>7. IsFiniteSet(1..n) /\ Cardinality(1..n) = n
  <2>1. 1 \in Int /\ n \in Int /\ n \in Nat
    BY <1>1
  <2>2. IsFiniteSet(1..n) /\ Cardinality(1..n) = IF 1 > n THEN 0 ELSE n - 1 + 1
    BY <2>1, FS_Interval, Zenon
  <2> QED
    BY <2>1, <2>2
<1>8. ExistsBijection(1..n, ToSet(q))
  BY <1>6 DEF ExistsBijection
<1>9. Cardinality(ToSet(q)) = Cardinality(1..n)
  BY <1>7, <1>8, FS_Bijection
<1> QED
  BY <1>7, <1>9 DEF q, n

\* The deques, the queues of events and the requests are in order for whoever shares
\* them with the handlers, and a handler cancels only what its client has left.
THEOREM HandlersStaySound == Spec => []HandlersAreSound
<1>1. Inv => HandlersAreSound
  <2> SUFFICES ASSUME Inv
               PROVE  TypeOK
    BY DEF Inv, HandlersAreSound
  <2>1. TypeInv /\ DequeInv
    BY DEF Inv
  <2>2. arrival \in [Requests -> 0..Cardinality(Requests)]
    <3> DEFINE Arrived == {q \in Requests : arrival[q] > 0}
    <3>1. IsFiniteSet(Requests) /\ Arrived \subseteq Requests
      BY SyncConfig
    <3>2. /\ Cardinality(Arrived) \in Nat /\ Cardinality(Requests) \in Nat
          /\ Cardinality(Arrived) <= Cardinality(Requests)
      BY <3>1, FS_Subset, FS_CardinalityType
    <3> QED
      BY <2>1, <3>2 DEF TypeInv, DequeInv
  <2>3. \A r \in Requests : ToSet(events[r]) \subseteq Events
    <3> TAKE r \in Requests
    <3>1. events[r] \in Seq(Events)
      BY <2>1 DEF TypeInv
    <3>2. /\ DOMAIN events[r] = 1..Len(events[r])
          /\ \A i \in 1..Len(events[r]) : events[r][i] \in Events
      BY <3>1, LenProperties, ElementOfSeq
    <3> QED
      BY <3>2 DEF ToSet
  <2>4. \A m \in Models : Len(deque[m]) = Cardinality(ToSet(deque[m]))
    BY DequeIsASet
  <2> QED
    BY <2>1, <2>2, <2>3, <2>4 DEF TypeOK, TypeInv, DequeInv
<1> QED
  BY <1>1, InvHolds, PTL

-----------------------------------------------------------------------------
(* The deques as tickets, and as positions *)

\* The first k places, and those before place i, in number.
LEMMA LiveAtGrows ==
  ASSUME NEW q, NEW out, NEW k \in Nat, NEW i \in Nat, i > 0, q[i] \notin out
  PROVE  /\ Cardinality(LiveAt(q, out, k)) \in Nat /\ Cardinality(LiveAt(q, out, i - 1)) \in Nat
         /\ i <= k => Cardinality(LiveAt(q, out, i - 1)) < Cardinality(LiveAt(q, out, k))
         /\ i > k => Cardinality(LiveAt(q, out, k)) <= Cardinality(LiveAt(q, out, i - 1))
<1>1. \A n \in Nat : IsFiniteSet(LiveAt(q, out, n))
  <2> TAKE n \in Nat
  <2>1. 1 \in Int /\ n \in Int
    OBVIOUS
  <2>2. IsFiniteSet(1..n) /\ LiveAt(q, out, n) \in SUBSET (1..n)
    <3>1. IsFiniteSet(1..n)
      BY <2>1, FS_Interval, Zenon
    <3> QED
      BY <3>1 DEF LiveAt
  <2> QED
    BY <2>2, FS_Subset
<1>2. IsFiniteSet(LiveAt(q, out, k)) /\ IsFiniteSet(LiveAt(q, out, i - 1))
  <2>1. i - 1 \in Nat
    OBVIOUS
  <2> QED
    BY <1>1, <2>1
<1>3. Cardinality(LiveAt(q, out, k)) \in Nat /\ Cardinality(LiveAt(q, out, i - 1)) \in Nat
  BY <1>2, FS_CardinalityType
<1>4. ASSUME i <= k
      PROVE  Cardinality(LiveAt(q, out, i - 1)) < Cardinality(LiveAt(q, out, k))
  <2>1. LiveAt(q, out, i - 1) \in SUBSET LiveAt(q, out, k)
    BY <1>4 DEF LiveAt
  <2>2. i \in LiveAt(q, out, k) /\ i \notin LiveAt(q, out, i - 1)
    BY <1>4 DEF LiveAt
  <2>3. /\ Cardinality(LiveAt(q, out, i - 1)) <= Cardinality(LiveAt(q, out, k))
        /\ Cardinality(LiveAt(q, out, i - 1)) # Cardinality(LiveAt(q, out, k))
    BY <1>2, <2>1, <2>2, FS_Subset
  <2> QED
    BY <1>3, <2>3
<1>5. ASSUME i > k
      PROVE  Cardinality(LiveAt(q, out, k)) <= Cardinality(LiveAt(q, out, i - 1))
  <2>1. LiveAt(q, out, k) \in SUBSET LiveAt(q, out, i - 1)
    BY <1>5 DEF LiveAt
  <2> QED
    BY <1>2, <2>1, FS_Subset
<1> QED
  BY <1>3, <1>4, <1>5

\* Places that hold different requests are as many as the requests they hold.
LEMMA AsManyAsPlaces ==
  ASSUME NEW q, NEW J, IsFiniteSet(J), \A i, j \in J : q[i] = q[j] => i = j
  PROVE  Cardinality({q[i] : i \in J}) = Cardinality(J)
<1> DEFINE f == [i \in J |-> q[i]]
           T == {q[i] : i \in J}
<1>1. f \in [J -> T] /\ \A i \in J : f[i] = q[i]
  OBVIOUS
<1>2. f \in Bijection(J, T)
  BY <1>1 DEF Bijection, Injection, Surjection, IsInjective
<1>3. ExistsBijection(J, T)
  BY <1>2 DEF ExistsBijection
<1> QED
  BY <1>3, FS_Bijection

\* A dispatch of `limit` serves the oldest live requests of the deque: those with fewer
\* than `limit` live ones before them by ticket, which are those whose position is less
\* than the number that is taken.
LiveOf(m) == {r \in Queued \ cancelled : ModelOf[r] = m}
Before(r, m) == {x \in LiveOf(m) : arrival[x] < arrival[r]}

Serves(m, limit, pop) ==
    /\ pop.taken = {r \in LiveOf(m) : Cardinality(Before(r, m)) < limit}
    /\ \A r \in LiveOf(m) :
         r \in pop.taken <=> PositionOf(deque[m], cancelled, r) < Cardinality(pop.taken)

LEMMA DispatchServes ==
  ASSUME TypeInv, DequeInv, NEW m \in Models, NEW limit \in Nat
  PROVE  Serves(m, limit, TakeWhile(deque[m], cancelled, limit))
<1> DEFINE q == deque[m]
           n == Len(q)
           pop == TakeWhile(q, cancelled, limit)
           L(j) == LiveAt(q, cancelled, j)
<1>1. /\ q \in Seq(Requests) /\ n \in Nat /\ Ordered(q, arrival)
      /\ arrival \in [Requests -> Nat] /\ \A i \in 1..n : q[i] \in Requests
      /\ ToSet(q) = {q[i] : i \in 1..n}
  <2>1. q \in Seq(Requests)
    BY DEF TypeInv
  <2>2. n \in Nat /\ DOMAIN q = 1..n /\ \A i \in 1..n : q[i] \in Requests
    BY <2>1, LenProperties, ElementOfSeq
  <2> QED
    BY <2>1, <2>2 DEF TypeInv, DequeInv, ToSet
<1>2. \A i, j \in 1..n : q[i] = q[j] => i = j
  BY <1>1, OrderedIsInjective
<1>3. PICK k : TakesTo(q, cancelled, limit, k, pop)
  BY <1>1, TakeWhileTakes, SyncConfig
<1>4. /\ k \in 0..n /\ pop.taken = {q[i] : i \in L(k)}
      /\ \/ Cardinality(L(k)) = limit
         \/ Cardinality(L(k)) < limit /\ k = n
  BY <1>3 DEF TakesTo
<1>5. LiveOf(m) = {q[i] : i \in L(n)}
  <2>1. LiveOf(m) = ToSet(q) \ cancelled
    BY DEF LiveOf, DequeInv
  <2>2. {q[i] : i \in L(n)} = {q[i] : i \in 1..n} \ cancelled
    BY DEF LiveAt
  <2> QED
    BY <1>1, <2>1, <2>2
<1>6. \A j \in 0..n : IsFiniteSet(L(j)) /\ L(j) \subseteq 1..n
  <2> TAKE j \in 0..n
  <2>1. 1 \in Int /\ n \in Int
    BY <1>1
  <2>2. IsFiniteSet(1..n)
    BY <2>1, FS_Interval, Zenon
  <2>3. L(j) \in SUBSET (1..n)
    BY <1>1 DEF LiveAt
  <2> QED
    BY <2>2, <2>3, FS_Subset
<1> HIDE DEF pop
<1>7. ASSUME NEW j \in 0..n
      PROVE  Cardinality({q[i] : i \in L(j)}) = Cardinality(L(j))
  <2>1. IsFiniteSet(L(j)) /\ \A a, b \in L(j) : q[a] = q[b] => a = b
    BY <1>2, <1>6
  <2> HIDE DEF L, q
  <2> QED
    BY <2>1, AsManyAsPlaces
<1>8. Cardinality(pop.taken) = Cardinality(L(k))
  BY <1>4, <1>7
<1>9. ASSUME NEW i \in L(n)
      PROVE  /\ i \in 1..n /\ q[i] \in Requests /\ i - 1 \in 0..n
             /\ q[i] \in pop.taken <=> i <= k
             /\ i <= k <=> Cardinality(L(i - 1)) < Cardinality(L(k))
             /\ i <= k <=> Cardinality(L(i - 1)) < limit
  <2>1. i \in 1..n /\ i \in Nat /\ i > 0 /\ i - 1 \in 0..n /\ q[i] \notin cancelled /\ k \in Nat
    BY <1>1, <1>4 DEF LiveAt
  <2>2. /\ Cardinality(L(k)) \in Nat /\ Cardinality(L(i - 1)) \in Nat
        /\ i <= k => Cardinality(L(i - 1)) < Cardinality(L(k))
        /\ i > k => Cardinality(L(k)) <= Cardinality(L(i - 1))
    BY <2>1, LiveAtGrows
  <2>3. q[i] \in pop.taken <=> i \in L(k)
    BY <1>2, <1>4, <1>6, <2>1
  <2>4. i \in L(k) <=> i <= k
    BY <2>1 DEF LiveAt
  <2> HIDE DEF L
  <2>5. i <= k <=> Cardinality(L(i - 1)) < Cardinality(L(k))
    BY <2>1, <2>2
  <2>6. i <= k <=> Cardinality(L(i - 1)) < limit
    <3>1. i > k => k # n
      BY <1>1, <2>1
    <3> QED
      BY <1>4, <2>1, <2>2, <3>1
  <2> QED
    BY <1>1, <2>1, <2>3, <2>4, <2>5, <2>6
<1>10. ASSUME NEW i \in L(n)
       PROVE  Cardinality(Before(q[i], m)) = Cardinality(L(i - 1))
  <2>1. i \in 1..n /\ i - 1 \in 0..n /\ q[i] \in Requests
    BY <1>9
  <2>2. L(i - 1) = {j \in L(n) : j < i}
    BY <1>1, <2>1 DEF LiveAt
  <2>3. \A j \in L(n) : arrival[q[j]] < arrival[q[i]] <=> j < i
    <3> TAKE j \in L(n)
    <3>1. j \in 1..n /\ q[j] \in Requests /\ arrival[q[j]] \in Nat /\ arrival[q[i]] \in Nat
      BY <1>1, <1>9, <2>1
    <3>2. j < i \/ j = i \/ i < j
      BY <2>1, <3>1
    <3> QED
      BY <1>1, <2>1, <3>1, <3>2 DEF Ordered
  <2>4. Before(q[i], m) = {q[j] : j \in L(i - 1)}
    <3> HIDE DEF L
    <3>1. Before(q[i], m) = {x \in {q[j] : j \in L(n)} : arrival[x] < arrival[q[i]]}
      BY <1>5 DEF Before
    <3> QED
      BY <2>2, <2>3, <3>1
  <2> QED
    BY <1>7, <2>1, <2>4
<1>11. ASSUME NEW i \in L(n)
       PROVE  PositionOf(q, cancelled, q[i]) = Cardinality(L(i - 1))
  <2>1. i \in 1..n
    BY <1>9
  <2> QED
    BY <1>1, <1>2, <2>1, PositionCounts
<1>12. pop.taken \subseteq LiveOf(m)
  <2>1. L(k) \subseteq L(n)
    BY <1>1, <1>4 DEF LiveAt
  <2> HIDE DEF L
  <2> QED
    BY <1>4, <1>5, <2>1
<1> HIDE DEF L, q
<1>13. \A r \in LiveOf(m) : r \in pop.taken <=> Cardinality(Before(r, m)) < limit
  BY <1>5, <1>9, <1>10
<1>14. \A r \in LiveOf(m) :
         r \in pop.taken <=> PositionOf(q, cancelled, r) < Cardinality(pop.taken)
  BY <1>5, <1>8, <1>9, <1>11
<1>15. pop.taken = {r \in LiveOf(m) : Cardinality(Before(r, m)) < limit}
  BY <1>12, <1>13
<1> QED
  BY <1>14, <1>15 DEF Serves, pop, q

\* A client that is told its position is served when that many go before it.
THEOREM PositionsAreHonoured == Spec => PositionIsHonoured
<1> DEFINE Honoured(m) ==
             deque'[m] # deque[m] /\ Running' # Running =>
               LET taken == {r \in Running' \ Running : ModelOf[r] = m} IN
               \A r \in {r \in Queued \ cancelled : ModelOf[r] = m} :
                 r \in taken <=> PositionOf(deque[m], cancelled, r) < Cardinality(taken)
<1>1. ASSUME Inv, Next, NEW m \in Models, deque'[m] # deque[m], Running' # Running
      PROVE  LET taken == {r \in Running' \ Running : ModelOf[r] = m} IN
             \A r \in {r \in Queued \ cancelled : ModelOf[r] = m} :
               r \in taken <=> PositionOf(deque[m], cancelled, r) < Cardinality(taken)
  <2> USE DEF queueVars, lifeVars, eventVars, handlerVars, socketVars
  <2>1. /\ TypeInv /\ DequeInv
        /\ deque \in [Models -> Seq(Requests)] /\ state \in [Requests -> States]
    BY <1>1 DEF Inv, TypeInv
  <2>2. PICK limit \in 0..Cardinality(Requests) : Dispatch(m, limit)
    <3>1. ASSUME NEW r \in Requests, Submit(r)
          PROVE  Running' = Running
      BY <2>1, <3>1 DEF Submit, Running
    <3>2. ASSUME Purge \/ TurnAway
          PROVE  Running' = Running
      BY <2>1, <3>2 DEF Purge, TurnAway, Running, Queued
    <3>3. ASSUME NEW r \in Requests,
                 \/ Leave(r) \/ WatcherNotices(r) \/ GetterTakes(r)
                 \/ HandlerStep(r) \/ Killed(r) \/ ServeStep(r)
          PROVE  deque' = deque
      BY <3>3 DEF Leave, WatcherNotices, GetterTakes, HandlerStep, CollectChunk, CollectEnd,
                  Vanished, StreamOn, Sent, StreamEnds, Killed, ServeStep, Emit, Completes,
                  Fails, CutShort, EndServe
    <3>4. ASSUME Shutdown \/ Over
          PROVE  deque' = deque
      BY <3>4 DEF Shutdown, Over, vars
    <3>5. ASSUME NEW n \in Models, NEW limit, Dispatch(n, limit), n # m
          PROVE  deque'[m] = deque[m]
      BY <2>1, <3>5 DEF Dispatch
    <3> QED
      BY <1>1, <3>1, <3>2, <3>3, <3>4, <3>5 DEF Next
  <2> DEFINE pop == TakeWhile(deque[m], cancelled, limit)
  <2>3. Serves(m, limit, pop) /\ Pops(m, pop)
    <3>1. limit \in Nat
      OBVIOUS
    <3> QED
      BY <2>1, <3>1, DispatchServes, DispatchPops
  <2>4. \A r \in Requests :
          state'[r] = (IF r \in pop.taken THEN "running"
                       ELSE IF r \in pop.dropped THEN "cancelled" ELSE state[r])
    BY <2>2 DEF Dispatch
  <2> HIDE DEF pop
  <2>5. pop.taken = {r \in Running' \ Running : ModelOf[r] = m}
    <3>1. pop.taken \cup pop.dropped \subseteq {r \in Queued : ModelOf[r] = m}
      BY <2>1, <2>3 DEF Pops, DequeInv
    <3> QED
      BY <2>4, <3>1 DEF Running, Queued
  <2> QED
    BY <2>3, <2>5 DEF Serves, LiveOf
<1>2. Inv /\ [Next]_vars => [\A m \in Models : Honoured(m)]_vars
  BY <1>1, Zenon
<1> QED
  BY <1>2, InvHolds, PTL DEF Spec, PositionIsHonoured

\* The deques are tickets: whatever is done to them is one of the moves of TicketQueue.
TicketsOf == UNION {ToSet(deque[m]) : m \in Models}

LEMMA PendingIsQueued ==
  ASSUME DequeInv
  PROVE  TicketsOf = Queued
<1>1. \A m \in Models : ToSet(deque[m]) = {r \in Queued : ModelOf[r] = m}
  BY DEF DequeInv
<1>2. \A r \in Queued : ModelOf[r] \in Models
  BY SyncConfig DEF Queued
<1> QED
  BY <1>1, <1>2 DEF TicketsOf

LEMMA SameCardinality == \A T : Tickets!Cardinality(T) = Cardinality(T)
BY Zenon DEF Tickets!Cardinality, Cardinality

LEMMA TicketStep ==
  ASSUME Inv, Inv', Next
  PROVE  Tickets!Next
<1> USE DEF queueVars, lifeVars, eventVars, handlerVars, socketVars
<1>1. /\ TypeInv /\ DequeInv /\ TicketsOf = Queued /\ TicketsOf' = Queued'
      /\ cancelled \subseteq Requests /\ cancelled' \subseteq Requests
      /\ state \in [Requests -> States] /\ arrival \in [Requests -> Nat]
  <2>1. DequeInv'
    BY DEF Inv
  <2>2. TicketsOf' = Queued'
    BY <2>1, SyncConfig DEF DequeInv, TicketsOf, Queued
  <2> QED
    BY <2>2, PendingIsQueued DEF Inv, TypeInv
<1>2. ASSUME NEW r \in Requests, Submit(r)
      PROVE  Tickets!Enqueue(r)
  <2>1. arrival[r] = 0
    BY <1>1, <1>2 DEF Submit, DequeInv
  <2>2. Queued' = Queued \cup {r}
    BY <1>1, <1>2 DEF Submit, Queued
  <2>3. TicketsOf' = TicketsOf \cup {r}
    BY <1>1, <2>2
  <2> QED
    BY <1>2, <2>1, <2>3, SameCardinality DEF Tickets!Enqueue, TicketsOf, Submit
<1>3. ASSUME NEW m \in Models, NEW limit \in 0..Cardinality(Requests), Dispatch(m, limit)
      PROVE  Tickets!Take(m, limit)
  <2> DEFINE pop == TakeWhile(deque[m], cancelled, limit)
  <2>1. Serves(m, limit, pop) /\ Pops(m, pop)
    <3>1. limit \in Nat
      OBVIOUS
    <3> QED
      BY <1>1, <3>1, DispatchServes, DispatchPops
  <2>2. /\ \A r \in Requests :
             state'[r] = (IF r \in pop.taken THEN "running"
                          ELSE IF r \in pop.dropped THEN "cancelled" ELSE state[r])
        /\ UNCHANGED <<arrival, cancelled>>
    BY <1>3 DEF Dispatch
  <2> HIDE DEF pop
  <2>3. ToSet(deque[m]) \subseteq Queued
    BY <1>1 DEF DequeInv
  <2>4. Queued' = Queued \ (pop.dropped \cup pop.taken)
    BY <2>1, <2>2, <2>3 DEF Queued, Pops
  <2>5. pop.dropped \in SUBSET (TicketsOf \cap cancelled)
    BY <1>1, <2>1, <2>3 DEF Pops
  <2>6. Tickets!Live(m) = LiveOf(m)
    BY <1>1 DEF Tickets!Live, LiveOf, TicketsOf
  <2>7. pop.taken = {r \in Tickets!Live(m) : Cardinality(Tickets!Ahead(r, m)) < limit}
    BY <2>1, <2>6 DEF Serves, Before, Tickets!Ahead
  <2>8. TicketsOf' = TicketsOf \ (pop.dropped \cup
            {r \in Tickets!Live(m) : Cardinality(Tickets!Ahead(r, m)) < limit})
    BY <1>1, <2>4, <2>7
  <2> QED
    BY <2>2, <2>5, <2>8, SameCardinality DEF Tickets!Take, TicketsOf
<1>4. CASE Purge
  <2>1. Queued' = Queued \ cancelled
    BY <1>1, <1>4 DEF Purge, Queued
  <2>2. TicketsOf' = TicketsOf \ cancelled
    BY <1>1, <2>1
  <2>3. Tickets!Purge
    BY <1>4, <2>2 DEF Tickets!Purge, TicketsOf, Purge
  <2> QED
    BY <2>3 DEF Tickets!Next
<1>5. CASE TurnAway
  <2>1. Queued' = {}
    BY <1>1, <1>5 DEF TurnAway, Queued
  <2>2. TicketsOf' = {}
    BY <1>1, <2>1
  <2>3. Tickets!Close
    BY <1>5, <2>2 DEF Tickets!Close, TicketsOf, TurnAway
  <2> QED
    BY <2>3 DEF Tickets!Next
<1>6. ASSUME deque' = deque, arrival' = arrival, cancelled \subseteq cancelled'
      PROVE  Tickets!Depart
  BY <1>1, <1>6 DEF Tickets!Depart
<1>7. ASSUME NEW r \in Requests,
             \/ Leave(r) \/ WatcherNotices(r) \/ GetterTakes(r)
             \/ HandlerStep(r) \/ Killed(r) \/ ServeStep(r)
      PROVE  deque' = deque /\ arrival' = arrival /\ cancelled \subseteq cancelled'
  BY <1>7 DEF Leave, WatcherNotices, GetterTakes, HandlerStep, CollectChunk, CollectEnd,
              Vanished, StreamOn, Sent, StreamEnds, Finally, Killed, ServeStep, Emit,
              Completes, Fails, CutShort, EndServe
<1>8. CASE Shutdown \/ Over
  BY <1>6, <1>8 DEF Shutdown, Over, vars, Tickets!Next
<1>9. ASSUME NEW r \in Requests, Tickets!Enqueue(r)
      PROVE  Tickets!Next
  BY <1>9 DEF Tickets!Next
<1>10. ASSUME NEW m \in Models, NEW limit \in 0..Cardinality(Requests), Tickets!Take(m, limit)
       PROVE  Tickets!Next
  BY <1>10, SameCardinality DEF Tickets!Next
<1>11. ASSUME Tickets!Depart
       PROVE  Tickets!Next
  BY <1>11 DEF Tickets!Next
<1>12. ASSUME NEW r \in Requests,
              \/ Submit(r) \/ Leave(r) \/ WatcherNotices(r) \/ GetterTakes(r)
              \/ HandlerStep(r) \/ Killed(r) \/ ServeStep(r)
       PROVE  Tickets!Next
  BY <1>2, <1>6, <1>7, <1>9, <1>11, <1>12, Zenon
<1>13. ASSUME NEW m \in Models, NEW limit \in 0..Cardinality(Requests), Dispatch(m, limit)
       PROVE  Tickets!Next
  BY <1>3, <1>10, <1>13, Zenon
<1> QED
  BY <1>4, <1>5, <1>8, <1>12, <1>13, Zenon DEF Next

THEOREM DequesAreTickets == Spec => ImplementsTickets
<1>1. Init => Tickets!Init
  <2> SUFFICES ASSUME Init
               PROVE  Tickets!Init
    OBVIOUS
  <2>1. DequeInv /\ Queued = {}
    BY InvInit DEF Inv, Init, Queued
  <2>2. TicketsOf = {}
    BY <2>1, PendingIsQueued
  <2> QED
    BY <2>2 DEF Tickets!Init, TicketsOf, Init
<1>2. Inv /\ Inv' /\ [Next]_vars => [Tickets!Next]_(Tickets!vars)
  <2>1. CASE UNCHANGED vars
    BY <2>1 DEF vars, queueVars, lifeVars, Tickets!vars
  <2> QED
    BY <2>1, TicketStep
<1> QED
  BY <1>1, <1>2, InvHolds, PTL DEF Spec, ImplementsTickets, Tickets!Spec

-----------------------------------------------------------------------------
(* Each request lives as RequestLife has it *)

Lives(r) == Life!Leads(r, state'[r], terminator'[r])
Rests(r) == state'[r] = state[r] /\ terminator'[r] = terminator[r]

\* A step that cancels nobody, and in which each request rests or does what it may.
LEMMA MovesOfALife ==
  ASSUME Inv', cancelled' = cancelled, \A r \in Requests : Rests(r) \/ Lives(r)
  PROVE  Life!Next
<1>1. /\ state' \in [Requests -> Life!States]
      /\ terminator' \in [Requests -> Life!Terminators]
  BY DEF Inv, TypeInv, States, Terminators, Life!States, Life!Terminators
<1> QED
  BY <1>1 DEF Rests, Lives, Life!Next, Life!Silent

\* A step that only cancels, or not even that.
LEMMA DepartsOfALife ==
  ASSUME UNCHANGED <<state, terminator>>, cancelled \subseteq cancelled'
  PROVE  Life!Next
BY DEF Life!Next

LEMMA LifeOfRequests ==
  ASSUME Inv, Inv', NEW r \in Requests,
         \/ Submit(r) \/ Leave(r) \/ WatcherNotices(r) \/ GetterTakes(r)
         \/ HandlerStep(r) \/ Killed(r) \/ ServeStep(r)
  PROVE  Life!Next
<1>0. /\ state \in [Requests -> States] /\ terminator \in [Requests -> Terminators]
      /\ LifeInv(r)
  BY DEF Inv, TypeInv
<1>1. CASE Submit(r)
  <2>1. Lives(r)
    BY <1>0, <1>1 DEF Submit, Lives, Life!Leads, Life!Submitted, Life!Silent
  <2>2. cancelled' = cancelled /\ \A q \in Requests \ {r} : Rests(q)
    BY <1>0, <1>1 DEF Submit, Rests
  <2> QED
    BY <2>1, <2>2, MovesOfALife
<1>2. CASE Completes(r) \/ Fails(r) \/ CutShort(r)
  <2>1. /\ state[r] = "running" /\ terminator[r] = "none"
    BY <1>0, <1>2 DEF Completes, Fails, CutShort, Running, LifeInv
  <2>2. cancelled' = cancelled /\ \A q \in Requests \ {r} : Rests(q)
    BY <1>0, <1>2 DEF Completes, Fails, CutShort, EndServe, Rests
  <2>3. \/ state'[r] = "done" /\ terminator'[r] = "end" /\ r \notin cancelled
        \/ state'[r] = "failed" /\ terminator'[r] = "error"
        \/ state'[r] = "cancelled" /\ terminator'[r] = "none"
    BY <1>0, <1>2 DEF Completes, Fails, CutShort, EndServe
  <2>4. Lives(r)
    BY <2>1, <2>3 DEF Lives, Life!Leads, Life!Completed, Life!Failed, Life!CutShort,
                      Life!Silent
  <2> QED
    BY <2>2, <2>4, MovesOfALife
<1>3. CASE Leave(r) \/ WatcherNotices(r) \/ GetterTakes(r) \/ Emit(r)
  <2>1. UNCHANGED <<state, terminator, cancelled>>
    BY <1>3 DEF Leave, WatcherNotices, GetterTakes, Emit, lifeVars
  <2> QED
    BY <2>1, DepartsOfALife
<1>4. CASE HandlerStep(r) \/ Killed(r)
  <2>1. UNCHANGED <<state, terminator>> /\ cancelled \subseteq cancelled'
    BY <1>4 DEF HandlerStep, CollectChunk, CollectEnd, Vanished, StreamOn, Sent,
                StreamEnds, Killed, Finally, lifeVars
  <2> QED
    BY <2>1, DepartsOfALife
<1> QED
  BY <1>1, <1>2, <1>3, <1>4 DEF ServeStep

LEMMA LifeOfDeques ==
  ASSUME Inv, Inv',
         \/ Purge \/ TurnAway
         \/ \E m \in Models, limit \in 0..Cardinality(Requests) : Dispatch(m, limit)
  PROVE  Life!Next
<1>1. CASE Purge
  <2>1. \A r \in Requests : Rests(r) \/ Lives(r)
    BY <1>1 DEF Purge, lifeVars, Queued, Rests, Lives, Life!Leads, Life!Purged, Life!Silent
  <2> QED
    BY <1>1, <2>1, MovesOfALife DEF Purge
<1>2. CASE TurnAway
  <2>1. \A r \in Requests : Rests(r) \/ Lives(r)
    BY <1>2 DEF TurnAway, Queued, Rests, Lives, Life!Leads, Life!TurnedAway
  <2> QED
    BY <1>2, <2>1, MovesOfALife DEF TurnAway
<1>3. ASSUME NEW m \in Models, NEW limit \in 0..Cardinality(Requests), Dispatch(m, limit)
      PROVE  Life!Next
  <2> DEFINE pop == TakeWhile(deque[m], cancelled, limit)
  <2>1. Pops(m, pop)
    <3>1. limit \in Nat
      OBVIOUS
    <3> QED
      BY <3>1, DispatchPops DEF Inv
  <2>2. /\ \A r \in Requests :
             state'[r] = (IF r \in pop.taken THEN "running"
                          ELSE IF r \in pop.dropped THEN "cancelled" ELSE state[r])
        /\ UNCHANGED <<terminator, cancelled>>
    BY <1>3 DEF Dispatch
  <2> HIDE DEF pop
  <2>3. /\ \A r \in pop.taken : state[r] = "queued" /\ r \notin cancelled
        /\ \A r \in pop.dropped : state[r] = "queued" /\ r \in cancelled
    BY <2>1 DEF Pops, Inv, DequeInv, Queued
  <2>4. \A r \in Requests : Rests(r) \/ Lives(r)
    BY <2>2, <2>3 DEF Rests, Lives, Life!Leads, Life!Purged, Life!Dispatched, Life!Silent
  <2> QED
    BY <2>2, <2>4, MovesOfALife
<1> QED
  BY <1>1, <1>2, <1>3

\* Handlers and deques between them leave each request the life that the Engine module
\* gives it, so what is proved here holds beside that engine.
THEOREM LivesAreLed == Spec => ImplementsRequestLife
<1>1. Init => Life!Init
  BY DEF Init, Life!Init
<1>2. ASSUME Inv, Inv', [Next]_vars
      PROVE  [Life!Next]_(Life!vars)
  <2>1. CASE Shutdown \/ Over \/ UNCHANGED vars
    <3>1. UNCHANGED <<state, terminator, cancelled>>
      BY <2>1 DEF Shutdown, Over, vars, lifeVars
    <3> QED
      BY <3>1 DEF Life!vars
  <2> QED
    BY <1>2, <2>1, LifeOfRequests, LifeOfDeques DEF Next
<1>3. Inv /\ Inv' /\ [Next]_vars => [Life!Next]_(Life!vars)
  BY <1>2
<1> QED
  BY <1>1, <1>3, InvHolds, PTL DEF Spec, ImplementsRequestLife, Life!Spec

\* What the handlers share with the engine is as the Engine module has it.
THEOREM QueuesStaySound == Spec => QueuesAreSound
<1> QED
  BY DequesAreTickets, LivesAreLed, PositionsAreHonoured DEF QueuesAreSound
=============================================================================
