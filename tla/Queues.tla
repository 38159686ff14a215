------------------------------- MODULE Queues -------------------------------
(***************************************************************************)
(* ModelQueues (src/src/sir/queues.py): one deque per model, as operators   *)
(* on a sequence `q` of requests and the set `gone` of those that were      *)
(* cancelled, which every read skips.                                       *)
(***************************************************************************)
EXTENDS Integers, FiniteSets, Sequences, SequencesExt

Nothing == "nothing"

\* What a read sees of a deque: its live entries, in their order.
LiveIn(q, gone) ==
    LET live[i \in 0..Len(q)] ==
          IF i = 0 THEN <<>>
          ELSE IF q[i] \in gone THEN live[i - 1] ELSE Append(live[i - 1], q[i])
    IN live[Len(q)]
Depth(q, gone) == Len(LiveIn(q, gone))

\* Where r stands among the live entries of a deque that holds it.
PositionOf(q, gone, r) == Depth(SubSeq(q, 1, SelectInSeq(q, LAMBDA x : x = r) - 1), gone)

FromTheWrongEnd(q, gone) ==                          \* mutant of NextFor
    LET last == SelectLastInSeq(q, LAMBDA r : r \notin gone) IN
    IF last = 0 THEN [request |-> Nothing, rest |-> <<>>, dropped |-> ToSet(q)]
    ELSE [request |-> q[last], rest |-> SubSeq(q, 1, last - 1),
          dropped |-> ToSet(SubSeq(q, last + 1, Len(q)))]

\* next_for: entries are popped up to the first live one, which is handed out; the
\* cancelled ones before it are dropped.
NextFor(q, gone) ==
    LET first == SelectInSeq(q, LAMBDA r : r \notin gone) IN
    IF first = 0 THEN [request |-> Nothing, rest |-> <<>>, dropped |-> ToSet(q)]
    ELSE [request |-> q[first], rest |-> SubSeq(q, first + 1, Len(q)),
          dropped |-> ToSet(SubSeq(q, 1, first - 1))]

\* take_while: next_for up to `limit` times.
TakeWhile(q, gone, limit) ==
    LET take[n \in 0..limit] ==
          IF n = 0 THEN [taken |-> {}, rest |-> q, dropped |-> {}]
          ELSE LET next == NextFor(take[n - 1].rest, gone) IN
               [taken   |-> take[n - 1].taken \cup ({next.request} \ {Nothing}),
                rest    |-> next.rest,
                dropped |-> take[n - 1].dropped \cup next.dropped]
    IN take[limit]
=============================================================================
