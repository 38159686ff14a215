----------------------------- MODULE TicketQueue -----------------------------
(***************************************************************************)
(* The queues in front of the GPU as the scheduler thinks of them, and as   *)
(* the Engine module keeps them: sets of requests with tickets.  A request  *)
(* takes a ticket on arrival; the oldest whose client is still there go     *)
(* first; those whose client has left may go at any time.                   *)
(***************************************************************************)
EXTENDS Integers, FiniteSets

CONSTANTS Models, Requests, ModelOf

VARIABLES pending,    \* the requests in a queue
          arrival,    \* a request's ticket, 0 before it has one
          cancelled   \* the requests whose client has left

vars == <<pending, arrival, cancelled>>

Init == pending = {} /\ arrival = [r \in Requests |-> 0] /\ cancelled = {}

Live(m) == {r \in pending \ cancelled : ModelOf[r] = m}
Ahead(r, m) == {q \in Live(m) : arrival[q] < arrival[r]}

Enqueue(r) ==
    /\ arrival[r] = 0
    /\ arrival' = [arrival EXCEPT ![r] = 1 + Cardinality({q \in Requests : arrival[q] > 0})]
    /\ pending' = pending \cup {r}
    /\ UNCHANGED cancelled

\* Up to n requests of model m are handed out, oldest first.
Take(m, n) ==
    /\ \E ghosts \in SUBSET (pending \cap cancelled) :
         pending' = pending \ (ghosts \cup {r \in Live(m) : Cardinality(Ahead(r, m)) < n})
    /\ UNCHANGED <<arrival, cancelled>>

Purge ==
    /\ pending' = pending \ cancelled
    /\ UNCHANGED <<arrival, cancelled>>

Close ==
    /\ pending' = {}
    /\ UNCHANGED <<arrival, cancelled>>

Depart ==
    /\ cancelled \subseteq cancelled' /\ cancelled' \subseteq Requests
    /\ UNCHANGED <<pending, arrival>>

Next ==
    \/ \E r \in Requests : Enqueue(r)
    \/ \E m \in Models, n \in 0..Cardinality(Requests) : Take(m, n)
    \/ Purge \/ Close \/ Depart

Spec == Init /\ [][Next]_vars
=============================================================================
