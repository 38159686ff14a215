----------------------------- MODULE JobService -----------------------------
(***************************************************************************)
(* What the router promises to the clients of its jobs: what GET says of    *)
(* each of them, and how that changes.  JobStore implements it              *)
(* (JobProperties); the client (Client) is built on it.                     *)
(***************************************************************************)
CONSTANTS Ids,           \* every job that may ever be created
          KeyOf, NoKey   \* the idempotency key a job is created under

VARIABLES view           \* of each job: new, a status, or gone

Live == {"queued", "running"}
Ended == {"done", "failed", "cancelled"}
Views == Live \cup Ended \cup {"new", "gone"}

Init == view = [j \in Ids |-> "new"]

\* The jobs that a submission under key k would be answered with.
Holding(k) == {j \in Ids : k # NoKey /\ KeyOf[j] = k /\ view[j] \in Live \cup Ended}

\* What one step may do to one job.  A job that is created finds nobody holding its key;
\* only what has ended is forgotten; a result may still be cancelled by its client.
Accepted(j, v) == view[j] = "new" /\ v = "queued" /\ Holding(KeyOf[j]) = {}
Refused(j, v) == view[j] = "new" /\ v = "gone"
Progresses(j, v) ==
    \/ view[j] = "queued" /\ v = "running"
    \/ view[j] = "running" /\ v \in {"done", "failed"}
    \/ view[j] \in Live /\ v = "cancelled"
Deleted(j, v) == view[j] \in Live \cup {"done", "failed"} /\ v = "cancelled"
Forgotten(j, v) == view[j] \in Ended /\ v = "gone"
Leads(j, v) ==
    Accepted(j, v) \/ Refused(j, v) \/ Progresses(j, v) \/ Deleted(j, v) \/ Forgotten(j, v)

\* A router that restarts knows none of its jobs.
Restart == view' = [j \in Ids |-> IF view[j] = "new" THEN "new" ELSE "gone"]

Next ==
    \/ view' \in [Ids -> Views] /\ \A j \in Ids : view'[j] = view[j] \/ Leads(j, view'[j])
    \/ Restart

Spec == Init /\ [][Next]_view
=============================================================================
