---------------------------- MODULE RequestLife ----------------------------
(***************************************************************************)
(* What the engine promises about each request to those who read its event  *)
(* queue: its state only moves on, and the queue gets at most one terminator,*)
(* which agrees with the state.  The Engine module implements this one       *)
(* (EngineProperties), and the JobStore module is built on it.               *)
(***************************************************************************)
CONSTANTS Requests

VARIABLES state,      \* QueuedRequest.state
          cancelled,  \* requests whose QueuedRequest.cancelled is set
          terminator  \* the terminator put on QueuedRequest.events, if any

vars == <<state, cancelled, terminator>>

States == {"new", "queued", "running", "done", "failed", "cancelled"}
Terminators == {"none", "end", "error"}

Init ==
    /\ state = [r \in Requests |-> "new"]
    /\ cancelled = {}
    /\ terminator = [r \in Requests |-> "none"]

Silent(r, t) == t = terminator[r]

\* The engine may take request r to state s, with t last on its queue.
Submitted(r, s, t) == state[r] = "new" /\ s = "queued" /\ Silent(r, t)
Dispatched(r, s, t) ==
    state[r] = "queued" /\ r \notin cancelled /\ s = "running" /\ Silent(r, t)
Purged(r, s, t) ==
    state[r] = "queued" /\ r \in cancelled /\ s = "cancelled" /\ Silent(r, t)
TurnedAway(r, s, t) == state[r] = "queued" /\ s = "cancelled" /\ t = "error"
Completed(r, s, t) ==
    state[r] = "running" /\ r \notin cancelled /\ s = "done" /\ t = "end"
Failed(r, s, t) == state[r] = "running" /\ s = "failed" /\ t = "error"
CutShort(r, s, t) == state[r] = "running" /\ s = "cancelled" /\ Silent(r, t)

Leads(r, s, t) ==
    \/ Submitted(r, s, t) \/ Dispatched(r, s, t) \/ Purged(r, s, t)
    \/ TurnedAway(r, s, t) \/ Completed(r, s, t) \/ Failed(r, s, t)
    \/ CutShort(r, s, t)

\* A step of the engine moves any number of requests; a step of a client only cancels.
Next ==
    \/ /\ cancelled' = cancelled
       /\ state' \in [Requests -> States] /\ terminator' \in [Requests -> Terminators]
       /\ \A r \in Requests :
            \/ state'[r] = state[r] /\ Silent(r, terminator'[r])
            \/ Leads(r, state'[r], terminator'[r])
    \/ /\ cancelled \subseteq cancelled'
       /\ UNCHANGED <<state, terminator>>

Spec == Init /\ [][Next]_vars
=============================================================================
