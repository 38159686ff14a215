-------------------------- MODULE EngineInvariant --------------------------
(***************************************************************************)
(* The inductive invariant of Engine: what is true at each await of the     *)
(* control loop, which the properties of EngineProperties follow from.      *)
(***************************************************************************)
EXTENDS EngineProperties

\* Who is on the GPU at each await, and which model the loop is moving.
GpuInv ==
    /\ resident # None =>
         gpu = {resident}
         /\ pc \in {"top", "wait", "containing", "draining", "stopping", "unwinding"}
    /\ pc \in {"containing", "unwinding"} => resident # None
    /\ pc \in {"top", "wait", "resume", "draining"} /\ resident = None => gpu = {}
    /\ pc \in {"evicting", "unloading"} => leaving \in Models /\ gpu = {leaving}
    /\ pc \in {"loading", "cleanup"} => gpu = {target}
    /\ IF pc \in Switching THEN target \in Models \ {resident} ELSE target = None
    /\ pc \notin {"evicting", "unloading"} => leaving = None
    /\ \A m, n \in gpu : m = n

\* Every request is in exactly the places its state says.
TaskInv ==
    /\ pending = {r \in Requests : state[r] = "queued"}
    /\ \A r \in Running : r \in inFlight /\ ModelOf[r] = resident
    /\ \A r \in inFlight : state[r] \notin {"new", "queued"}
    /\ \A r \in Requests : terminator[r] = "none" \/ state[r] \in Terminal
    /\ cancelSent \subseteq Running
    /\ pc \in {"containing", "stopping"} => Running \subseteq cancelSent
    /\ pc = "unwinding" => Running = {}

\* A crash is reported by tasks of one model, and while a model is resident and not being
\* contained it is in no backoff.
FailureInv ==
    /\ \A m, n \in failed : m = n
    /\ \A m \in failed, r \in Running : ModelOf[r] = m
    /\ pc \in {"containing", "evicting", "resume"} => failed = {}
    /\ pc \notin Stopping \cup {"containing"} /\ resident # None => backoff[resident] = 0

\* The idle clock of a resident never outruns its residency, and runs while the loop waits
\* only if nothing is in flight.
IdleInv ==
    /\ resident # None /\ idle # NotIdle => idle <= residency
    /\ pc = "wait" /\ idle # NotIdle => resident # None /\ inFlight = {}

IInv == TypeOK /\ GpuInv /\ TaskInv /\ FailureInv /\ IdleInv
=============================================================================
