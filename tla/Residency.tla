----------------------------- MODULE Residency -----------------------------
(***************************************************************************)
(* What the engine promises about the one GPU, and nothing about how: it    *)
(* has at most one holder; requests generate only on a holder that serves,  *)
(* only once, and only its own; and the holder keeps serving while any of   *)
(* them does.  The Engine module implements this one (EngineProperties).    *)
(***************************************************************************)
CONSTANTS Models, None, Requests, ModelOf

VARIABLES holder,   \* the model whose backend occupies the GPU, or None
          serving,  \* whether that backend is loaded and takes requests
          waiting,  \* the requests that have neither started nor been withdrawn
          active    \* the requests that are generating

vars == <<holder, serving, waiting, active>>

Init == holder = None /\ serving = FALSE /\ waiting = Requests /\ active = {}

\* A backend that does not serve gives the GPU to another, or to none.
Move(h) ==
    /\ ~serving
    /\ holder' = h
    /\ UNCHANGED <<serving, waiting, active>>

\* The load is over.
Ready ==
    /\ ~serving /\ holder # None
    /\ serving' = TRUE
    /\ UNCHANGED <<holder, waiting, active>>

\* The holder stops serving only when nothing generates on it; it may leave at once.
Retire(h) ==
    /\ serving /\ active = {}
    /\ h \in {holder, None}
    /\ serving' = FALSE /\ holder' = h
    /\ UNCHANGED <<waiting, active>>

\* Some of the holder's requests start, and others are withdrawn unstarted.
Start(R, W) ==
    /\ R \cap W = {}
    /\ R # {} => serving
    /\ \A r \in R : ModelOf[r] = holder
    /\ active' = active \cup R
    /\ waiting' = waiting \ (R \cup W)
    /\ UNCHANGED <<holder, serving>>

Finish(r) ==
    /\ active' = active \ {r}
    /\ UNCHANGED <<holder, serving, waiting>>

Next ==
    \/ \E h \in Models \cup {None} : Move(h) \/ Retire(h)
    \/ Ready
    \/ \E R, W \in SUBSET waiting : Start(R, W)
    \/ \E r \in active : Finish(r)

Spec == Init /\ [][Next]_vars
=============================================================================
