----------------------------- MODULE MCSyncPath -----------------------------
(* Two requests for one model, the first of them a stream. *)
EXTENDS SyncProperties

CONSTANTS m1, r1, r2

OneModel == [r \in Requests |-> m1]
=============================================================================
