----------------------------- MODULE MCJobStore -----------------------------
(* Instances of the JobStore for TLC: two or three jobs, with keys and without. *)
EXTENDS JobProperties

CONSTANTS j1, j2, j3, key

Two == {j1, j2}
Three == {j1, j2, j3}

NoKeys == [j \in Ids |-> NoKey]
SharedKey == [j \in Ids |-> IF j = j3 THEN NoKey ELSE key]
FirstSpeaks == [j \in {j1, j2, j3} |-> IF j = j1 THEN 1 ELSE 0]
Silence == [j \in {j1, j2} |-> 0]
=============================================================================
