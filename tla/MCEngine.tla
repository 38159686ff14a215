------------------------------ MODULE MCEngine ------------------------------
(* Instances of the Engine for TLC: one or two models, up to four requests. *)
EXTENDS EngineProperties, TLC

CONSTANTS chat, code, c1, c2, c3, d1

TwoModels == {chat, code}
TwoRanks == chat :> 1 @@ code :> 2
TwoPriorities == chat :> 1 @@ code :> 2
TwoCosts == chat :> 1 @@ code :> 1
OneModel == {chat}
OneRank == chat :> 1
OnePriority == chat :> 1
OneCost == chat :> 1

\* Two or three requests for one model and one for the other.
Four == {c1, c2, c3, d1}
FourModelOf == c1 :> chat @@ c2 :> chat @@ c3 :> chat @@ d1 :> code
Three == {c1, c2, d1}
ThreeModelOf == c1 :> chat @@ c2 :> chat @@ d1 :> code
TwoApart == {c1, d1}
TwoApartModelOf == c1 :> chat @@ d1 :> code
TwoTogether == {c1, c2}
TwoTogetherModelOf == c1 :> chat @@ c2 :> chat
=============================================================================
