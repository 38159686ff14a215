---------------------------- MODULE MCPolicyWorld ----------------------------
(* Instances of PolicyWorld: three models that differ in priority and cost. *)
EXTENDS PolicyWorld, TLC

CONSTANTS chat, code, embed

ThreeModels == {chat, code, embed}
ThreeRanks == chat :> 1 @@ code :> 2 @@ embed :> 3
ThreePriorities == chat :> 1 @@ code :> 2 @@ embed :> 1
ThreeMeans == chat :> 1 @@ code :> 2 @@ embed :> 0
ThreeCosts == chat :> 1 @@ code :> 2 @@ embed :> 0
=============================================================================
