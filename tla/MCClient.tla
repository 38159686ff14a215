------------------------------ MODULE MCClient ------------------------------
(* Two runs, a router that may restart, and another host. *)
EXTENDS ClientProperties

CONSTANTS a, b, j1, j2, j3, j4, key, chat, code, sir, vllm

KeyOfEach == [j \in Ids |-> IF j \in {j3, j4} THEN NoKey ELSE key]
KeyOfRun == [c \in Callers |-> IF c = b THEN NoKey ELSE key]
Listed == [h \in Hosts |-> IF h = sir THEN {chat} ELSE {chat, code}]
=============================================================================
