------------------------------- MODULE MCVllm -------------------------------
(* Two owned models and an adopted one. *)
EXTENDS VllmProperties

CONSTANTS chat, code, shared
=============================================================================
