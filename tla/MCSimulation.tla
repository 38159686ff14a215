---------------------------- MODULE MCSimulation ----------------------------
(* A backend that is loaded, loaded again, used twice and unloaded, beside a task that
   waits for something other than the clock. *)
EXTENDS SimulationProperties

CONSTANTS up, again, one, two, down, ever

KindOf == [t \in Tasks |->
    CASE t \in {up, again} -> "start" [] t = down -> "stop" [] t = ever -> "event" [] OTHER -> "stream"]
=============================================================================
