--------------------------- MODULE VllmProperties ---------------------------
(***************************************************************************)
(* What the vLLM backends promise to the engine, stated over Vllm.          *)
(***************************************************************************)
EXTENDS Vllm

\* Every variable holds a value of its kind; the engine makes no call while a model is
\* resident, and generates only on a resident.
TypeOK ==
    /\ container \in [Models -> {"down", "loading", "up", "dying", "fading"}]
    /\ {resident, target} \subseteq Models \cup {None}
    /\ call.op \in {"none", "start", "stop"} /\ call.model \in Models \cup {None}
    /\ call.nap \in 0..ReadyPoll /\ call.ask \in 0..HealthTime
    /\ call # NoCall => call.model # None /\ resident = None
    /\ stream = "reading" => resident # None
    /\ sent \subseteq {"reason", "usage"} /\ heard \subseteq sent

\* "Waiting for the port to stop answering is what keeps the next model's load from racing
\* this one's teardown": the owned containers on the GPU are those of the resident, or of
\* the model of the call in progress, and no others.  Excused is what the code cannot help
\* or lets pass: a daemon that fails, a teardown that outlasts stop_timeout_seconds, a
\* /health that is not answered in time, a router that restarts, and the stop of a
\* container that was still loading, for which there is no answer to wait out.
GpuFollowsTheEngine ==
    faults = {} =>
      \A m \in Owned : Holds(m) => m = (IF call = NoCall THEN resident ELSE call.model)

\* "Do not return until that is actually true": a model becomes resident only while its
\* /health answers.
StartedServes ==
    [][resident' # resident /\ resident' # None => Answers(resident')]_vars

\* _await_health reads its deadline only between a /health and a sleep: it gives up less
\* than one poll and one /health after it.
InTime == call.left > -(ReadyPoll + HealthTime)

\* start and stop return, whatever the daemon and the containers do: a switch ends, which
\* the Engine module assumes as fairness.
CallsReturn == call # NoCall ~> call = NoCall

\* A call returns, and in time.
CallsReturnInTime == [](TypeOK /\ InTime) /\ CallsReturn

\* "The real finish reason, the real token counts": a generation that ends well carries
\* all that its upstream has said of its end, in whatever order that came.
EndIsComplete == stream = "ended" /\ upstream = "complete" => heard = sent
=============================================================================
