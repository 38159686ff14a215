-------------------------------- MODULE Vllm --------------------------------
(***************************************************************************)
(* The vLLM backends (src/src/sir/backends/vllm.py), one per model, as the   *)
(* engine calls them when it swaps, contains a crash and stops, over the     *)
(* containers and the Docker daemon they drive.  The engine makes one call   *)
(* at a time; a call posts to the daemon and then polls /health.             *)
(***************************************************************************)
EXTENDS Integers, FiniteSets

CONSTANTS
    Models, None,
    Owned,          \* manage_lifecycle: true; the others are adopted
    StartTimeout, StopTimeout, ReadyPoll,   \* VllmParams, in the clock's unit
    HealthTime      \* the longest that one GET /health takes to answer or to time out

ASSUME VllmConfig ==
    /\ Owned \subseteq Models /\ None \notin Models
    /\ StartTimeout \in Nat \ {0} /\ StopTimeout \in Nat \ {0} /\ ReadyPoll \in Nat \ {0}
    /\ HealthTime \in Nat

VARIABLES
    container,   \* of each model: down, loading, up, dying, fading
    resident,    \* Engine._resident
    target,      \* the model a switch is to load after the call in progress, or None
    call,        \* the call in progress: op, model, whether it polls yet, the time left to its
                 \* deadline, to its next poll, and the time its /health has taken so far
    faults,      \* what has gone wrong that stop() cannot make up for
    stream,      \* a generation: none, reading, ended, failed
    upstream,    \* its upstream answer: none, open, complete, broken
    sent,        \* what that answer has said so far: reason, usage
    heard        \* finish_reason and usage, as stream() has heard of them

callVars == <<resident, target, call>>
streamVars == <<stream, upstream, sent, heard>>
vars == <<container, callVars, faults, streamVars>>

CallOf(op, m) ==
    [op |-> op, model |-> m, polls |-> FALSE, left |-> 0, nap |-> 0, ask |-> 0]
NoCall == CallOf("none", None)

\* The containers exist and are down, those of adopted models in any state.
Init ==
    /\ container \in [Models -> {"down", "up"}] /\ \A m \in Owned : container[m] = "down"
    /\ resident = None /\ target = None /\ call = NoCall /\ faults = {}
    /\ stream = "none" /\ upstream = "none" /\ sent = {} /\ heard = {}

-----------------------------------------------------------------------------
(* The containers and the daemon *)

\* All but a container that is down hold GPU memory.  One that was up answers until it is
\* gone (dying); one that is stopped while it loads never answers (fading).
Holds(m) == container[m] # "down"
Answers(m) == container[m] \in {"up", "dying"}

Becomes(m, status) ==
    /\ container' = [container EXCEPT ![m] = status]
    /\ UNCHANGED <<callVars, faults, streamVars>>

\* A container finishes loading, or is gone; an adopted one comes and goes as it likes.
ComesUp(m) == container[m] = "loading" /\ Becomes(m, "up")
Goes(m) == container[m] # "down" /\ Becomes(m, "down")
IsStarted(m) == m \notin Owned /\ container[m] = "down" /\ Becomes(m, "loading")

\* What the daemon makes of a container; one that it stops may take its time to go.
Effects(action, status) ==
    CASE action = "start" -> {IF status = "down" THEN "loading" ELSE status}
      [] action = "stop" /\ status = "up" -> {"down", "dying"}
      [] action = "stop" /\ status = "loading" -> {"down", "fading"}
      [] OTHER -> {status}

-----------------------------------------------------------------------------
(* The engine's calls *)

Calls(op, m) == call' = CallOf(op, m)

\* _switch: the resident is unloaded, then the target is loaded.
Switch(t) ==
    /\ call = NoCall /\ t # resident /\ stream # "reading"
    /\ target' = t
    /\ IF resident = None THEN Calls("start", t) ELSE Calls("stop", resident)
    /\ resident' = None
    /\ UNCHANGED <<container, faults, streamVars>>

\* _handle_failures, after a stream has failed, and Engine.stop: the resident is stopped.
Unload ==
    /\ call = NoCall /\ resident # None /\ stream # "reading"
    /\ Calls("stop", resident)
    /\ resident' = None /\ target' = None
    /\ UNCHANGED <<container, faults, streamVars>>

\* The call returns: a loaded target is resident, a target that failed to load is
\* stopped, and after a stop the target, if there is one, is loaded.
Returns(ok) ==
    IF call.op = "stop"
    THEN /\ call' = IF target = None THEN NoCall ELSE CallOf("start", target)
         /\ UNCHANGED <<resident, target>>
    ELSE /\ target' = None
         /\ IF ok THEN resident' = call.model /\ call' = NoCall
            ELSE Calls("stop", call.model) /\ UNCHANGED resident

\* The router dies, or its stop() meets a call in progress and cancels it; the next one
\* knows of no resident.
RouterRestarts ==
    /\ "restart" \notin faults /\ faults' = faults \cup {"restart"}
    /\ resident' = None /\ target' = None /\ call' = NoCall
    /\ stream' = "none" /\ upstream' = "none" /\ sent' = {} /\ heard' = {}
    /\ UNCHANGED container

-----------------------------------------------------------------------------
(* start and stop *)

Timeout == IF call.op = "start" THEN StartTimeout ELSE StopTimeout

\* _await_health begins.
Awaits == call' = [call EXCEPT !.polls = TRUE, !.left = Timeout, !.nap = 0, !.ask = 0]

\* Adopted: start only waits, stop does nothing.
NotOurs ==
    /\ call # NoCall /\ ~call.polls /\ call.model \notin Owned
    /\ IF call.op = "start" THEN Awaits /\ UNCHANGED <<resident, target>> ELSE Returns(TRUE)
    /\ UNCHANGED <<container, faults, streamVars>>

\* Owned: _docker_post succeeds, and the call waits.  For a container that never answered
\* there is nothing to wait for.
StopDoesNotWait ==                                   \* mutant of Posted
    /\ call # NoCall /\ ~call.polls /\ call.model \in Owned
    /\ \E status \in Effects(call.op, container[call.model]) :
         container' = [container EXCEPT ![call.model] = status]
    /\ IF call.op = "stop" THEN Returns(TRUE) ELSE Awaits /\ UNCHANGED <<resident, target>>
    /\ UNCHANGED <<faults, streamVars>>
Posted ==
    /\ call # NoCall /\ ~call.polls /\ call.model \in Owned
    /\ \E status \in Effects(call.op, container[call.model]) :
         /\ container' = [container EXCEPT ![call.model] = status]
         /\ faults' = IF status = "fading" THEN faults \cup {"stopped while loading"} ELSE faults
    /\ Awaits
    /\ UNCHANGED <<resident, target, streamVars>>

\* It fails, with or without effect: start raises, stop goes on to wait.
PostFailed ==
    /\ call # NoCall /\ ~call.polls /\ call.model \in Owned
    /\ \E status \in Effects(call.op, container[call.model]) \cup {container[call.model]} :
         container' = [container EXCEPT ![call.model] = status]
    /\ faults' = faults \cup {"docker"}
    /\ IF call.op = "start" THEN Returns(FALSE) ELSE Awaits /\ UNCHANGED <<resident, target>>
    /\ UNCHANGED streamVars

AnyAnswer(answers) == TRUE                           \* mutant of Wanted
Wanted(answers) == answers = (call.op = "start")
OneMorePoll == call.left < 0                         \* mutant of PastDeadline
PastDeadline == call.left <= 0

\* _await_health polls: the /health it has asked for returns, after however long, with what
\* the container answers now or a no (refused, or not answered in time).  Only then is the
\* deadline read: the answer is the wanted one, or the deadline is past, or the poll sleeps.
Polls ==
    /\ call.polls /\ call.nap = 0
    /\ \E answers \in {FALSE, Answers(call.model)} :
         /\ faults' = IF call.op = "stop" /\ Answers(call.model) /\ (answers => PastDeadline)
                      THEN faults \cup {IF answers THEN "stop timed out" ELSE "health"}
                      ELSE faults
         /\ IF Wanted(answers) THEN Returns(TRUE)
            ELSE IF PastDeadline THEN Returns(FALSE)
            ELSE call' = [call EXCEPT !.nap = ReadyPoll, !.ask = 0] /\ UNCHANGED <<resident, target>>
    /\ UNCHANGED <<container, streamVars>>

\* Time passes, while the poll sleeps and while /health is asked.  Bound: a deadline is not
\* counted further than one poll and one /health past.
Passed == IF call.left > -(ReadyPoll + HealthTime) THEN call.left - 1 ELSE call.left
Tick ==
    /\ call.polls
    /\ \/ call.nap > 0 /\ call' = [call EXCEPT !.nap = @ - 1, !.left = Passed]
       \/ /\ call.nap = 0 /\ call.ask < HealthTime
          /\ call' = [call EXCEPT !.ask = @ + 1, !.left = Passed]
    /\ UNCHANGED <<container, resident, target, faults, streamVars>>

-----------------------------------------------------------------------------
(* stream *)

\* A request is sent to the resident; a container that is not up, or refuses, ends it.
Request ==
    /\ call = NoCall /\ resident # None /\ stream \in {"none", "ended"}
    /\ \/ container[resident] = "up" /\ stream' = "reading" /\ upstream' = "open"
       \/ stream' = "failed" /\ upstream' = "broken"
    /\ sent' = {} /\ heard' = {}
    /\ UNCHANGED <<container, callVars, faults>>

\* A line of the answer: text is passed on, a finish reason and the usage are kept for the
\* end; blanks, comments and malformed lines say nothing.
EndsWithTheReason(saying) ==                         \* mutant of Line
    /\ upstream = "open"
    /\ sent' = sent \cup saying
    /\ heard' = IF stream = "reading" THEN heard \cup saying ELSE heard
    /\ stream' = IF "reason" \in saying THEN "ended" ELSE stream
    /\ UNCHANGED <<container, callVars, faults, upstream>>
Line(saying) ==
    /\ upstream = "open"
    /\ sent' = sent \cup saying
    /\ heard' = IF stream = "reading" THEN heard \cup saying ELSE heard
    /\ UNCHANGED <<container, callVars, faults, stream, upstream>>

\* [DONE], or the end of the answer: stream() yields its StreamEnd.
Completes ==
    /\ upstream = "open" /\ upstream' = "complete"
    /\ stream' = IF stream = "reading" THEN "ended" ELSE stream
    /\ UNCHANGED <<container, callVars, faults, sent, heard>>

\* The connection breaks or stalls.
Breaks ==
    /\ upstream = "open" /\ upstream' = "broken"
    /\ stream' = IF stream = "reading" THEN "failed" ELSE stream
    /\ UNCHANGED <<container, callVars, faults, sent, heard>>

\* The engine cancels the task that reads it, which closes the connection.
IsCancelled ==
    /\ stream = "reading" /\ stream' = "none" /\ upstream' = "broken"
    /\ UNCHANGED <<container, callVars, faults, sent, heard>>

\* The engine has dealt with a failure (Unload); the next request may come.
Contained ==
    /\ stream = "failed" /\ resident = None /\ stream' = "none"
    /\ UNCHANGED <<container, callVars, faults, upstream, sent, heard>>

-----------------------------------------------------------------------------
CallStep == NotOurs \/ Posted \/ PostFailed \/ Polls \/ Tick

Next ==
    \/ \E m \in Models : ComesUp(m) \/ Goes(m) \/ IsStarted(m) \/ Switch(m)
    \/ Unload \/ RouterRestarts \/ CallStep
    \/ Request \/ (\E saying \in SUBSET {"reason", "usage"} : Line(saying))
    \/ Completes \/ Breaks \/ IsCancelled \/ Contained

Spec == Init /\ [][Next]_vars

\* A call of the daemon or of /health returns (both have timeouts) and time passes; of
\* containers, daemon and engine nothing is assumed.
FairSpec == Spec /\ WF_vars(CallStep)
=============================================================================
