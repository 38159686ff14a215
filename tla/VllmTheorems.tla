---------------------------- MODULE VllmTheorems ----------------------------
(***************************************************************************)
(* The safety of the vLLM backends, proved for any number of owned and      *)
(* adopted models, any timeouts and any number of swaps.                    *)
(***************************************************************************)
EXTENDS VllmProperties, TLAPS

-----------------------------------------------------------------------------
(* The calls *)

Statuses == {"down", "loading", "up", "dying", "fading"}

CallType == [op : {"start", "stop"}, model : Models, polls : BOOLEAN, left : Int,
             nap : 0..ReadyPoll, ask : 0..HealthTime]

\* TypeOK does not say enough to be inductive: a call in progress names its model, only a
\* stop is followed by a load, no call polls further past its deadline than the sleep and
\* the /health that began before it, and while an answer is open its reader has heard all it
\* has said.
Calling ==
    /\ call = NoCall \/ call \in CallType
    /\ call.nap > 0 => call.ask = 0
    /\ call.nap - call.ask <= call.left + ReadyPoll - 1
Streaming ==
    /\ stream \in {"none", "reading", "ended", "failed"}
    /\ upstream \in {"none", "open", "complete", "broken"}
    /\ upstream = "open" => stream = "reading" /\ heard = sent

VInv == TypeOK /\ Calling /\ Streaming

LEMMA CallsType ==
  ASSUME NEW op \in {"start", "stop"}, NEW m \in Models
  PROVE  /\ CallOf(op, m) \in CallType /\ CallOf(op, m).op = op /\ CallOf(op, m).model = m
         /\ ~CallOf(op, m).polls /\ CallOf(op, m).left = 0 /\ CallOf(op, m).nap = 0
         /\ CallOf(op, m).ask = 0
         /\ CallOf(op, m) # NoCall /\ m # None
BY VllmConfig DEF CallOf, NoCall, CallType

\* A call that sleeps, that has slept, that asks for /health.
LEMMA CallTimed ==
  ASSUME call \in CallType
  PROVE  /\ call' = [call EXCEPT !.nap = ReadyPoll, !.ask = 0]
              => /\ call' \in CallType /\ call'.nap = ReadyPoll /\ call'.ask = 0
                 /\ call'.left = call.left /\ call'.op = call.op
                 /\ call'.model = call.model /\ call'.polls = call.polls
         /\ call.nap > 0 /\ call' = [call EXCEPT !.nap = call.nap - 1, !.left = call.left - 1]
              => /\ call' \in CallType /\ call'.nap = call.nap - 1 /\ call'.ask = call.ask
                 /\ call'.left = call.left - 1
         /\ call.ask < HealthTime
            /\ call' = [call EXCEPT !.ask = call.ask + 1, !.left = call.left - 1]
              => /\ call' \in CallType /\ call'.nap = call.nap /\ call'.ask = call.ask + 1
                 /\ call'.left = call.left - 1
<1>1. ASSUME call' = [call EXCEPT !.nap = ReadyPoll, !.ask = 0]
      PROVE  /\ call' \in CallType /\ call'.nap = ReadyPoll /\ call'.ask = 0
             /\ call'.left = call.left /\ call'.op = call.op
             /\ call'.model = call.model /\ call'.polls = call.polls
  <2>1. call' = [op |-> call.op, model |-> call.model, polls |-> call.polls,
                 left |-> call.left, nap |-> ReadyPoll, ask |-> 0]
    BY <1>1 DEF CallType
  <2>2. call' \in CallType
    BY <2>1, VllmConfig DEF CallType
  <2> QED
    BY <1>1, <2>2 DEF CallType
<1>2. ASSUME call.nap > 0,
             call' = [call EXCEPT !.nap = call.nap - 1, !.left = call.left - 1]
      PROVE  /\ call' \in CallType /\ call'.nap = call.nap - 1 /\ call'.ask = call.ask
             /\ call'.left = call.left - 1
  <2>1. call' = [op |-> call.op, model |-> call.model, polls |-> call.polls,
                 left |-> call.left - 1, nap |-> call.nap - 1, ask |-> call.ask]
    BY <1>2 DEF CallType
  <2>2. call' \in CallType
    BY <1>2, <2>1, VllmConfig DEF CallType
  <2> QED
    BY <1>2, <2>2 DEF CallType
<1>3. ASSUME call.ask < HealthTime,
             call' = [call EXCEPT !.ask = call.ask + 1, !.left = call.left - 1]
      PROVE  /\ call' \in CallType /\ call'.nap = call.nap /\ call'.ask = call.ask + 1
             /\ call'.left = call.left - 1
  <2>1. call' = [op |-> call.op, model |-> call.model, polls |-> call.polls,
                 left |-> call.left - 1, nap |-> call.nap, ask |-> call.ask + 1]
    BY <1>3 DEF CallType
  <2>2. call' \in CallType
    BY <1>3, <2>1, VllmConfig DEF CallType
  <2> QED
    BY <1>3, <2>2 DEF CallType
<1> QED
  BY <1>1, <1>2, <1>3

LEMMA NoCallIs ==
  /\ NoCall.op = "none" /\ NoCall.model = None /\ ~NoCall.polls
  /\ NoCall.left = 0 /\ NoCall.nap = 0 /\ NoCall.ask = 0 /\ NoCall \notin CallType
BY DEF CallOf, NoCall, CallType

LEMMA VInvInit == Init => VInv
<1> SUFFICES ASSUME Init PROVE VInv
  OBVIOUS
<1> USE VllmConfig
<1>1. (call.nap > 0 => call.ask = 0) /\ call.nap - call.ask <= call.left + ReadyPoll - 1
  BY NoCallIs DEF Init
<1>2. TypeOK
  BY NoCallIs DEF Init, TypeOK
<1> QED
  BY <1>1, <1>2 DEF Init, VInv, Calling, Streaming

\* What a return of a call leaves behind: the engine is idle again, or in the next call.
LEMMA ReturnsType ==
  ASSUME VInv, call # NoCall, NEW ok \in BOOLEAN, Returns(ok)
  PROVE  /\ call' = NoCall \/ (call' \in CallType /\ resident' = None)
         /\ call'.left = 0 /\ call'.nap = 0 /\ call'.ask = 0
         /\ {resident', target'} \subseteq Models \cup {None}
<1>1. call \in CallType /\ resident = None /\ target \in Models \cup {None}
  BY DEF VInv, Calling, TypeOK
<1>2. NoCall.left = 0 /\ NoCall.nap = 0 /\ NoCall.ask = 0 /\ call.model \in Models
  BY <1>1, NoCallIs DEF CallType
<1>3. CASE call.op = "stop" /\ target = None
  BY <1>1, <1>2, <1>3 DEF Returns
<1>4. CASE call.op = "stop" /\ target # None
  BY <1>1, <1>4, CallsType DEF Returns
<1>5. CASE call.op = "start" /\ ok
  <2>1. call.op # "stop"
    BY <1>5
  <2>2. target' = None /\ resident' = call.model /\ call' = NoCall
    BY <1>5, <2>1, SMT DEF Returns
  <2> QED
    BY <1>2, <2>2
<1>6. CASE call.op = "start" /\ ~ok
  BY <1>1, <1>2, <1>6, CallsType DEF Returns, Calls
<1> QED
  BY <1>1, <1>3, <1>4, <1>5, <1>6 DEF CallType

\* Everything that TypeOK and Calling say of the engine's variables, after a step that
\* leaves them as ReturnsType does.
LEMMA ReturnedIsTyped ==
  ASSUME VInv, call # NoCall, NEW ok \in BOOLEAN, Returns(ok),
         container' \in [Models -> Statuses], UNCHANGED streamVars
  PROVE  VInv'
<1>1. /\ call' = NoCall \/ (call' \in CallType /\ resident' = None)
      /\ call'.left = 0 /\ call'.nap = 0 /\ call'.ask = 0
      /\ {resident', target'} \subseteq Models \cup {None}
  BY ReturnsType
<1>2. stream # "reading" /\ sent \subseteq {"reason", "usage"} /\ heard \subseteq sent
  BY DEF VInv, TypeOK
<1>3. NoCall.op = "none" /\ NoCall.model = None /\ NoCall.nap = 0 /\ NoCall.ask = 0
  BY NoCallIs
<1>4. Calling'
  BY <1>1, VllmConfig DEF Calling
<1>5. Streaming'
  BY DEF VInv, Streaming, streamVars
<1>6. TypeOK'
  BY <1>1, <1>2, <1>3, VllmConfig DEF TypeOK, Statuses, CallType, streamVars
<1> QED
  BY <1>4, <1>5, <1>6 DEF VInv

\* Neither has a call been made nor the engine's mind changed.
LEMMA CallsKept ==
  ASSUME VInv, UNCHANGED callVars, container' \in [Models -> Statuses],
         Streaming', sent' \subseteq {"reason", "usage"} /\ heard' \subseteq sent',
         stream' = "reading" => resident # None
  PROVE  VInv'
<1>1. Calling'
  BY DEF VInv, Calling, callVars
<1>2. TypeOK'
  BY DEF VInv, TypeOK, callVars, Statuses
<1> QED
  BY <1>1, <1>2 DEF VInv

LEMMA AwaitsType ==
  ASSUME VInv, call # NoCall, Awaits
  PROVE  /\ call' \in CallType /\ call'.op = call.op /\ call'.model = call.model
         /\ call'.polls /\ call'.left > 0 /\ call'.nap = 0 /\ call'.ask = 0
<1>1. call \in CallType
  BY DEF VInv, Calling
<1>2. Timeout \in Nat \ {0}
  BY VllmConfig DEF Timeout
<1>3. call' = [op |-> call.op, model |-> call.model, polls |-> TRUE, left |-> Timeout,
                nap |-> 0, ask |-> 0]
  BY <1>1 DEF Awaits, CallType
<1> QED
  BY <1>1, <1>2, <1>3, VllmConfig DEF CallType

\* A call that goes on.
LEMMA GoesOnTyped ==
  ASSUME VInv, call # NoCall, call' \in CallType,
         call'.nap > 0 => call'.ask = 0, call'.nap - call'.ask <= call'.left + ReadyPoll - 1,
         container' \in [Models -> Statuses], UNCHANGED <<resident, target, streamVars>>
  PROVE  VInv'
<1>1. Calling'
  BY DEF Calling
<1>2. Streaming'
  BY DEF VInv, Streaming, streamVars
<1>3. TypeOK'
  BY VllmConfig DEF VInv, TypeOK, CallType, streamVars, Statuses
<1> QED
  BY <1>1, <1>2, <1>3 DEF VInv

LEMMA AwaitsTyped ==
  ASSUME VInv, call # NoCall, Awaits, container' \in [Models -> Statuses],
         UNCHANGED <<resident, target, streamVars>>
  PROVE  VInv'
<1>1. call' \in CallType /\ call'.left > 0 /\ call'.nap = 0 /\ call'.ask = 0
  BY AwaitsType
<1>2. call'.left \in Int
  BY <1>1 DEF CallType
<1>3. call'.nap - call'.ask <= call'.left + ReadyPoll - 1
  BY <1>1, <1>2, VllmConfig
<1> QED
  BY <1>1, <1>3, GoesOnTyped

LEMMA EffectsType ==
  ASSUME VInv, NEW m \in Models, NEW action,
         NEW status \in Effects(action, container[m]) \cup {container[m]}
  PROVE  [container EXCEPT ![m] = status] \in [Models -> Statuses]
BY DEF VInv, TypeOK, Effects, Statuses

\* A step of the call in progress.
LEMMA CallStepTyped ==
  ASSUME VInv, CallStep
  PROVE  VInv'
<1>0. container \in [Models -> Statuses]
  BY DEF VInv, TypeOK, Statuses
<1>c. ASSUME call # NoCall
      PROVE  call \in CallType /\ call.model \in Models
             /\ (call.nap > 0 => call.ask = 0)
             /\ call.nap - call.ask <= call.left + ReadyPoll - 1 /\ call.left \in Int
             /\ call.nap \in 0..ReadyPoll /\ call.ask \in 0..HealthTime
  BY <1>c DEF VInv, Calling, CallType
<1>1. CASE NotOurs
  <2>1. call # NoCall /\ container' \in [Models -> Statuses] /\ UNCHANGED streamVars
    BY <1>0, <1>1 DEF NotOurs
  <2>2. CASE call.op = "start"
    BY <1>1, <2>1, <2>2, AwaitsTyped DEF NotOurs
  <2>3. CASE call.op # "start"
    BY <1>1, <2>1, <2>3, ReturnedIsTyped DEF NotOurs
  <2> QED
    BY <2>2, <2>3
<1>2. CASE Posted
  <2>0. call # NoCall /\ Awaits /\ UNCHANGED <<resident, target, streamVars>>
    BY <1>2 DEF Posted
  <2>1. PICK status \in Effects(call.op, container[call.model]) :
               container' = [container EXCEPT ![call.model] = status]
    BY <1>2 DEF Posted
  <2>2. container' \in [Models -> Statuses]
    BY <1>c, <2>0, <2>1, EffectsType
  <2> QED
    BY <2>0, <2>2, AwaitsTyped
<1>3. CASE PostFailed
  <2>p. PICK status \in Effects(call.op, container[call.model]) \cup {container[call.model]} :
               container' = [container EXCEPT ![call.model] = status]
    BY <1>3 DEF PostFailed
  <2>1. call # NoCall /\ container' \in [Models -> Statuses] /\ UNCHANGED streamVars
    BY <1>3, <1>c, <2>p, EffectsType DEF PostFailed
  <2>2. CASE call.op = "start"
    BY <1>3, <2>1, <2>2, ReturnedIsTyped DEF PostFailed
  <2>3. CASE call.op # "start"
    BY <1>3, <2>1, <2>3, AwaitsTyped DEF PostFailed
  <2> QED
    BY <2>2, <2>3
<1>4. CASE Polls
  <2>1. call # NoCall /\ container' \in [Models -> Statuses] /\ UNCHANGED streamVars
    BY <1>0, <1>4, NoCallIs DEF Polls
  <2>2. \/ \E ok \in BOOLEAN : Returns(ok)
        \/ /\ ~PastDeadline /\ UNCHANGED <<resident, target>>
           /\ call' = [call EXCEPT !.nap = ReadyPoll, !.ask = 0]
    BY <1>4 DEF Polls
  <2>3. ASSUME NEW ok \in BOOLEAN, Returns(ok) PROVE VInv'
    BY <2>1, <2>3, ReturnedIsTyped
  <2>4. CASE /\ ~PastDeadline /\ UNCHANGED <<resident, target>>
             /\ call' = [call EXCEPT !.nap = ReadyPoll, !.ask = 0]
    <3>1. /\ call' \in CallType /\ call'.left = call.left
          /\ call'.nap = ReadyPoll /\ call'.ask = 0
      BY <1>c, <2>1, <2>4, CallTimed
    <3>2. call.left > 0
      BY <1>c, <2>1, <2>4 DEF PastDeadline
    <3> QED
      BY <1>c, <2>1, <2>4, <3>1, <3>2, GoesOnTyped, VllmConfig
  <2> QED
    BY <2>2, <2>3, <2>4
<1>5. CASE Tick
  <2>1. call # NoCall
    BY <1>5, NoCallIs DEF Tick
  <2>2. UNCHANGED <<container, resident, target, streamVars>>
    BY <1>5 DEF Tick
  <2>3. call.nap > 0 \/ call.ask < HealthTime
    BY <1>5 DEF Tick
  <2>4. Passed = call.left - 1
    BY <1>c, <2>1, <2>3, VllmConfig DEF Passed
  <2>5. CASE call.nap > 0
    <3>0. call' = [call EXCEPT !.nap = call.nap - 1, !.left = call.left - 1]
      BY <1>5, <2>4, <2>5 DEF Tick
    <3>1. /\ call' \in CallType /\ call'.left = call.left - 1
          /\ call'.nap = call.nap - 1 /\ call'.ask = 0
      BY <1>c, <2>1, <2>5, <3>0, CallTimed
    <3>2. call'.nap - call'.ask <= call'.left + ReadyPoll - 1
      BY <1>c, <2>1, <2>5, <3>1, VllmConfig
    <3> QED
      BY <1>0, <2>1, <2>2, <3>1, <3>2, GoesOnTyped
  <2>6. CASE call.nap = 0
    <3>0. call' = [call EXCEPT !.ask = call.ask + 1, !.left = call.left - 1]
      BY <1>5, <2>4, <2>6 DEF Tick
    <3>1. /\ call' \in CallType /\ call'.left = call.left - 1
          /\ call'.nap = 0 /\ call'.ask = call.ask + 1
      BY <1>c, <2>1, <2>3, <2>6, <3>0, CallTimed
    <3>2. call'.nap - call'.ask <= call'.left + ReadyPoll - 1
      BY <1>c, <2>1, <2>6, <3>1, VllmConfig
    <3> QED
      BY <1>0, <2>1, <2>2, <3>1, <3>2, GoesOnTyped
  <2> QED
    BY <1>c, <2>1, <2>5, <2>6
<1> QED
  BY <1>1, <1>2, <1>3, <1>4, <1>5 DEF CallStep

\* The containers, the engine's decisions and the streams.
LEMMA OthersTyped ==
  ASSUME VInv, [Next]_vars, ~CallStep
  PROVE  VInv'
<1>0. /\ container \in [Models -> Statuses]
      /\ sent \subseteq {"reason", "usage"} /\ heard \subseteq sent
      /\ stream = "reading" => resident # None
      /\ resident \in Models \cup {None}
  BY DEF VInv, TypeOK, Statuses
<1>1. ASSUME NEW m \in Models, ComesUp(m) \/ Goes(m) \/ IsStarted(m) PROVE VInv'
  <2>1. UNCHANGED <<callVars, streamVars>> /\ container' \in [Models -> Statuses]
    BY <1>0, <1>1 DEF ComesUp, Goes, IsStarted, Becomes, Statuses
  <2> QED
    BY <1>0, <2>1, CallsKept DEF VInv, Streaming, streamVars
<1>2. ASSUME NEW m \in Models, Switch(m) PROVE VInv'
  <2>1. call' \in CallType /\ call'.left = 0 /\ call'.nap = 0 /\ call'.ask = 0
        /\ call' # NoCall
    BY <1>0, <1>2, CallsType DEF Switch, Calls
  <2>2. Calling' /\ Streaming'
    BY <1>2, <2>1, VllmConfig DEF VInv, Calling, Streaming, Switch, streamVars
  <2>3. TypeOK'
    BY <1>0, <1>2, <2>1, VllmConfig DEF VInv, TypeOK, Switch, streamVars, CallType
  <2> QED
    BY <2>2, <2>3 DEF VInv
<1>3. CASE Unload
  <2>1. call' \in CallType /\ call'.left = 0 /\ call'.nap = 0 /\ call'.ask = 0
        /\ call' # NoCall
    BY <1>0, <1>3, CallsType DEF Unload, Calls
  <2>2. Calling' /\ Streaming'
    BY <1>3, <2>1, VllmConfig DEF VInv, Calling, Streaming, Unload, streamVars
  <2>3. TypeOK'
    BY <1>0, <1>3, <2>1, VllmConfig DEF VInv, TypeOK, Unload, streamVars, CallType
  <2> QED
    BY <2>2, <2>3 DEF VInv
<1>4. CASE RouterRestarts
  <2>1. Calling' /\ Streaming'
    BY <1>4, NoCallIs, VllmConfig DEF Calling, Streaming, RouterRestarts
  <2>2. TypeOK'
    BY <1>0, <1>4, NoCallIs, VllmConfig DEF TypeOK, RouterRestarts, Statuses
  <2> QED
    BY <2>1, <2>2 DEF VInv
<1>5. CASE Request
  BY <1>0, <1>5, CallsKept DEF Request, Streaming, callVars
<1>6. ASSUME NEW saying \in SUBSET {"reason", "usage"}, Line(saying) PROVE VInv'
  BY <1>0, <1>6, CallsKept DEF VInv, Line, Streaming
<1>7. CASE Completes \/ Breaks \/ IsCancelled \/ Contained
  BY <1>0, <1>7, CallsKept
     DEF VInv, Completes, Breaks, IsCancelled, Contained, Streaming
<1>8. CASE UNCHANGED vars
  BY <1>0, <1>8, CallsKept DEF VInv, vars, Streaming, streamVars
<1> QED
  BY <1>1, <1>2, <1>3, <1>4, <1>5, <1>6, <1>7, <1>8 DEF Next

\* Calls, containers and streams keep their kinds, and no health wait outlasts its deadline
\* by a whole poll and a whole /health.
THEOREM VllmInvariant == Spec => []VInv
<1>1. VInv /\ [Next]_vars => VInv'
  BY CallStepTyped, OthersTyped
<1> QED
  BY <1>1, VInvInit, PTL DEF Spec

\* A call that waits gives up less than one poll and one /health after its deadline, whatever
\* start_timeout_seconds, stop_timeout_seconds, ready_poll_seconds and the time a /health
\* may take are (that it returns at all is checked by the run vllm).
THEOREM CallsAreInTime == Spec => [](TypeOK /\ InTime)
<1>1. VInv => TypeOK /\ InTime
  <2> SUFFICES ASSUME VInv PROVE InTime
    BY DEF VInv
  <2>1. CASE call = NoCall
    BY <2>1, NoCallIs, VllmConfig DEF InTime
  <2>2. CASE call \in CallType
    <3>1. call.left \in Int /\ call.nap \in 0..ReadyPoll /\ call.ask \in 0..HealthTime
      BY <2>2 DEF CallType
    <3>2. call.nap - call.ask <= call.left + ReadyPoll - 1
      BY DEF VInv, Calling
    <3> QED
      BY <3>1, <3>2, VllmConfig DEF InTime
  <2> QED
    BY <2>1, <2>2 DEF VInv, Calling
<1> QED
  BY <1>1, VllmInvariant, PTL

-----------------------------------------------------------------------------
(* The GPU *)

\* While nothing has gone wrong, the owned containers on the GPU are those the engine
\* believes there, which is the property; and a stop that waits, waits for a container
\* that has gone or is going.
Believed == IF call = NoCall THEN resident ELSE call.model
Placed == \A m \in Owned : Holds(m) => m = Believed
Dying == call.op = "stop" /\ call.polls /\ call.model \in Owned
           => container[call.model] \in {"down", "dying"}
GInv == faults = {} => Placed /\ Dying

\* A call returns: a load leaves its container where it is, a stop leaves none.
LEMMA ReturnsPlaced ==
  ASSUME VInv, Placed, call # NoCall, NEW ok \in BOOLEAN, Returns(ok), UNCHANGED container,
         call.op = "stop" /\ call.model \in Owned => ~Holds(call.model)
  PROVE  Placed' /\ Dying'
<1>1. call \in CallType /\ call.model \in Models /\ target \in Models \cup {None}
  BY DEF VInv, Calling, TypeOK, CallType
<1>2. NoCall.op = "none"
  BY NoCallIs
<1>3. \A m \in Owned : Holds(m)' = Holds(m)
  BY DEF Holds
<1>4. CASE call.op = "stop"
  <2>1. \A m \in Owned : ~Holds(m)
    BY <1>4 DEF Placed, Believed
  <2>2. call' = NoCall \/ ~call'.polls
    BY <1>1, <1>4, CallsType DEF Returns
  <2> QED
    BY <1>2, <1>3, <2>1, <2>2 DEF Placed, Dying
<1>5. CASE call.op = "start" /\ ok
  <2>1. resident' = call.model /\ call' = NoCall
    BY <1>5 DEF Returns
  <2> QED
    BY <1>2, <1>3, <2>1 DEF Placed, Dying, Believed
<1>6. CASE call.op = "start" /\ ~ok
  <2>1. call' = CallOf("stop", call.model)
    BY <1>6 DEF Returns, Calls
  <2>2. call' # NoCall /\ call'.model = call.model /\ ~call'.polls
    BY <1>1, <2>1, CallsType
  <2> QED
    BY <1>3, <2>2 DEF Placed, Dying, Believed
<1> QED
  BY <1>1, <1>4, <1>5, <1>6 DEF CallType

\* A call goes on with the same model.
LEMMA GoesOnPlaced ==
  ASSUME VInv, Placed, call # NoCall, call' # NoCall, call'.model = call.model,
         \A m \in Owned : Holds(m)' => Holds(m) \/ m = call.model
  PROVE  Placed'
BY DEF Placed, Believed

LEMMA CallStepPlaced ==
  ASSUME VInv, GInv, CallStep, faults' = {}
  PROVE  Placed' /\ Dying'
<1>1. faults = {} /\ Placed /\ Dying
  <2>1. faults = {}
    BY DEF CallStep, NotOurs, Posted, PostFailed, Polls, Tick
  <2> QED
    BY <2>1 DEF GInv
<1>2. call # NoCall
  BY NoCallIs DEF CallStep, NotOurs, Posted, PostFailed, Polls, Tick
<1>3. /\ call \in CallType /\ call.model \in Models /\ call.op \in {"start", "stop"}
      /\ container \in [Models -> Statuses]
  BY <1>2 DEF VInv, Calling, TypeOK, CallType, Statuses
<1>4. CASE NotOurs
  <2>1. UNCHANGED container /\ call.model \notin Owned
    BY <1>4 DEF NotOurs
  <2>2. CASE call.op = "start"
    <3>1. call' \in CallType /\ call'.op = "start" /\ call'.model = call.model
      BY <1>2, <1>4, <2>2, AwaitsType DEF NotOurs
    <3>2. Dying'
      BY <3>1 DEF Dying
    <3>3. \A m \in Owned : Holds(m)' => Holds(m)
      BY <2>1 DEF Holds
    <3> QED
      BY <1>1, <1>2, <3>1, <3>2, <3>3, GoesOnPlaced, NoCallIs
  <2>3. CASE call.op # "start"
    <3>1. Returns(TRUE)
      BY <1>4, <2>3 DEF NotOurs
    <3> QED
      BY <1>1, <1>2, <2>1, <3>1, ReturnsPlaced
  <2> QED
    BY <2>2, <2>3
<1>5. CASE Posted
  <2>1. PICK status \in Effects(call.op, container[call.model]) :
            /\ container' = [container EXCEPT ![call.model] = status]
            /\ faults' = IF status = "fading" THEN faults \cup {"stopped while loading"}
                         ELSE faults
    BY <1>5 DEF Posted
  <2>2. status # "fading"
    BY <2>1
  <2>3. call' \in CallType /\ call'.op = call.op /\ call'.model = call.model
    BY <1>2, <1>5, AwaitsType DEF Posted
  <2>4. call.op = "stop" => status \in {"down", "dying"}
    BY <1>3, <2>1, <2>2 DEF Effects, Statuses
  <2>5. Dying'
    BY <1>3, <2>1, <2>3, <2>4 DEF Dying
  <2>6. \A m \in Owned : Holds(m)' => Holds(m) \/ m = call.model
    BY <1>3, <2>1, VllmConfig DEF Holds
  <2> QED
    BY <1>1, <1>2, <2>3, <2>5, <2>6, GoesOnPlaced, NoCallIs
<1>6. CASE PostFailed
  BY <1>6 DEF PostFailed
<1>7. CASE Polls
  <2>1. PICK answers \in {FALSE, Answers(call.model)} :
            /\ faults' = IF call.op = "stop" /\ Answers(call.model) /\ (answers => PastDeadline)
                         THEN faults \cup {IF answers THEN "stop timed out" ELSE "health"}
                         ELSE faults
            /\ IF Wanted(answers) THEN Returns(TRUE)
               ELSE IF PastDeadline THEN Returns(FALSE)
               ELSE call' = [call EXCEPT !.nap = ReadyPoll, !.ask = 0] /\ UNCHANGED <<resident, target>>
    BY <1>7 DEF Polls
  <2>2. UNCHANGED container /\ call.polls
    BY <1>7 DEF Polls
  <2>3. ~(call.op = "stop" /\ Answers(call.model) /\ (answers => PastDeadline))
    BY <2>1
  <2>4. CASE Wanted(answers)
    <3>1. call.op = "stop" => ~Answers(call.model)
      <4>1. call.op = "stop" => ~answers
        BY <2>4 DEF Wanted
      <4> QED
        BY <2>3, <4>1
    <3>2. call.op = "stop" /\ call.model \in Owned => ~Holds(call.model)
      BY <1>1, <2>2, <3>1 DEF Dying, Answers, Holds
    <3>3. Returns(TRUE)
      BY <2>1, <2>4
    <3> QED
      BY <1>1, <1>2, <2>2, <3>2, <3>3, ReturnsPlaced
  <2>5. CASE ~Wanted(answers) /\ PastDeadline
    <3>1. call.op # "stop"
      <4>1. ASSUME call.op = "stop" PROVE answers
        <5>1. ~(call.op = "start")
          BY <4>1
        <5>2. answers # FALSE
          BY <2>5, <5>1, Zenon DEF Wanted
        <5>3. answers = Answers(call.model)
          BY <2>1, <5>2
        <5>4. Answers(call.model) \in BOOLEAN
          BY DEF Answers
        <5> QED
          BY <5>2, <5>3, <5>4
      <4>2. answers => Answers(call.model)
        BY <2>1
      <4> QED
        BY <2>3, <2>5, <4>1, <4>2
    <3>2. Returns(FALSE)
      BY <2>1, <2>5
    <3> QED
      BY <1>1, <1>2, <2>2, <3>1, <3>2, ReturnsPlaced
  <2>6. CASE ~Wanted(answers) /\ ~PastDeadline
    <3>1. call' = [call EXCEPT !.nap = ReadyPoll, !.ask = 0]
      BY <2>1, <2>6
    <3>2. call' \in CallType /\ call'.op = call.op /\ call'.model = call.model
          /\ call'.polls = call.polls
      BY <1>3, <3>1, CallTimed
    <3>3. Dying'
      BY <1>1, <2>2, <3>2 DEF Dying
    <3>4. \A m \in Owned : Holds(m)' => Holds(m)
      BY <2>2 DEF Holds
    <3> QED
      BY <1>1, <1>2, <3>2, <3>3, <3>4, GoesOnPlaced, NoCallIs
  <2> QED
    BY <2>4, <2>5, <2>6
<1>8. CASE Tick
  <2>1. call' \in CallType \/ call' = NoCall
    BY <1>8, CallStepTyped DEF CallStep, VInv, Calling
  <2>2. call'.op = call.op /\ call'.model = call.model /\ call'.polls = call.polls
    BY <1>3, <1>8 DEF Tick, CallType
  <2>3. UNCHANGED container
    BY <1>8 DEF Tick
  <2>4. Dying'
    BY <1>1, <2>2, <2>3 DEF Dying
  <2>5. \A m \in Owned : Holds(m)' => Holds(m)
    BY <2>3 DEF Holds
  <2>6. call' # NoCall
    BY <1>3, <2>2, NoCallIs
  <2> QED
    BY <1>1, <1>2, <2>2, <2>4, <2>5, <2>6, GoesOnPlaced
<1> QED
  BY <1>4, <1>5, <1>6, <1>7, <1>8 DEF CallStep

LEMMA OthersPlaced ==
  ASSUME VInv, GInv, [Next]_vars, ~CallStep, faults' = {}
  PROVE  Placed' /\ Dying'
<1>1. CASE \E m \in Models : ComesUp(m) \/ Goes(m) \/ IsStarted(m)
  <2>1. PICK m \in Models : ComesUp(m) \/ Goes(m) \/ IsStarted(m)
    BY <1>1
  <2>2. UNCHANGED <<call, resident, faults>> /\ container \in [Models -> Statuses]
    BY <2>1 DEF ComesUp, Goes, IsStarted, Becomes, callVars, VInv, TypeOK, Statuses
  <2>3. Placed /\ Dying
    BY <2>2 DEF GInv
  <2>4. \A n \in Owned : Holds(n)' => Holds(n)
    BY <2>1, <2>2, VllmConfig DEF ComesUp, Goes, IsStarted, Becomes, Holds
  <2>5. \A n \in Owned : container[n] \in {"down", "dying"} => container'[n] \in {"down", "dying"}
    BY <2>1, <2>2, VllmConfig DEF ComesUp, Goes, IsStarted, Becomes
  <2> QED
    BY <2>2, <2>3, <2>4, <2>5 DEF Placed, Dying, Believed
<1>2. ASSUME NEW m \in Models, Switch(m) PROVE Placed' /\ Dying'
  <2>1. call = NoCall /\ UNCHANGED <<container, faults>> /\ resident \in Models \cup {None}
    BY <1>2 DEF Switch, VInv, TypeOK
  <2>2. Placed
    BY <2>1 DEF GInv
  <2>3. \A n \in Owned : Holds(n)' => Holds(n) /\ n = resident
    BY <2>1, <2>2 DEF Placed, Believed, Holds
  <2>4. CASE resident = None
    <3>1. call' # NoCall /\ ~call'.polls
      BY <1>2, <2>4, CallsType DEF Switch, Calls
    <3> QED
      BY <2>3, <2>4, <3>1, VllmConfig DEF Placed, Dying
  <2>5. CASE resident # None
    <3>1. call' # NoCall /\ ~call'.polls /\ call'.model = resident
      BY <1>2, <2>1, <2>5, CallsType DEF Switch, Calls
    <3> QED
      BY <2>3, <3>1 DEF Placed, Dying, Believed
  <2> QED
    BY <2>4, <2>5
<1>3. CASE Unload
  <2>1. call = NoCall /\ UNCHANGED <<container, faults>> /\ resident \in Models
    BY <1>3 DEF Unload, VInv, TypeOK
  <2>2. Placed
    BY <2>1 DEF GInv
  <2>3. call' # NoCall /\ ~call'.polls /\ call'.model = resident
    BY <1>3, <2>1, CallsType DEF Unload, Calls
  <2> QED
    BY <2>1, <2>2, <2>3 DEF Placed, Dying, Believed, Holds
<1>4. CASE RouterRestarts
  BY <1>4 DEF RouterRestarts
<1>5. CASE \/ Request \/ (\E saying \in SUBSET {"reason", "usage"} : Line(saying))
           \/ Completes \/ Breaks \/ IsCancelled \/ Contained \/ UNCHANGED vars
  <2>1. UNCHANGED <<container, call, resident, faults>>
    BY <1>5 DEF Request, Line, Completes, Breaks, IsCancelled, Contained, vars, callVars
  <2> QED
    BY <2>1 DEF GInv, Placed, Dying, Believed, Holds
<1> QED
  BY <1>1, <1>2, <1>3, <1>4, <1>5 DEF Next

\* "Exactly one model is resident at a time", down to the containers: as long as no fault
\* that stop() lets pass has occurred, an owned container is on the GPU only if the engine
\* believes it resident or is loading or stopping it.
THEOREM GpuTheorem == Spec => []GpuFollowsTheEngine
<1>1. Init => GInv
  <2> SUFFICES ASSUME Init PROVE GInv
    OBVIOUS
  <2>1. \A m \in Owned : ~Holds(m)
    BY DEF Init, Holds
  <2> QED
    BY <2>1, NoCallIs DEF Init, GInv, Placed, Dying
<1>2. VInv /\ GInv /\ [Next]_vars => GInv'
  BY CallStepPlaced, OthersPlaced DEF GInv
<1>3. GInv => GpuFollowsTheEngine
  BY DEF GInv, Placed, Believed, GpuFollowsTheEngine
<1> QED
  BY <1>1, <1>2, <1>3, VllmInvariant, PTL DEF Spec

\* "Do not return until that is actually true": no model is made resident whose /health
\* does not answer at that moment.
THEOREM StartTheorem == Spec => StartedServes
<1>1. ASSUME VInv, Next, resident' # resident, resident' # None PROVE Answers(resident')
  <2>1. CASE Polls
    <3>1. call # NoCall /\ call \in CallType
      BY <1>1, <2>1, NoCallIs DEF Polls, VInv, Calling
    <3>2. PICK answers \in {FALSE, Answers(call.model)} :
            IF Wanted(answers) THEN Returns(TRUE)
            ELSE IF PastDeadline THEN Returns(FALSE)
            ELSE UNCHANGED <<resident, target>>
      BY <2>1 DEF Polls
    <3>3. CASE Wanted(answers)
      <4>1. Returns(TRUE)
        BY <3>2, <3>3
      <4>2. call.op = "start" /\ resident' = call.model
        BY <1>1, <3>1, <4>1 DEF Returns, CallType
      <4>3. answers
        BY <3>3, <4>2 DEF Wanted
      <4> QED
        BY <3>2, <4>2, <4>3
    <3>4. CASE ~Wanted(answers)
      BY <1>1, <3>2, <3>4 DEF Returns
    <3> QED
      BY <3>3, <3>4
  <2>2. CASE NotOurs
    <3>1. call \in CallType
      BY <1>1, <2>2 DEF NotOurs, VInv, Calling
    <3>2. call.op = "start" \/ (call.op = "stop" /\ Returns(TRUE))
      BY <2>2, <3>1 DEF NotOurs, CallType
    <3> QED
      BY <1>1, <2>2, <3>2 DEF NotOurs, Returns
  <2>3. CASE PostFailed
    BY <1>1, <2>3 DEF PostFailed, Returns
  <2> QED
    BY <1>1, <2>1, <2>2, <2>3
       DEF Next, CallStep, Posted, Tick, ComesUp, Goes, IsStarted, Becomes, Switch, Unload,
           RouterRestarts, Request, Line, Completes, Breaks, IsCancelled, Contained, callVars
<1>2. VInv /\ [Next]_vars =>
        [resident' # resident /\ resident' # None => Answers(resident')]_vars
  BY <1>1
<1> QED
  BY <1>2, VllmInvariant, PTL DEF Spec, StartedServes

\* "The real finish reason, the real token counts": whatever the order of the lines, a
\* generation that ends well carries all that its upstream has said of its end.
THEOREM EndTheorem == Spec => []EndIsComplete
<1>1. Init => EndIsComplete
  BY DEF Init, EndIsComplete
<1>2. VInv /\ EndIsComplete /\ [Next]_vars => EndIsComplete'
  BY DEF VInv, Streaming, EndIsComplete, Next, vars, streamVars, CallStep, NotOurs, Posted,
         PostFailed, Polls, Tick, ComesUp, Goes, IsStarted, Becomes, Switch, Unload,
         RouterRestarts, Request, Line, Completes, Breaks, IsCancelled, Contained
<1> QED
  BY <1>1, <1>2, VllmInvariant, PTL DEF Spec
=============================================================================
