--------------------------- MODULE EngineTheorems ---------------------------
(***************************************************************************)
(* Proofs that the engine keeps its promises for any number of models and   *)
(* requests, any capacity and weights, and any number of failures: what is  *)
(* always so, what no step ever does, the concurrency cap, and the          *)
(* implementation of the abstract GPU of Residency.                        *)
(***************************************************************************)
EXTENDS EngineInvariant, PolicyProofs

-----------------------------------------------------------------------------
(* The snapshot a pass takes *)

\* The oldest live request of a model exists when there is one, so its age is a number.
LEMMA HeadAgeType ==
  ASSUME TypeOK, NEW m \in Models
  PROVE  HeadAge(m) \in Nat
<1>1. CASE Live(m) = {}
  BY <1>1 DEF HeadAge
<1>2. CASE Live(m) # {}
  <2> DEFINE stamps == {arrival[r] : r \in Live(m)}
  <2>1. Live(m) \subseteq Requests
    BY DEF Live, TypeOK
  <2>2. stamps \in SUBSET Nat /\ stamps # {}
    BY <1>2, <2>1 DEF TypeOK
  <2>3. PICK k \in stamps : \A j \in stamps : k <= j
    BY <2>2, LeastNatural
  <2>4. PICK r \in Live(m) : k = arrival[r]
    OBVIOUS
  <2>5. Ahead(r, m) = {}
    <3>1. ASSUME NEW q \in Live(m)
          PROVE  ~(arrival[q] < arrival[r])
      <4>1. arrival[q] \in stamps /\ arrival[q] \in Nat /\ arrival[r] \in Nat
        BY <2>1 DEF TypeOK
      <4>2. arrival[r] <= arrival[q]
        BY <2>3, <2>4, <4>1
      <4> QED
        BY <4>1, <4>2
    <3> QED
      BY <3>1 DEF Ahead
  <2> DEFINE head == CHOOSE q \in Live(m) : Ahead(q, m) = {}
  <2>6. head \in Live(m)
    BY <2>4, <2>5
  <2>7. HeadAge(m) = wait[head]
    BY <1>2 DEF HeadAge
  <2> HIDE DEF head
  <2> QED
    BY <2>1, <2>6, <2>7 DEF TypeOK
<1> QED
  BY <1>1, <1>2

LEMMA SnapshotType ==
  ASSUME TypeOK, NEW b \in [Models -> Nat]
  PROVE  TakeSnapshot(b) \in Snapshot
<1>1. \A m \in Models : Cardinality(Live(m)) \in Nat
  <2> TAKE m \in Models
  <2>1. Live(m) \in SUBSET Requests
    BY DEF Live, TypeOK
  <2> QED
    BY <2>1, EngineConfig, FS_Subset, FS_CardinalityType
<1>2. Cardinality(Reaped) \in Nat
  <2>1. Reaped \in SUBSET Requests
    BY DEF Reaped, TypeOK
  <2> QED
    BY <2>1, EngineConfig, FS_Subset, FS_CardinalityType
<1>3. TrackIdleness \in Nat \cup {NotIdle}
  BY DEF TrackIdleness, TypeOK
<1>4. \A m \in Models : HeadAge(m) \in Nat
  BY HeadAgeType
<1>5. (pc \in Switching) \in BOOLEAN
  OBVIOUS
<1> QED
  BY <1>1, <1>2, <1>3, <1>4, <1>5 DEF TakeSnapshot, Snapshot, TypeOK

\* What a pass does once the policy has spoken, `b` being the backoff it saw: it starts
\* some of the resident's live requests, and only on an available resident, or it begins
\* a switch to another model that has live work.  It waits only after it has dispatched
\* what it can, or when no backend that has live work may be started.
PassOutcome(taken, b) ==
    /\ taken \in {{}, Dispatched}
    /\ taken # {} => resident \in Models /\ b[resident] = 0
    /\ pending' = pending \ (Purged \cup taken)
    /\ wait' = [r \in Requests |-> IF r \in pending' THEN wait[r] ELSE 0]
    /\ state' = [r \in Requests |-> IF r \in Purged THEN "cancelled"
                                    ELSE IF r \in taken THEN "running" ELSE state[r]]
    /\ cancelSent' = cancelSent \cup (Reaped \cap cancelled)
    /\ inFlight' = Reaped \cup taken
    /\ idle' = TrackIdleness
    /\ \/ /\ pc' = "wait" /\ target' = target
          /\ \/ resident \in Models /\ taken = Dispatched
             \/ \A m \in Models : Live(m) # {} => b[m] > 0
       \/ /\ pc' = "draining" /\ taken = {}
          /\ target' \in Models \ {resident}
          /\ Live(target') # {}
          /\ resident \in Models /\ b[resident] = 0 /\ residency < MinResidency
               /\ (Live(resident) # {} \/ Reaped # {})
             => HeadAge(target') >= MaxWait
    /\ UNCHANGED <<resident, leaving, gpu, arrival, cancelled, terminator, residency,
                   faults>>

LEMMA PassFacts ==
  ASSUME TypeOK, pc \in {"top", "wait", "resume"},
         NEW b \in [Models -> Nat], RestOfPass(b)
  PROVE  \E taken : PassOutcome(taken, b)
<1> DEFINE s == TakeSnapshot(b)
           d == Decide(s)
           taken == IF d.kind \in {"serve", "hold"} THEN Dispatched ELSE {}
<1>1. s \in Snapshot
  BY SnapshotType
<1>2. /\ ~s.inTransition
      /\ s.resident = resident /\ s.residency = residency /\ s.backoff = b
      /\ \A m \in Models : s.depth[m] = Cardinality(Live(m)) /\ s.wait[m] = HeadAge(m)
      /\ resident \in Models => s.inFlight = Cardinality(Reaped)
  BY PolicyConfig DEF TakeSnapshot, Switching
<1>3. \A m \in Models : s.depth[m] > 0 <=> Live(m) # {}
  <2> TAKE m \in Models
  <2>1. Live(m) \in SUBSET Requests
    BY DEF Live, TypeOK
  <2>2. IsFiniteSet(Live(m))
    BY <2>1, EngineConfig, FS_Subset
  <2> HIDE DEF s
  <2> QED
    BY <2>2, <1>2, FS_EmptySet, FS_CardinalityType
<1>4. resident \in Models => (s.inFlight > 0 <=> Reaped # {})
  <2>1. Reaped \in SUBSET Requests
    BY DEF Reaped, TypeOK
  <2>2. IsFiniteSet(Reaped)
    BY <2>1, EngineConfig, FS_Subset
  <2> HIDE DEF s
  <2> QED
    BY <2>2, <1>2, FS_EmptySet, FS_CardinalityType
<1> HIDE DEF s
<1>5. /\ d.kind = "switch" => d.target \in Servable(s) \ {resident}
      /\ d.kind \in {"serve", "hold"} => resident \in Models /\ b[resident] = 0
  BY <1>1, <1>2, DecideSound DEF Available
<1>6. d.kind = "switch" => d.target \in Models \ {resident} /\ Live(d.target) # {}
  BY <1>3, <1>5 DEF Servable, WithWork, HasPending
<1>7. ASSUME d.kind = "switch", resident \in Models, b[resident] = 0,
             residency < MinResidency, Live(resident) # {} \/ Reaped # {}
      PROVE  HeadAge(d.target) >= MaxWait
  <2>1. Available(s, s.resident) /\ ResidentBusy(s)
    BY <1>2, <1>3, <1>4, <1>7 DEF Available, ResidentBusy
  <2>2. d.target \in Overdue(s)
    BY <1>1, <1>2, <1>7, <2>1, HysteresisTheorem
  <2> QED
    BY <1>2, <1>6, <1>7, <2>2 DEF Overdue
<1>8. taken \in {{}, Dispatched}
  OBVIOUS
<1>9. /\ pending' = pending \ (Purged \cup taken)
      /\ wait' = [r \in Requests |-> IF r \in pending' THEN wait[r] ELSE 0]
      /\ state' = [r \in Requests |-> IF r \in Purged THEN "cancelled"
                                      ELSE IF r \in taken THEN "running" ELSE state[r]]
      /\ cancelSent' = cancelSent \cup (Reaped \cap cancelled)
      /\ inFlight' = Reaped \cup taken
      /\ idle' = TrackIdleness
      /\ IF d.kind = "switch" THEN pc' = "draining" /\ target' = d.target
         ELSE pc' = "wait" /\ target' = target
      /\ UNCHANGED <<resident, leaving, gpu, arrival, cancelled, terminator, residency,
                     faults>>
  BY Zenon DEF RestOfPass, Popped, s
<1>10. taken # {} => resident \in Models /\ b[resident] = 0
  BY <1>5
<1>11. d.kind = "switch" => taken = {}
  OBVIOUS
<1>12. CASE d.kind = "switch"
  <2> HIDE DEF taken, d
  <2>1. PassOutcome(taken, b)
    BY <1>6, <1>7, <1>8, <1>9, <1>10, <1>11, <1>12 DEF PassOutcome
  <2> QED
    BY <2>1
<1>13. CASE d.kind # "switch"
  <2>1. \/ resident \in Models /\ taken = Dispatched
        \/ \A m \in Models : Live(m) # {} => b[m] > 0
    <3>1. CASE d.kind \in {"serve", "hold"}
      BY <1>5, <3>1
    <3>2. CASE d.kind = "idle"
      <4>1. Servable(s) = {}
        BY <1>1, <1>2, <3>2, DecideSound
      <4> QED
        BY <1>2, <1>3, <4>1 DEF Servable, WithWork, HasPending, Available
    <3> QED
      BY <1>1, <1>2, <1>13, <3>1, <3>2, DecideSound
  <2> HIDE DEF taken, d
  <2>2. PassOutcome(taken, b)
    BY <1>8, <1>9, <1>10, <1>13, <2>1 DEF PassOutcome
  <2> QED
    BY <2>2
<1> QED
  BY <1>12, <1>13

\* The effect of a pass, whether it follows a containment (Resume) or not (Pass).
PassEffect(taken) ==
    /\ pc \in {"top", "wait", "resume"}
    /\ PassOutcome(taken, backoff')
    /\ failed' = {} /\ wakeup' \in BOOLEAN
    /\ backoff' \in [Models -> Nat]
    /\ resident # None => backoff'[resident] = 0

LEMMA PassHasEffect ==
  ASSUME IInv, Pass \/ Resume
  PROVE  \E taken : PassEffect(taken)
<1> USE DEF IInv
<1>1. CASE Pass
  <2> DEFINE b == MarkUnavailable(failed)
  <2>1. b \in [Models -> Nat]
    BY EngineConfig DEF MarkUnavailable, TypeOK
  <2>2. pc \in {"top", "wait"} /\ RestOfPass(b) /\ resident \notin failed
        /\ wakeup' = FALSE /\ failed' = {} /\ backoff' = b
    BY <1>1 DEF Pass, AtTop, MustContain
  <2>3. resident # None => b[resident] = 0
    BY <2>2 DEF MarkUnavailable, FailureInv, TypeOK, Stopping
  <2> HIDE DEF b
  <2>4. pc \in {"top", "wait", "resume"}
    BY <2>2
  <2>5. PICK taken : PassOutcome(taken, b)
    BY <2>1, <2>2, <2>4, PassFacts DEF IInv
  <2>6. PassEffect(taken)
    BY <2>1, <2>2, <2>3, <2>4, <2>5 DEF PassEffect, PassOutcome
  <2> QED
    BY <2>6
<1>2. CASE Resume
  <2>1. pc = "resume" /\ RestOfPass(backoff) /\ UNCHANGED <<wakeup, failed, backoff>>
    BY <1>2 DEF Resume
  <2>2. failed = {} /\ (resident # None => backoff[resident] = 0)
    BY <2>1 DEF FailureInv, Stopping
  <2>3. pc \in {"top", "wait", "resume"} /\ backoff \in [Models -> Nat]
    BY <2>1 DEF TypeOK
  <2> QED
    BY <2>1, <2>2, <2>3, PassFacts DEF PassEffect, TypeOK
<1> QED
  BY <1>1, <1>2

-----------------------------------------------------------------------------
(* When nothing runs *)

\* Without a resident no request is generating: each belongs to the resident.
LEMMA NoResidentNoTasks ==
  ASSUME IInv, resident = None
  PROVE  Running = {}
<1>1. \A r \in Running : ModelOf[r] \in Models /\ ModelOf[r] = None
  BY EngineConfig DEF IInv, TaskInv, Running
<1> QED
  BY <1>1, PolicyConfig

\* The gather of a drain waits for every generating request, not only those it knows.
LEMMA GatherWaitsForAll ==
  ASSUME IInv, AllEnded
  PROVE  Running = {}
  BY DEF IInv, TaskInv, AllEnded

-----------------------------------------------------------------------------
(* The inductive invariant, action by action *)

LEMMA InvariantInit ==
  ASSUME Init
  PROVE  IInv
<1>1. TypeOK
  <2>1. /\ arrival \in [Requests -> Nat] /\ wait \in [Requests -> Nat]
        /\ backoff \in [Models -> Nat]
        /\ state \in [Requests -> RequestStates]
        /\ terminator \in [Requests -> {"none", "end", "error"}]
    BY DEF Init, RequestStates
  <2>2. faults \in 0..MaxFaults
    BY EngineConfig DEF Init
  <2> QED
    BY <2>1, <2>2 DEF Init, TypeOK, Places
<1>2. Running = {}
  BY DEF Init, Running
<1>3. GpuInv
  BY DEF Init, GpuInv, Switching
<1>4. TaskInv
  BY <1>2 DEF Init, TaskInv
<1>5. FailureInv /\ IdleInv
  BY DEF Init, FailureInv, IdleInv
<1> QED
  BY <1>1, <1>3, <1>4, <1>5 DEF IInv

LEMMA InvariantStutter ==
  ASSUME IInv, UNCHANGED vars
  PROVE  IInv'
  BY DEF IInv, TypeOK, GpuInv, TaskInv, FailureInv, IdleInv, Running, vars, loopVars,
         gpuVars, requestVars, taskVars

LEMMA InvariantClients ==
  ASSUME IInv, NEW r \in Requests, Submit(r) \/ Cancel(r)
  PROVE  IInv'
<1> USE DEF IInv
<1>1. CASE Submit(r)
  <2> USE DEF Submit, loopVars, gpuVars, taskVars
  <2>1. Running' = Running
    BY <1>1 DEF Running, TypeOK
  <2>2. TypeOK'
    <3>1. Submitted \in SUBSET Requests
      BY DEF Submitted
    <3>2. Cardinality(Submitted) \in Nat
      BY <3>1, EngineConfig, FS_Subset, FS_CardinalityType
    <3> QED
      BY <1>1, <3>2 DEF TypeOK, RequestStates
  <2>3. GpuInv'
    BY <1>1 DEF GpuInv
  <2>4. TaskInv'
    <3>1. r \notin Running
      BY <1>1 DEF Running
    <3> QED
      BY <1>1, <2>1, <3>1 DEF TaskInv, TypeOK, Running, Terminal
  <2>5. FailureInv' /\ IdleInv'
    BY <1>1, <2>1 DEF FailureInv, IdleInv
  <2> QED
    BY <2>2, <2>3, <2>4, <2>5
<1>2. CASE Cancel(r)
  <2> USE DEF Cancel, loopVars, gpuVars, taskVars
  <2>1. TypeOK'
    BY <1>2, EngineConfig DEF TypeOK
  <2>2. GpuInv' /\ IdleInv'
    BY <1>2 DEF GpuInv, IdleInv
  <2>3. TaskInv' /\ FailureInv'
    BY <1>2 DEF TaskInv, FailureInv, Running
  <2> QED
    BY <2>1, <2>2, <2>3
<1> QED
  BY <1>1, <1>2

\* A pass, decided by the policy.
LEMMA InvariantPass ==
  ASSUME IInv, NEW taken, PassEffect(taken)
  PROVE  IInv'
<1> USE DEF IInv, PassEffect, PassOutcome
<1>1. /\ Purged \subseteq pending /\ taken \subseteq pending
      /\ pending \subseteq Requests /\ Purged \cap taken = {}
      /\ \A r \in taken : ModelOf[r] = resident
  BY DEF Purged, Dispatched, Live, TypeOK
<1>2. Reaped = Running
  BY DEF Reaped, TaskInv
<1>3. Running' = Running \cup taken
  BY <1>1 DEF Running, TaskInv, TypeOK
<1>4. TypeOK'
  <2>1. state' \in [Requests -> RequestStates] /\ wait' \in [Requests -> Nat]
    BY DEF TypeOK, RequestStates, Terminal
  <2>2. idle' \in Nat \cup {NotIdle}
    BY DEF TypeOK, TrackIdleness
  <2>3. pending' \subseteq Requests /\ inFlight' \subseteq Requests
        /\ cancelSent' \subseteq Requests
    BY <1>1 DEF TypeOK, Reaped
  <2>4. pc' \in Places /\ target' \in Models \cup {None}
    BY DEF TypeOK, Places, Switching
  <2> QED
    BY <2>1, <2>2, <2>3, <2>4 DEF TypeOK
<1>5. GpuInv'
  BY DEF GpuInv, Switching
<1>6. TaskInv'
  <2>1. pending' = {r \in Requests : state'[r] = "queued"}
    BY <1>1 DEF TaskInv, TypeOK
  <2>2. \A r \in inFlight' : state'[r] \notin {"new", "queued"}
    BY <1>1, <1>2, <1>3 DEF Running
  <2>3. \A r \in Running' : r \in inFlight' /\ ModelOf[r] = resident'
    BY <1>1, <1>2, <1>3 DEF TaskInv
  <2>4. cancelSent' \subseteq Running'
    BY <1>2, <1>3 DEF TaskInv
  <2>5. \A r \in Requests : terminator'[r] = "none" \/ state'[r] \in Terminal
    BY <1>1 DEF TaskInv, Terminal
  <2> QED
    BY <2>1, <2>2, <2>3, <2>4, <2>5 DEF TaskInv
<1>7. FailureInv'
  BY DEF FailureInv
<1>8. IdleInv'
  <2>1. idle' # NotIdle => resident # None /\ Live(resident) = {} /\ Reaped = {}
    BY DEF TrackIdleness
  <2>2. Live(resident) = {} => taken = {}
    BY DEF Dispatched
  <2>3. idle' # NotIdle => idle' = 0 \/ idle' = idle
    BY DEF TrackIdleness
  <2> QED
    BY <2>1, <2>2, <2>3 DEF IdleInv, TypeOK, NotIdle
<1> QED
  BY <1>4, <1>5, <1>6, <1>7, <1>8

\* The containment of a crash.
LEMMA InvariantContainment ==
  ASSUME IInv, ContainCrash \/ CrashContained \/ Evicted
  PROVE  IInv'
<1> USE DEF IInv, requestVars, taskVars
<1>1. CASE ContainCrash
  <2> USE <1>1 DEF ContainCrash, AtTop, MustContain
  <2>1. Running' = Running /\ cancelSent' = Running
    BY DEF Running, Reaped, TaskInv
  <2>2. TypeOK'
    <3>1. backoff' \in [Models -> Nat]
      BY EngineConfig DEF MarkUnavailable, TypeOK
    <3> QED
      BY <3>1, <2>1 DEF TypeOK, Places, Running
  <2>3. GpuInv'
    BY PolicyConfig DEF GpuInv, TypeOK, Switching
  <2>4. TaskInv'
    BY <2>1 DEF TaskInv
  <2>5. FailureInv' /\ IdleInv'
    BY DEF FailureInv, IdleInv
  <2> QED
    BY <2>2, <2>3, <2>4, <2>5
<1>2. CASE CrashContained
  <2> USE <1>2 DEF CrashContained
  <2>1. Running = {} /\ Running' = {}
    BY GatherWaitsForAll DEF Running
  <2>2. TypeOK'
    BY DEF TypeOK, Places
  <2>3. GpuInv'
    BY DEF GpuInv, TypeOK, Switching
  <2>4. TaskInv'
    BY <2>1 DEF TaskInv
  <2>5. FailureInv' /\ IdleInv'
    BY <2>1 DEF FailureInv, IdleInv
  <2> QED
    BY <2>2, <2>3, <2>4, <2>5
<1>3. CASE Evicted
  <2> USE <1>3 DEF Evicted
  <2>1. Running' = Running
    BY DEF Running
  <2>2. TypeOK'
    BY DEF TypeOK, Places
  <2>3. GpuInv'
    BY DEF GpuInv, Switching
  <2>4. TaskInv'
    BY <2>1 DEF TaskInv
  <2>5. FailureInv' /\ IdleInv'
    BY <2>1 DEF FailureInv, IdleInv, GpuInv
  <2> QED
    BY <2>2, <2>3, <2>4, <2>5
<1> QED
  BY <1>1, <1>2, <1>3

\* The steps of _switch: each hands the GPU on only when nothing generates.
LEMMA InvariantSwitch ==
  ASSUME IInv, Drained \/ DrainedCold \/ Unloaded \/ LoadEnds \/ CleanedUp
  PROVE  IInv'
<1> USE DEF IInv, gpuVars, requestVars, taskVars
<1>1. CASE Drained
  <2> USE <1>1 DEF Drained
  <2>1. Running = {} /\ Running' = {}
    BY GatherWaitsForAll DEF Running
  <2>2. TypeOK' /\ GpuInv'
    BY PolicyConfig DEF TypeOK, Places, GpuInv, Switching
  <2>3. TaskInv' /\ FailureInv' /\ IdleInv'
    BY <2>1 DEF TaskInv, FailureInv, IdleInv
  <2> QED
    BY <2>2, <2>3
<1>2. CASE DrainedCold
  <2> USE <1>2 DEF DrainedCold
  <2>1. Running = {} /\ Running' = {}
    BY GatherWaitsForAll DEF Running
  <2>2. TypeOK' /\ GpuInv'
    BY DEF TypeOK, Places, GpuInv, Switching
  <2>3. TaskInv' /\ FailureInv' /\ IdleInv'
    BY <2>1 DEF TaskInv, FailureInv, IdleInv
  <2> QED
    BY <2>2, <2>3
<1>3. CASE Unloaded
  <2> USE <1>3 DEF Unloaded
  <2>1. Running' = Running
    BY DEF Running
  <2>2. TypeOK' /\ GpuInv'
    BY DEF TypeOK, Places, GpuInv, Switching
  <2>3. TaskInv' /\ FailureInv' /\ IdleInv'
    BY <2>1 DEF TaskInv, FailureInv, IdleInv, GpuInv
  <2> QED
    BY <2>2, <2>3
<1>4. CASE Loaded
  <2> USE <1>4 DEF Loaded
  <2>1. resident = None
    BY DEF GpuInv
  <2>2. Running = {} /\ Running' = {}
    BY <2>1, NoResidentNoTasks DEF Running
  <2>3. target \in Models
    BY DEF GpuInv, Switching
  <2>4. TypeOK' /\ GpuInv'
    <3>1. TypeOK'
      BY <2>3 DEF TypeOK, Places
    <3>2. GpuInv'
      BY <2>3, PolicyConfig DEF TypeOK, GpuInv, Switching
    <3> QED
      BY <3>1, <3>2
  <2>5. TaskInv' /\ FailureInv' /\ IdleInv'
    BY <2>2, <2>3 DEF TaskInv, FailureInv, IdleInv, TypeOK
  <2> QED
    BY <2>4, <2>5
<1>5. CASE LoadFails
  <2> USE <1>5 DEF LoadFails
  <2>1. Running' = Running
    BY DEF Running
  <2>2. TypeOK'
    BY EngineConfig DEF TypeOK, Places, Switching
  <2>3. GpuInv'
    BY DEF GpuInv, Switching
  <2>4. TaskInv' /\ FailureInv' /\ IdleInv'
    BY <2>1 DEF TaskInv, FailureInv, IdleInv, GpuInv
  <2> QED
    BY <2>2, <2>3, <2>4
<1>6. CASE CleanedUp
  <2> USE <1>6 DEF CleanedUp
  <2>1. Running' = Running /\ resident = None
    BY DEF Running, GpuInv
  <2>2. TypeOK'
    BY EngineConfig DEF TypeOK, Places, MarkUnavailable
  <2>3. GpuInv'
    BY <2>1 DEF GpuInv, Switching
  <2>4. TaskInv' /\ FailureInv' /\ IdleInv'
    BY <2>1 DEF TaskInv, FailureInv, IdleInv
  <2> QED
    BY <2>2, <2>3, <2>4
<1> QED
  BY <1>1, <1>2, <1>3, <1>4, <1>5, <1>6 DEF LoadEnds

\* A task ends with any outcome, reporting at most its own model.
LEMMA InvariantTask ==
  ASSUME IInv, NEW r \in Running,
         NEW outcome \in Terminal, NEW last \in {"none", "end", "error"},
         EndTask(r, outcome, last),
         \/ failed' = failed
         \/ failed' = failed \cup {ModelOf[r]} /\ r \notin cancelSent,
         faults' \in 0..MaxFaults
  PROVE  IInv'
<1> USE DEF IInv, EndTask, loopVars, gpuVars
<1>1. r \in Requests /\ ModelOf[r] = resident /\ ModelOf[r] \in Models
  BY EngineConfig DEF TaskInv, Running
<1>2. Running' = Running \ {r}
  BY DEF Running, TypeOK, Terminal
<1>3. TypeOK'
  BY <1>1 DEF TypeOK, RequestStates
<1>4. GpuInv'
  BY DEF GpuInv
<1>5. TaskInv'
  <2>1. pending' = {q \in Requests : state'[q] = "queued"}
    BY <1>1 DEF TaskInv, TypeOK, Running, Terminal
  <2>2. \A q \in inFlight' : state'[q] \notin {"new", "queued"}
    BY <1>1 DEF TaskInv, TypeOK, Terminal
  <2>3. \A q \in Requests : terminator'[q] = "none" \/ state'[q] \in Terminal
    BY <1>1 DEF TaskInv, TypeOK, Terminal
  <2> QED
    BY <1>2, <2>1, <2>2, <2>3 DEF TaskInv
<1>6. FailureInv'
  <2>1. \A m \in failed' : m = ModelOf[r]
    BY DEF FailureInv
  <2>2. \A q \in Running' : ModelOf[q] = ModelOf[r]
    BY <1>1, <1>2 DEF TaskInv
  <2>3. pc' \in {"containing", "evicting", "resume"} => failed' = {}
    <3>1. resident # None
      BY <1>1, PolicyConfig
    <3>2. pc \notin {"evicting", "resume"}
      BY <3>1 DEF GpuInv
    <3>3. pc = "containing" => r \in cancelSent
      BY DEF TaskInv
    <3> QED
      BY <3>2, <3>3 DEF FailureInv
  <2> QED
    BY <2>1, <2>2, <2>3 DEF FailureInv
<1>7. IdleInv'
  BY DEF IdleInv
<1> QED
  BY <1>3, <1>4, <1>5, <1>6, <1>7

LEMMA InvariantTaskStep ==
  ASSUME IInv, NEW r \in Requests, TaskStep(r)
  PROVE  IInv'
<1>1. faults \in 0..MaxFaults /\ (faults < MaxFaults => faults + 1 \in 0..MaxFaults)
  BY EngineConfig DEF IInv, TypeOK
<1>2. cancelSent \subseteq Running
  BY DEF IInv, TaskInv
<1>3. CASE ServeEnds(r)
  BY <1>1, <1>3, InvariantTask DEF ServeEnds, Terminal
<1>4. CASE BackendFails(r)
  BY <1>1, <1>4, InvariantTask DEF BackendFails, Terminal
<1>5. CASE StreamBreaks(r)
  BY <1>1, <1>5, InvariantTask DEF StreamBreaks, Terminal
<1>6. CASE TaskCancelled(r)
  BY <1>1, <1>2, <1>6, InvariantTask DEF TaskCancelled, Terminal
<1> QED
  BY <1>3, <1>4, <1>5, <1>6 DEF TaskStep

\* One unit of time: the ages grow together, and a spent backoff stays spent.
LEMMA InvariantTick ==
  ASSUME IInv, Tick
  PROVE  IInv'
<1> USE DEF IInv, Tick, taskVars
<1>1. \A n \in Nat : UpTo(n) \in Nat /\ Shrink(n) \in Nat
  BY EngineConfig DEF UpTo, Shrink
<1>2. \A i, n \in Nat : i <= n => UpTo(i + 1) <= UpTo(n + 1)
  BY EngineConfig DEF UpTo
<1>3. \A n \in Nat : Grow(n) = UpTo(n + 1) /\ Grow(n) \in Nat
  BY <1>1 DEF Grow, NotIdle
<1>4. Grow(NotIdle) = NotIdle
  BY DEF Grow
<1>5. Running' = Running
  BY DEF Running
<1>6. TypeOK'
  <2>1. wait' \in [Requests -> Nat] /\ backoff' \in [Models -> Nat]
    BY <1>1, <1>3 DEF TypeOK
  <2>2. residency' \in Nat /\ idle' \in Nat \cup {NotIdle}
    BY <1>3, <1>4 DEF TypeOK
  <2>3. wakeup' \in BOOLEAN
    BY DEF WaitEnds, TypeOK
  <2> QED
    BY <2>1, <2>2, <2>3 DEF TypeOK
<1>7. GpuInv' /\ TaskInv'
  BY <1>5 DEF GpuInv, TaskInv
<1>8. FailureInv'
  <2>1. resident # None /\ backoff[resident] = 0 => backoff'[resident] = 0
    BY DEF TypeOK, Shrink
  <2> QED
    BY <1>5, <2>1 DEF FailureInv
<1>9. IdleInv'
  <2>1. idle' # NotIdle => idle \in Nat /\ idle' = UpTo(idle + 1)
    BY <1>3, <1>4 DEF TypeOK
  <2>2. resident # None => residency \in Nat /\ residency' = UpTo(residency + 1)
    BY <1>3 DEF TypeOK
  <2>3. \A i \in Nat : i # NotIdle
    BY DEF NotIdle
  <2> QED
    BY <1>2, <2>1, <2>2, <2>3 DEF IdleInv
<1> QED
  BY <1>6, <1>7, <1>8, <1>9

\* The steps of Engine.stop.
LEMMA InvariantStop ==
  ASSUME IInv, Shutdown \/ StopStep
  PROVE  IInv'
<1> USE DEF IInv, gpuVars, requestVars, taskVars
<1>1. CASE Shutdown
  <2> USE <1>1 DEF Shutdown
  <2>1. Running' = Running /\ cancelSent' = Running
    BY DEF Running, Reaped, TaskInv
  <2>2. resident # None => resident \notin {leaving, target}
    BY PolicyConfig DEF GpuInv, TypeOK
  <2>3. TypeOK'
    BY <2>1 DEF TypeOK, Places, Stopping, Running
  <2>4. GpuInv'
    BY <2>2 DEF GpuInv, Switching
  <2>5. TaskInv'
    BY <2>1 DEF TaskInv
  <2>6. FailureInv' /\ IdleInv'
    BY <2>1 DEF FailureInv, IdleInv, Stopping
  <2> QED
    BY <2>3, <2>4, <2>5, <2>6
<1>2. CASE StopGathered
  <2> USE <1>2 DEF StopGathered, Unserved
  <2>1. Running = {}
    BY GatherWaitsForAll
  <2>2. Running' = {}
    BY <2>1 DEF Running
  <2>3. TypeOK'
    BY DEF TypeOK, Places, Stopping, RequestStates, Terminal
  <2>4. GpuInv'
    BY DEF GpuInv, Switching
  <2>5. TaskInv'
    BY <2>1, <2>2 DEF TaskInv, TypeOK, Terminal
  <2>6. FailureInv' /\ IdleInv'
    BY <2>2 DEF FailureInv, IdleInv, Stopping
  <2> QED
    BY <2>3, <2>4, <2>5, <2>6
<1>3. CASE Unwound
  <2> USE <1>3 DEF Unwound
  <2>1. Running = {} /\ Running' = {}
    BY DEF Running, TaskInv
  <2>2. TypeOK' /\ GpuInv'
    BY DEF TypeOK, Places, Stopping, GpuInv, Switching
  <2>3. TaskInv' /\ FailureInv' /\ IdleInv'
    BY <2>1 DEF TaskInv, FailureInv, IdleInv, Stopping
  <2> QED
    BY <2>2, <2>3
<1> QED
  BY <1>1, <1>2, <1>3 DEF StopStep

LEMMA InvariantStep ==
  ASSUME IInv, [Next]_vars
  PROVE  IInv'
<1>1. CASE \E r \in Requests : Submit(r) \/ Cancel(r) \/ TaskStep(r)
  BY <1>1, InvariantClients, InvariantTaskStep
<1>2. CASE LoopStep
  <2>1. Pass \/ Resume => IInv'
    BY PassHasEffect, InvariantPass
  <2> QED
    BY <1>2, <2>1, InvariantContainment, InvariantSwitch DEF LoopStep
<1>3. CASE Tick
  BY <1>3, InvariantTick
<1>4. CASE Shutdown \/ StopStep
  BY <1>4, InvariantStop
<1>5. CASE Off \/ UNCHANGED vars
  BY <1>5, InvariantStutter DEF Off
<1> QED
  BY <1>1, <1>2, <1>3, <1>4, <1>5 DEF Next

-----------------------------------------------------------------------------
(* The theorems *)

\* The inductive invariant holds of every execution.
THEOREM InvariantHolds == Spec => []IInv
<1>1. Init => IInv
  BY InvariantInit
<1>2. IInv /\ [Next]_vars => IInv'
  BY InvariantStep
<1> QED
  BY <1>1, <1>2, PTL DEF Spec

\* Every variable keeps its kind.
THEOREM TypeCorrect == Spec => []TypeOK
<1>1. IInv => TypeOK
  BY DEF IInv
<1> QED
  BY <1>1, InvariantHolds, PTL

\* At most one backend occupies the GPU, through crashes, failed loads and shutdown.
THEOREM OneModelAtATime == Spec => []OneModelOnGpu
<1>1. IInv => OneModelOnGpu
  BY DEF IInv, GpuInv, OneModelOnGpu
<1> QED
  BY <1>1, InvariantHolds, PTL

\* No request generates on a model that is leaving, loading or gone.
THEOREM NothingIsCut == Spec => []RunningOnResident
<1>1. IInv => RunningOnResident
  <2> SUFFICES ASSUME IInv, NEW r \in Running
               PROVE  ModelOf[r] = resident /\ resident \in gpu /\ r \in inFlight
    BY DEF RunningOnResident
  <2>1. ModelOf[r] = resident /\ r \in inFlight
    BY DEF IInv, TaskInv
  <2>2. resident # None
    BY <2>1, PolicyConfig, EngineConfig DEF Running
  <2> QED
    BY <2>1, <2>2 DEF IInv, GpuInv
<1> QED
  BY <1>1, InvariantHolds, PTL

\* Every submitted request is in exactly one place.
THEOREM NoRequestIsLost == Spec => []NothingLost
<1>1. IInv => NothingLost
  BY DEF IInv, TaskInv, NothingLost
<1> QED
  BY <1>1, InvariantHolds, PTL

\* The policy never meets a resident whose backend is in backoff.
THEOREM IncumbentIsAvailable == Spec => []ResidentIsAvailable
<1>1. IInv => ResidentIsAvailable
  BY DEF IInv, FailureInv, ResidentIsAvailable
<1> QED
  BY <1>1, InvariantHolds, PTL

\* No two models are ever reported crashed together.
THEOREM CrashesComeOneByOne == Spec => []OneCrashAtATime
<1>1. IInv => OneCrashAtATime
  BY DEF IInv, FailureInv, OneCrashAtATime
<1> QED
  BY <1>1, InvariantHolds, PTL

\* The idle clock the policy reads while the loop waits is that of a dry resident.
THEOREM IdleClockIsHonest == Spec => []IdleMeansDry
<1>1. IInv => IdleMeansDry
  BY DEF IInv, IdleInv, IdleMeansDry
<1> QED
  BY <1>1, InvariantHolds, PTL

-----------------------------------------------------------------------------
(* What a step may never do *)

\* Requests start, and drains begin, in a pass of the loop and nowhere else.
LEMMA OnlyPassesMove ==
  ASSUME IInv, [Next]_vars
  PROVE  \/ \E taken : PassEffect(taken)
         \/ (pc' = "draining" => pc = "draining") /\ Running' \subseteq Running
<1> DEFINE Still == (pc' = "draining" => pc = "draining") /\ Running' \subseteq Running
<1> USE DEF Running, loopVars, gpuVars, requestVars, taskVars
<1>1. ASSUME NEW r \in Requests, Submit(r) \/ Cancel(r)
      PROVE  Still
  BY <1>1 DEF Submit, Cancel, IInv, TypeOK
<1>2. ASSUME NEW r \in Requests, TaskStep(r)
      PROVE  Still
  BY <1>2 DEF TaskStep, ServeEnds, BackendFails, StreamBreaks, TaskCancelled, EndTask,
              IInv, TypeOK
<1>3. CASE LoopStep
  <2>1. CASE Pass \/ Resume
    BY <2>1, PassHasEffect
  <2>2. CASE ContainCrash \/ CrashContained \/ Evicted
    BY <2>2 DEF ContainCrash, CrashContained, Evicted
  <2>3. CASE Drained \/ DrainedCold \/ Unloaded \/ LoadEnds \/ CleanedUp
    BY <2>3 DEF Drained, DrainedCold, Unloaded, LoadEnds, Loaded, LoadFails, CleanedUp
  <2> QED
    BY <1>3, <2>1, <2>2, <2>3 DEF LoopStep
<1>4. CASE Tick
  BY <1>4 DEF Tick
<1>5. CASE Shutdown \/ StopStep
  BY <1>5 DEF Shutdown, StopStep, StopGathered, Unwound
<1>6. CASE Off \/ UNCHANGED vars
  BY <1>6 DEF Off, vars
<1> QED
  BY <1>1, <1>2, <1>3, <1>4, <1>5, <1>6 DEF Next

\* No request starts for a client that has left, and no switch begins for clients that
\* have all left or for the model already loaded.
THEOREM DepartedMoveNothing == Spec => GhostsMoveNothing
<1>1. ASSUME IInv, [Next]_vars
      PROVE  MovesForTheLiving
  <2>1. CASE \E taken : PassEffect(taken)
    <3>1. PICK taken : PassEffect(taken)
      BY <2>1
    <3> USE <3>1 DEF PassEffect, PassOutcome
    <3>2. taken \cap cancelled = {}
      BY DEF Dispatched, Live
    <3>3. \A r \in Requests : Starts(r) => r \in taken
      BY DEF Starts
    <3>4. pc # "draining" /\ pc' = "draining" =>
            target' # resident /\ \E r \in pending \ cancelled : ModelOf[r] = target'
      BY DEF Live
    <3> QED
      BY <3>2, <3>3, <3>4 DEF MovesForTheLiving
  <2> QED
    BY <1>1, <2>1, OnlyPassesMove DEF MovesForTheLiving, Starts, Running
<1>2. IInv /\ [Next]_vars => [MovesForTheLiving]_vars
  BY <1>1
<1> QED
  BY <1>2, InvariantHolds, PTL DEF Spec, GhostsMoveNothing

\* Within its window a resident that has work is drained only for an overdue model.
THEOREM WindowTheorem == Spec => WindowIsHonoured
<1>1. ASSUME IInv, [Next]_vars, DrainedInWindow
      PROVE  HeadAge(target') >= MaxWait
  <2>1. PICK taken : PassEffect(taken)
    BY <1>1, OnlyPassesMove DEF DrainedInWindow
  <2>2. resident \in Models /\ backoff'[resident] = 0
    BY <1>1, <2>1 DEF DrainedInWindow, PassEffect, IInv, TypeOK
  <2> QED
    BY <1>1, <2>1, <2>2 DEF DrainedInWindow, PassEffect, PassOutcome, Reaped
<1>2. IInv /\ [Next]_vars => [DrainedInWindow => HeadAge(target') >= MaxWait]_vars
  BY <1>1
<1> QED
  BY <1>2, InvariantHolds, PTL DEF Spec, WindowIsHonoured

\* A request ends once, with one terminator at most.
THEOREM EndsAreFinal == Spec => EndIsFinal
<1> USE DEF EndsStay, loopVars, gpuVars, requestVars, taskVars
<1>1. ASSUME IInv, NEW r \in Requests, Submit(r) \/ Cancel(r)
      PROVE  EndsStay
  BY <1>1 DEF Submit, Cancel, IInv, TypeOK, Terminal
<1>2. ASSUME IInv, NEW r \in Requests, TaskStep(r)
      PROVE  EndsStay
  <2>1. r \in Running
    BY <1>2 DEF TaskStep, ServeEnds, BackendFails, StreamBreaks, TaskCancelled, IInv,
                TaskInv
  <2>2. \A q \in Requests \ {r} : state'[q] = state[q] /\ terminator'[q] = terminator[q]
    BY <1>2 DEF TaskStep, ServeEnds, BackendFails, StreamBreaks, TaskCancelled, EndTask,
                IInv, TypeOK
  <2> QED
    BY <2>1, <2>2 DEF Running, Terminal
<1>3. ASSUME IInv, LoopStep
      PROVE  EndsStay
  <2>1. CASE Pass \/ Resume
    <3>1. PICK taken : PassEffect(taken)
      BY <1>3, <2>1, PassHasEffect
    <3>2. \A r \in Purged \cup taken : state[r] = "queued"
      BY <1>3, <3>1 DEF PassEffect, PassOutcome, Purged, Dispatched, Live, IInv, TaskInv
    <3> QED
      BY <3>1, <3>2 DEF PassEffect, PassOutcome, Terminal
  <2>2. CASE ContainCrash \/ CrashContained \/ Evicted
    BY <2>2 DEF ContainCrash, CrashContained, Evicted
  <2>3. CASE Drained \/ DrainedCold \/ Unloaded \/ LoadEnds \/ CleanedUp
    BY <2>3 DEF Drained, DrainedCold, Unloaded, LoadEnds, Loaded, LoadFails, CleanedUp
  <2> QED
    BY <1>3, <2>1, <2>2, <2>3 DEF LoopStep
<1>4. ASSUME IInv, Tick \/ Shutdown \/ Unwound \/ Off \/ UNCHANGED vars
      PROVE  EndsStay
  BY <1>4 DEF Tick, Shutdown, Unwound, Off, vars
<1>5. ASSUME IInv, StopGathered
      PROVE  EndsStay
  BY <1>5 DEF StopGathered, Unserved, IInv, TaskInv, Terminal
<1>6. IInv /\ [Next]_vars => [EndsStay]_vars
  BY <1>1, <1>2, <1>3, <1>4, <1>5 DEF Next, StopStep
<1> QED
  BY <1>6, InvariantHolds, PTL DEF Spec, EndIsFinal

\* FIFO within a model: an older live request has fewer ahead of it, so the cap that lets
\* a younger one start lets it start too.
THEOREM FifoTheorem == Spec => DispatchIsFifo
<1>1. ASSUME IInv, [Next]_vars, NEW r \in Requests, NEW q \in Requests,
             Starts(r), q \in Live(ModelOf[r]), arrival[q] < arrival[r]
      PROVE  state'[q] = "running"
  <2>1. PICK taken : PassEffect(taken)
    BY <1>1, OnlyPassesMove DEF Starts, Running
  <2> USE <2>1 DEF PassEffect, PassOutcome
  <2>2. r \in taken /\ taken = Dispatched
    BY <1>1 DEF Starts
  <2>3. r \in Live(resident) /\ ModelOf[r] = resident
    BY <2>2 DEF Dispatched, Live
  <2>4. Ahead(q, resident) \in SUBSET Ahead(r, resident)
        /\ Ahead(r, resident) \in SUBSET Requests
    BY <1>1, <2>3 DEF Ahead, Live, IInv, TypeOK
  <2>5. /\ Cardinality(Ahead(q, resident)) <= Cardinality(Ahead(r, resident))
        /\ Cardinality(Ahead(q, resident)) \in Nat
        /\ Cardinality(Ahead(r, resident)) \in Nat
    <3>1. IsFiniteSet(Ahead(r, resident))
      BY <2>4, EngineConfig, FS_Subset
    <3>2. IsFiniteSet(Ahead(q, resident))
      BY <2>4, <3>1, FS_Subset
    <3> QED
      BY <2>4, <3>1, <3>2, FS_Subset, FS_CardinalityType
  <2>6. Cardinality(Reaped) \in Nat
    <3>1. Reaped \in SUBSET Requests
      BY DEF Reaped, Running
    <3> QED
      BY <3>1, EngineConfig, FS_Subset, FS_CardinalityType
  <2>7. q \in Dispatched
    BY <1>1, <2>2, <2>3, <2>5, <2>6, EngineConfig DEF Dispatched
  <2>8. q \notin Purged
    BY <1>1 DEF Purged, Live
  <2> QED
    BY <2>2, <2>7, <2>8
<1>2. IInv /\ [Next]_vars => [InOrder]_vars
  BY <1>1 DEF InOrder
<1> QED
  BY <1>2, InvariantHolds, PTL DEF Spec, DispatchIsFifo

-----------------------------------------------------------------------------
(* The concurrency cap.  It needs to know that no two requests hold one ticket. *)

TicketInv ==
    /\ \A r \in Submitted : arrival[r] <= Cardinality(Submitted)
    /\ \A r, q \in Submitted : arrival[r] = arrival[q] => r = q

\* Tickets are given by submissions and by nothing else.
LEMMA OthersGiveNoTickets ==
  ASSUME IInv, [Next]_vars, \A r \in Requests : ~ Submit(r)
  PROVE  Submitted' = Submitted /\ arrival' = arrival
<1> USE DEF loopVars, gpuVars, requestVars, taskVars
<1>1. ASSUME NEW r \in Requests, Cancel(r) \/ TaskStep(r)
      PROVE  Submitted' = Submitted /\ arrival' = arrival
  BY <1>1 DEF Cancel, TaskStep, ServeEnds, BackendFails, StreamBreaks, TaskCancelled,
              EndTask, Submitted, Running, IInv, TypeOK, TaskInv
<1>2. CASE LoopStep
  <2>1. CASE Pass \/ Resume
    <3>1. PICK taken : PassEffect(taken)
      BY <2>1, PassHasEffect
    <3>2. \A r \in Purged \cup taken : state[r] = "queued"
      BY <3>1 DEF PassEffect, PassOutcome, Purged, Dispatched, Live, IInv, TaskInv
    <3> QED
      BY <3>1, <3>2 DEF PassEffect, PassOutcome, Submitted
  <2>2. CASE ContainCrash \/ CrashContained \/ Evicted
    BY <2>2 DEF ContainCrash, CrashContained, Evicted, Submitted
  <2>3. CASE Drained \/ DrainedCold \/ Unloaded \/ LoadEnds \/ CleanedUp
    BY <2>3 DEF Drained, DrainedCold, Unloaded, LoadEnds, Loaded, LoadFails,
                      CleanedUp, Submitted
  <2> QED
    BY <1>2, <2>1, <2>2, <2>3 DEF LoopStep
<1>3. CASE Tick \/ Shutdown \/ Unwound \/ Off \/ UNCHANGED vars
  BY <1>3 DEF Tick, Shutdown, Unwound, Off, vars, Submitted
<1>4. CASE StopGathered
  BY <1>4 DEF StopGathered, Unserved, Submitted, IInv, TaskInv
<1> QED
  BY <1>1, <1>2, <1>3, <1>4 DEF Next, StopStep

LEMMA TicketStep ==
  ASSUME IInv, TicketInv, [Next]_vars
  PROVE  TicketInv'
<1> USE DEF loopVars, gpuVars, requestVars, taskVars
<1>1. ASSUME NEW r \in Requests, Submit(r)
      PROVE  TicketInv'
  <2> DEFINE n == Cardinality(Submitted)
  <2>1. Submitted' = Submitted \cup {r} /\ r \notin Submitted
    BY <1>1 DEF Submit, Submitted, IInv, TypeOK
  <2>2. arrival' = [arrival EXCEPT ![r] = n + 1] /\ arrival \in [Requests -> Nat]
    BY <1>1 DEF Submit, IInv, TypeOK
  <2>3. IsFiniteSet(Submitted) /\ Submitted \subseteq Requests
    <3>1. Submitted \in SUBSET Requests
      BY DEF Submitted
    <3> QED
      BY <3>1, EngineConfig, FS_Subset
  <2>4. n \in Nat /\ Cardinality(Submitted') = n + 1
    BY <2>1, <2>3, FS_CardinalityType, FS_AddElement
  <2>5. /\ \A q \in Submitted : q # r /\ arrival'[q] = arrival[q] /\ arrival[q] <= n
        /\ arrival'[r] = n + 1
    BY <2>1, <2>2, <2>3 DEF TicketInv
  <2>6. \A q \in Submitted : arrival[q] \in Nat
    BY <2>2, <2>3
  <2> HIDE DEF n
  <2>7. \A q \in Submitted' : arrival'[q] <= Cardinality(Submitted')
    BY <2>1, <2>4, <2>5, <2>6
  <2>8. \A p, q \in Submitted' : arrival'[p] = arrival'[q] => p = q
    BY <2>1, <2>4, <2>5, <2>6 DEF TicketInv
  <2> QED
    BY <2>7, <2>8 DEF TicketInv
<1>2. CASE \A r \in Requests : ~ Submit(r)
  BY <1>2, OthersGiveNoTickets DEF TicketInv
<1> QED
  BY <1>1, <1>2

\* What one pass starts fits beside what still runs: the youngest request started is
\* within the cap, and all the others are ahead of it.
LEMMA DispatchFits ==
  ASSUME IInv, TicketInv, CapacityHolds
  PROVE  /\ IsFiniteSet(Dispatched)
         /\ Cardinality(Dispatched) + Cardinality(Reaped) <= Capacity
<1>1. Dispatched \in SUBSET Requests /\ Reaped \in SUBSET Requests /\ Reaped = Running
  BY DEF Dispatched, Live, Reaped, Running, IInv, TypeOK, TaskInv
<1>2. IsFiniteSet(Dispatched) /\ Cardinality(Dispatched) \in Nat
      /\ Cardinality(Reaped) \in Nat
  BY <1>1, EngineConfig, FS_Subset, FS_CardinalityType
<1>3. CASE Dispatched = {}
  BY <1>1, <1>2, <1>3, FS_EmptySet, EngineConfig DEF CapacityHolds
<1>4. CASE Dispatched # {}
  <2>1. \A r \in Dispatched : arrival[r] \in Int
    BY <1>1 DEF IInv, TypeOK
  <2>2. PICK r \in Dispatched : \A q \in Dispatched : arrival[q] <= arrival[r]
    BY <1>2, <1>4, <2>1, GreatestExists DEF Greatest
  <2> DEFINE others == Ahead(r, resident)
  <2>3. others \in SUBSET Requests
    BY DEF Ahead, Live, IInv, TypeOK
  <2>4. IsFiniteSet(others) /\ Cardinality(others) \in Nat
    BY <2>3, EngineConfig, FS_Subset, FS_CardinalityType
  <2>5. Dispatched \in SUBSET (others \cup {r})
    <3>1. ASSUME NEW q \in Dispatched, q # r
          PROVE  q \in Ahead(r, resident)
      <4>1. q \in Live(resident) /\ q \in Submitted /\ r \in Submitted
        BY DEF Dispatched, Live, Submitted, IInv, TypeOK, TaskInv
      <4>2. arrival[q] # arrival[r] /\ arrival[q] <= arrival[r]
        BY <2>2, <3>1, <4>1 DEF TicketInv
      <4> QED
        BY <2>1, <4>1, <4>2 DEF Ahead
    <3> QED
      BY <3>1
  <2>6. Cardinality(others) < Capacity - Cardinality(Reaped)
    BY DEF Dispatched
  <2> HIDE DEF others
  <2>7. r \notin others
    BY <1>1 DEF others, Ahead, IInv, TypeOK
  <2>8. IsFiniteSet(others \cup {r}) /\ Cardinality(others \cup {r}) = Cardinality(others) + 1
    BY <2>4, <2>7, FS_AddElement
  <2>9. Cardinality(Dispatched) <= Cardinality(others) + 1
    BY <2>5, <2>8, FS_Subset
  <2> QED
    BY <1>2, <2>4, <2>6, <2>9, EngineConfig
<1> QED
  BY <1>2, <1>3, <1>4

LEMMA CapacityStep ==
  ASSUME IInv, TicketInv, CapacityHolds, [Next]_vars
  PROVE  CapacityHolds'
<1>1. Running \in SUBSET Requests /\ Running' \in SUBSET Requests
  BY DEF Running
<1>2. IsFiniteSet(Running) /\ IsFiniteSet(Running')
      /\ Cardinality(Running) \in Nat /\ Cardinality(Running') \in Nat
  BY <1>1, EngineConfig, FS_Subset, FS_CardinalityType
<1>3. CASE \E taken : PassEffect(taken)
  <2>1. PICK taken : PassEffect(taken)
    BY <1>3
  <2>2. Running' \in SUBSET (Running \cup taken) /\ Reaped = Running
        /\ taken \in {{}, Dispatched} /\ taken \cap Running = {}
    BY <2>1 DEF PassEffect, PassOutcome, Running, Reaped, Dispatched, Live, IInv, TaskInv
  <2>3. IsFiniteSet(taken) /\ Cardinality(taken) \in Nat
    BY <2>2, DispatchFits, FS_EmptySet, FS_CardinalityType
  <2>4. Cardinality(taken) + Cardinality(Running) <= Capacity
    BY <1>2, <2>2, DispatchFits, FS_EmptySet DEF CapacityHolds
  <2>5. /\ IsFiniteSet(Running \cup taken)
        /\ Cardinality(Running \cup taken) = Cardinality(Running) + Cardinality(taken)
    BY <1>2, <2>2, <2>3, FS_Union, FS_EmptySet
  <2>6. Cardinality(Running') <= Cardinality(Running \cup taken)
    BY <2>2, <2>5, FS_Subset
  <2> QED
    BY <1>2, <2>3, <2>4, <2>5, <2>6, EngineConfig DEF CapacityHolds
<1>4. CASE Running' \subseteq Running
  <2>1. Cardinality(Running') <= Cardinality(Running)
    BY <1>2, <1>4, FS_Subset
  <2> QED
    BY <1>2, <2>1, EngineConfig DEF CapacityHolds
<1> QED
  BY <1>3, <1>4, OnlyPassesMove

\* max_concurrent_requests bounds the tasks alive, whatever finishes, leaves or fails
\* between two passes.
THEOREM CapacityTheorem == Spec => []CapacityHolds
<1>1. Init => TicketInv /\ CapacityHolds
  <2> SUFFICES ASSUME Init
               PROVE  TicketInv /\ CapacityHolds
    OBVIOUS
  <2>1. Submitted = {} /\ Running = {}
    BY DEF Init, Submitted, Running
  <2> QED
    BY <2>1, FS_EmptySet, EngineConfig DEF TicketInv, CapacityHolds
<1>2. IInv /\ TicketInv /\ CapacityHolds /\ [Next]_vars => TicketInv' /\ CapacityHolds'
  BY TicketStep, CapacityStep
<1> QED
  BY <1>1, <1>2, InvariantHolds, PTL DEF Spec

-----------------------------------------------------------------------------
(* A parked loop *)

\* When a pass leaves one of the resident's live requests in its deque, it has taken as
\* many as there were slots: the oldest of those left has all that were taken, and nothing
\* else, ahead of it.
LEMMA DispatchFills ==
  ASSUME IInv, NEW r \in Live(resident) \ Dispatched
  PROVE  Cardinality(Reaped \cup Dispatched) >= Capacity
<1> DEFINE Left == Live(resident) \ Dispatched
           tickets == {arrival[q] : q \in Left}
<1>1. /\ Live(resident) \in SUBSET Requests /\ Dispatched \in SUBSET Requests
      /\ Reaped \in SUBSET Requests
  BY DEF Live, Dispatched, Reaped, IInv, TypeOK
<1>2. tickets \in SUBSET Nat /\ tickets # {}
  BY <1>1 DEF IInv, TypeOK
<1>3. PICK k \in tickets : \A j \in tickets : k <= j
  BY <1>2, LeastNatural
<1>4. PICK q \in Left : arrival[q] = k
  BY <1>3
<1> DEFINE before == Ahead(q, resident)
<1>5. before \in SUBSET Dispatched
  <2> SUFFICES ASSUME NEW p \in before, p \notin Dispatched
               PROVE  FALSE
    OBVIOUS
  <2>1. p \in Left /\ arrival[p] < arrival[q]
    BY DEF Ahead
  <2>2. k <= arrival[p]
    BY <1>3, <2>1
  <2>3. arrival[p] \in Nat /\ arrival[q] \in Nat
    BY <1>1, <2>1 DEF IInv, TypeOK
  <2> QED
    BY <1>4, <2>1, <2>2, <2>3
<1>6. Reaped \cap before = {}
  BY <1>1 DEF Ahead, Live, Reaped, Running, IInv, TaskInv
<1>7. /\ IsFiniteSet(before) /\ Cardinality(before) \in Nat
      /\ IsFiniteSet(Reaped) /\ Cardinality(Reaped) \in Nat
  <2>1. before \in SUBSET Requests
    BY <1>1, <1>5
  <2> QED
    BY <2>1, <1>1, EngineConfig, FS_Subset, FS_CardinalityType
<1>8. Cardinality(before) >= Capacity - Cardinality(Reaped)
  <2>1. ~(Cardinality(before) < Capacity - Cardinality(Reaped))
    BY DEF Dispatched
  <2> HIDE DEF before
  <2> QED
    BY <1>7, <2>1, EngineConfig
<1> HIDE DEF before
<1>9. /\ IsFiniteSet(Reaped \cup before)
      /\ Cardinality(Reaped \cup before) = Cardinality(Reaped) + Cardinality(before)
  <2>1. Cardinality(Reaped \cap before) = 0
    BY <1>6, FS_EmptySet
  <2>2. /\ IsFiniteSet(Reaped \cup before)
        /\ Cardinality(Reaped \cup before)
             = Cardinality(Reaped) + Cardinality(before) - Cardinality(Reaped \cap before)
    BY <1>7, FS_Union
  <2> QED
    BY <1>7, <2>1, <2>2
<1>10. /\ IsFiniteSet(Reaped \cup Dispatched)
       /\ Reaped \cup before \in SUBSET (Reaped \cup Dispatched)
  <2>1. Reaped \cup Dispatched \in SUBSET Requests
    BY <1>1
  <2> QED
    BY <1>5, <2>1, EngineConfig, FS_Subset
<1>11. Cardinality(Reaped \cup before) <= Cardinality(Reaped \cup Dispatched)
  BY <1>10, FS_Subset
<1>12. Cardinality(Reaped \cup Dispatched) \in Nat
  BY <1>10, FS_CardinalityType
<1> QED
  BY <1>7, <1>8, <1>9, <1>11, <1>12, EngineConfig

\* After a pass that waits there is nothing it could have started.
LEMMA PassLeavesNothing ==
  ASSUME IInv, NEW taken, PassEffect(taken)
  PROVE  NoWorkLeftWaiting'
<1> USE DEF PassEffect, PassOutcome
<1> SUFFICES ASSUME pc' = "wait", NEW m \in Models, Live(m)' # {},
                    NEW r \in Live(m)'
             PROVE  \/ m = resident /\ Cardinality(inFlight') >= Capacity
                    \/ m # resident /\ resident # None
                    \/ resident = None /\ backoff'[m] > 0
  BY DEF NoWorkLeftWaiting
<1>1. r \in Live(m) \ taken
  BY DEF Live
<1>2. backoff'[m] \in Nat
  OBVIOUS
<1>3. CASE resident \in Models /\ taken = Dispatched
  <2>1. CASE m = resident
    <3>1. Cardinality(Reaped \cup Dispatched) >= Capacity
      BY <1>1, <1>3, <2>1, DispatchFills
    <3> QED
      BY <1>3, <2>1, <3>1
  <2> QED
    BY <1>3, <2>1, PolicyConfig
<1>4. CASE \A n \in Models : Live(n) # {} => backoff'[n] > 0
  <2>1. backoff'[m] > 0
    BY <1>1, <1>4
  <2>2. m # resident
    BY <1>2, <2>1, PolicyConfig
  <2> QED
    BY <2>1, <2>2
<1> QED
  BY <1>3, <1>4

\* Between two passes nothing makes work that the loop is not woken for.
LEMMA ParkedStep ==
  ASSUME IInv, NoWorkLeftWaiting, [Next]_vars
  PROVE  NoWorkLeftWaiting'
<1> USE DEF loopVars, gpuVars, requestVars, taskVars
<1>1. ASSUME NEW r \in Requests, Submit(r)
      PROVE  NoWorkLeftWaiting'
  BY <1>1 DEF Submit, NoWorkLeftWaiting
<1>2. ASSUME NEW r \in Requests, Cancel(r)
      PROVE  NoWorkLeftWaiting'
  <2>1. \A m \in Models : Live(m)' \subseteq Live(m)
    BY <1>2 DEF Cancel, Live
  <2> QED
    BY <1>2, <2>1 DEF Cancel, NoWorkLeftWaiting
<1>3. ASSUME NEW r \in Requests, TaskStep(r)
      PROVE  NoWorkLeftWaiting'
  <2>1. \A m \in Models : Live(m)' = Live(m)
    BY <1>3 DEF TaskStep, ServeEnds, BackendFails, StreamBreaks, TaskCancelled, EndTask,
                Live
  <2> QED
    BY <1>3, <2>1 DEF TaskStep, ServeEnds, BackendFails, StreamBreaks, TaskCancelled,
                      EndTask, NoWorkLeftWaiting
<1>4. CASE LoopStep
  <2>1. CASE Pass \/ Resume
    <3>1. PICK taken : PassEffect(taken)
      BY <2>1, PassHasEffect
    <3> QED
      BY <3>1, PassLeavesNothing
  <2>2. CASE ContainCrash \/ CrashContained \/ Evicted
    BY <2>2 DEF ContainCrash, CrashContained, Evicted, NoWorkLeftWaiting
  <2>3. CASE Drained \/ DrainedCold \/ Unloaded \/ LoadEnds \/ CleanedUp
    BY <2>3 DEF Drained, DrainedCold, Unloaded, LoadEnds, Loaded, LoadFails, CleanedUp,
                NoWorkLeftWaiting
  <2> QED
    BY <1>4, <2>1, <2>2, <2>3 DEF LoopStep
<1>5. CASE Tick
  BY <1>5 DEF Tick, WaitEnds, NoWorkLeftWaiting
<1>6. CASE Shutdown \/ StopStep
  BY <1>6 DEF Shutdown, StopStep, StopGathered, Unwound, NoWorkLeftWaiting
<1>7. CASE Off \/ UNCHANGED vars
  BY <1>7 DEF Off, vars, Live, NoWorkLeftWaiting
<1> QED
  BY <1>1, <1>2, <1>3, <1>4, <1>5, <1>6, <1>7 DEF Next

\* No wakeup is lost: the loop is parked only beside work that it could not start.
THEOREM NothingWaitsForNothing == Spec => []NoWorkLeftWaiting
<1>1. Init => NoWorkLeftWaiting
  BY DEF Init, NoWorkLeftWaiting
<1>2. IInv /\ NoWorkLeftWaiting /\ [Next]_vars => NoWorkLeftWaiting'
  BY ParkedStep
<1> QED
  BY <1>1, <1>2, InvariantHolds, PTL DEF Spec

-----------------------------------------------------------------------------
(* The engine implements Residency *)

\* The holder of the GPU is the one model of `gpu`.
LEMMA HolderIs ==
  /\ gpu = {} => Holder = None
  /\ \A m : gpu = {m} => Holder = m
  BY DEF Holder

LEMMA HolderType ==
  ASSUME NEW S \in SUBSET Models
  PROVE  (IF S = {} THEN None ELSE CHOOSE m \in S : TRUE) \in Models \cup {None}
  OBVIOUS

LEMMA RefinesInit ==
  ASSUME Init
  PROVE  Gpu!Init
  BY DEF Init, Gpu!Init, Holder, Unstarted, Running

\* A step that leaves the mapped state alone.
LEMMA Unmoved ==
  ASSUME gpu' = gpu, (resident' # None) = (resident # None),
         Unstarted' = Unstarted, Running' = Running
  PROVE  UNCHANGED Gpu!vars
  BY DEF Gpu!vars, Holder

\* A step of the loop that changes who holds the GPU while nobody is resident.
LEMMA Moves ==
  ASSUME IInv, IInv', resident = None, resident' = None,
         Unstarted' = Unstarted, Running' = Running
  PROVE  Gpu!Next
<1>1. Holder' \in Models \cup {None}
  BY HolderType DEF Holder, IInv, TypeOK
<1>2. Gpu!Move(Holder')
  BY DEF Gpu!Move
<1> QED
  BY <1>1, <1>2 DEF Gpu!Next

\* The resident stops serving, and keeps the GPU until its backend has stopped.
LEMMA Retires ==
  ASSUME IInv, IInv', resident # None, resident' = None, Running = {}, Running' = {},
         Unstarted' = Unstarted, gpu' \in {gpu, {}}
  PROVE  Gpu!Next
<1>1. Holder' \in Models \cup {None} /\ Holder' \in {Holder, None}
  BY HolderType, HolderIs DEF Holder, IInv, TypeOK
<1>2. Gpu!Retire(Holder')
  BY <1>1 DEF Gpu!Retire
<1> QED
  BY <1>1, <1>2 DEF Gpu!Next

LEMMA RefinesPass ==
  ASSUME IInv, NEW taken, PassEffect(taken)
  PROVE  Gpu!Next
<1> USE DEF PassEffect, PassOutcome
<1>1. /\ \A r \in Purged \cup taken : r \in Requests /\ state[r] = "queued"
      /\ taken \cap Purged = {}
      /\ \A r \in taken : ModelOf[r] = resident
  BY DEF Purged, Dispatched, Live, IInv, TaskInv, TypeOK
<1>2. Running' = Running \cup taken
  BY <1>1 DEF Running
<1>3. Unstarted' = Unstarted \ (taken \cup Purged)
  BY <1>1 DEF Unstarted
<1>4. taken \in SUBSET Unstarted /\ Purged \in SUBSET Unstarted
  BY <1>1 DEF Unstarted
<1>5. Holder' = Holder /\ (resident # None => Holder = resident)
  BY HolderIs DEF Holder, IInv, GpuInv
<1>6. taken # {} => resident # None
  BY PolicyConfig
<1>7. Gpu!Start(taken, Purged)
  BY <1>1, <1>2, <1>3, <1>5, <1>6 DEF Gpu!Start
<1> QED
  BY <1>4, <1>7 DEF Gpu!Next

LEMMA RefinesClients ==
  ASSUME IInv, NEW r \in Requests, Submit(r) \/ Cancel(r) \/ TaskStep(r)
  PROVE  Gpu!Next \/ UNCHANGED Gpu!vars
<1> USE DEF loopVars, gpuVars, taskVars
<1>1. CASE Submit(r) \/ Cancel(r)
  <2>1. Running' = Running /\ Unstarted' = Unstarted
    BY <1>1 DEF Submit, Cancel, Running, Unstarted, IInv, TypeOK
  <2> QED
    BY <1>1, <2>1, Unmoved DEF Submit, Cancel
<1>2. CASE TaskStep(r)
  <2>1. r \in Running /\ UNCHANGED <<loopVars, gpuVars>>
        /\ \E outcome \in Terminal : state' = [state EXCEPT ![r] = outcome]
    BY <1>2 DEF TaskStep, ServeEnds, BackendFails, StreamBreaks, TaskCancelled, EndTask,
                Terminal, IInv, TaskInv
  <2>2. Running' = Running \ {r} /\ Unstarted' = Unstarted
    BY <2>1 DEF Running, Unstarted, Terminal, IInv, TypeOK
  <2>3. Gpu!Finish(r)
    BY <2>1, <2>2 DEF Gpu!Finish, Holder
  <2> QED
    BY <2>1, <2>3 DEF Gpu!Next
<1> QED
  BY <1>1, <1>2

LEMMA RefinesLoop ==
  ASSUME IInv, IInv', LoopStep
  PROVE  Gpu!Next \/ UNCHANGED Gpu!vars
<1> USE DEF requestVars, gpuVars, taskVars
<1>1. CASE Pass \/ Resume
  BY <1>1, PassHasEffect, RefinesPass
<1>2. CASE ContainCrash
  BY <1>2, Unmoved DEF ContainCrash, Unstarted, Running
<1>3. CASE CrashContained
  <2>1. Running = {} /\ Running' = {} /\ resident # None
    BY <1>3, GatherWaitsForAll DEF CrashContained, Running, IInv, GpuInv
  <2> QED
    BY <1>3, <2>1, Retires DEF CrashContained, Unstarted
<1>4. CASE Drained
  <2>1. Running = {} /\ Running' = {}
    BY <1>4, GatherWaitsForAll DEF Drained, Running
  <2> QED
    BY <1>4, <2>1, Retires DEF Drained, Unstarted
<1>5. CASE Evicted \/ DrainedCold \/ Unloaded \/ CleanedUp
  <2>1. resident = None
    BY <1>5 DEF Evicted, DrainedCold, Unloaded, CleanedUp, IInv, GpuInv
  <2>2. resident' = None /\ Unstarted' = Unstarted /\ Running' = Running
    BY <1>5, <2>1 DEF Evicted, DrainedCold, Unloaded, CleanedUp, Unstarted, Running
  <2> QED
    BY <2>1, <2>2, Moves
<1>6. CASE Loaded
  <2>1. resident = None /\ gpu = {target} /\ target \in Models
    BY <1>6 DEF Loaded, IInv, GpuInv, Switching
  <2>2. /\ resident' # None /\ gpu' = gpu
        /\ Unstarted' = Unstarted /\ Running' = Running
    BY <1>6, <2>1, PolicyConfig DEF Loaded, Unstarted, Running
  <2>3. Holder' = Holder /\ Holder # None
    BY <2>1, <2>2, HolderIs, PolicyConfig DEF Holder
  <2>4. Gpu!Ready
    BY <2>1, <2>2, <2>3 DEF Gpu!Ready
  <2> QED
    BY <2>4 DEF Gpu!Next
<1>7. CASE LoadFails
  BY <1>7, Unmoved DEF LoadFails, Unstarted, Running
<1> QED
  BY <1>1, <1>2, <1>3, <1>4, <1>5, <1>6, <1>7 DEF LoopStep, LoadEnds

LEMMA RefinesStop ==
  ASSUME IInv, IInv', Shutdown \/ StopStep
  PROVE  Gpu!Next \/ UNCHANGED Gpu!vars
<1> USE DEF requestVars, gpuVars, taskVars
<1>1. CASE Shutdown
  <2>1. Unstarted' = Unstarted /\ Running' = Running /\ resident' = resident
    BY <1>1 DEF Shutdown, Unstarted, Running
  <2>2. CASE resident = None
    BY <2>1, <2>2, Moves
  <2>3. CASE resident # None
    <3>1. gpu' = gpu
      BY <1>1, <2>3 DEF Shutdown, IInv, GpuInv
    <3> QED
      BY <2>1, <3>1, Unmoved
  <2> QED
    BY <2>2, <2>3
<1>2. CASE StopGathered
  <2>1. Running = {} /\ Running' = {}
    BY <1>2, GatherWaitsForAll DEF StopGathered, Unserved, Running
  <2>2. pending \in SUBSET Unstarted /\ Unstarted' = Unstarted \ pending
    BY <1>2 DEF StopGathered, Unserved, Unstarted, IInv, TaskInv
  <2>3. Gpu!Start({}, pending)
    BY <1>2, <2>1, <2>2 DEF Gpu!Start, StopGathered, Holder
  <2> QED
    BY <2>2, <2>3 DEF Gpu!Next
<1>3. CASE Unwound
  <2>1. Running = {} /\ Running' = {} /\ resident # None /\ gpu' = {}
    BY <1>3 DEF Unwound, Running, IInv, TaskInv, GpuInv
  <2> QED
    BY <1>3, <2>1, Retires DEF Unwound, Unstarted
<1> QED
  BY <1>1, <1>2, <1>3 DEF StopStep

\* The engine implements the abstract GPU: one holder at a time, which serves only its
\* own requests and retires only when none of them generates.
THEOREM Refinement == Spec => ImplementsResidency
<1>1. Init => Gpu!Init
  BY RefinesInit
<1>2. ASSUME IInv, IInv', [Next]_vars
      PROVE  [Gpu!Next]_(Gpu!vars)
  <2>1. CASE Tick \/ Off \/ UNCHANGED vars
    <3>1. UNCHANGED <<resident, gpu, state>>
      BY <2>1 DEF Tick, Off, vars, loopVars, gpuVars, requestVars, taskVars
    <3> QED
      BY <3>1, Unmoved DEF Unstarted, Running
  <2> QED
    BY <1>2, <2>1, RefinesClients, RefinesLoop, RefinesStop DEF Next
<1>3. IInv /\ IInv' /\ [Next]_vars => [Gpu!Next]_(Gpu!vars)
  BY <1>2
<1> QED
  BY <1>1, <1>3, InvariantHolds, PTL DEF Spec, ImplementsResidency, Gpu!Spec

-----------------------------------------------------------------------------
(* The engine implements RequestLife, what it promises the readers of its queues *)

Lives(r) == Life!Leads(r, state'[r], terminator'[r])
Rests(r) == state'[r] = state[r] /\ terminator'[r] = terminator[r]

\* A step that cancels nobody, and in which each request rests or does what it may.
LEMMA MovesOfALife ==
  ASSUME IInv', cancelled' = cancelled, \A r \in Requests : Rests(r) \/ Lives(r)
  PROVE  Life!Next
<1>1. /\ state' \in [Requests -> Life!States]
      /\ terminator' \in [Requests -> Life!Terminators]
  BY DEF IInv, TypeOK, RequestStates, Terminal, Life!States, Life!Terminators
<1> QED
  BY <1>1 DEF Rests, Lives, Life!Next, Life!Silent

LEMMA LifeOfClientsAndTasks ==
  ASSUME IInv, IInv', NEW r \in Requests, Submit(r) \/ Cancel(r) \/ TaskStep(r)
  PROVE  Life!Next
<1> USE DEF loopVars, gpuVars, requestVars, taskVars
<1>1. CASE Submit(r)
  <2>1. Lives(r)
    BY <1>1 DEF Submit, IInv, TypeOK, Lives, Life!Leads, Life!Submitted, Life!Silent
  <2>2. cancelled' = cancelled /\ \A q \in Requests \ {r} : Rests(q)
    BY <1>1 DEF Submit, IInv, TypeOK, Rests
  <2> QED
    BY <2>1, <2>2, MovesOfALife
<1>2. CASE Cancel(r)
  BY <1>2 DEF Cancel, Life!Next
<1>3. CASE TaskStep(r)
  <2>1. state[r] = "running"
    BY <1>3 DEF TaskStep, ServeEnds, BackendFails, StreamBreaks, TaskCancelled, IInv,
                TaskInv, Running
  <2>2. cancelled' = cancelled /\ \A q \in Requests \ {r} : Rests(q)
    BY <1>3 DEF TaskStep, ServeEnds, BackendFails, StreamBreaks, TaskCancelled, EndTask,
                IInv, TypeOK, Rests
  <2>3. \/ state'[r] = "done" /\ terminator'[r] = "end" /\ r \notin cancelled
        \/ state'[r] = "failed" /\ terminator'[r] = "error"
        \/ state'[r] = "cancelled" /\ terminator'[r] = "none"
    BY <1>3 DEF TaskStep, ServeEnds, BackendFails, StreamBreaks, TaskCancelled, EndTask,
                IInv, TypeOK
  <2>4. terminator[r] = "none"
    BY <2>1 DEF IInv, TaskInv, Terminal
  <2>5. Lives(r)
    BY <2>1, <2>3, <2>4 DEF Lives, Life!Leads, Life!Completed, Life!Failed,
                            Life!CutShort, Life!Silent
  <2> QED
    BY <2>2, <2>5, MovesOfALife
<1> QED
  BY <1>1, <1>2, <1>3

LEMMA LifeOfLoop ==
  ASSUME IInv, IInv', LoopStep
  PROVE  Life!Next \/ UNCHANGED Life!vars
<1> USE DEF loopVars, gpuVars, requestVars, taskVars
<1>1. CASE Pass \/ Resume
  <2>1. PICK taken : PassEffect(taken)
    BY <1>1, PassHasEffect
  <2> USE <2>1 DEF PassEffect, PassOutcome
  <2>2. \A r \in Purged : state[r] = "queued" /\ r \in cancelled
    BY DEF Purged, IInv, TaskInv
  <2>3. \A r \in taken : state[r] = "queued" /\ r \notin cancelled
    BY DEF Dispatched, Live, IInv, TaskInv
  <2>4. ASSUME NEW r \in Requests
        PROVE  Rests(r) \/ Lives(r)
    BY <2>2, <2>3 DEF Rests, Lives, Life!Leads, Life!Purged, Life!Dispatched, Life!Silent
  <2> QED
    BY <2>4, MovesOfALife
<1>2. CASE ContainCrash \/ CrashContained \/ Evicted
  BY <1>2 DEF ContainCrash, CrashContained, Evicted, Life!vars
<1>3. CASE Drained \/ DrainedCold \/ Unloaded \/ LoadEnds \/ CleanedUp
  BY <1>3 DEF Drained, DrainedCold, Unloaded, LoadEnds, Loaded, LoadFails, CleanedUp,
              Life!vars
<1> QED
  BY <1>1, <1>2, <1>3 DEF LoopStep

\* Whatever crashes, leaves or stops, the life of a request is as RequestLife says.
THEOREM LifeTheorem == Spec => ImplementsRequestLife
<1>1. Init => Life!Init
  BY DEF Init, Life!Init
<1>2. ASSUME IInv, IInv', StopGathered
      PROVE  Life!Next
  <2>1. ASSUME NEW r \in Requests
        PROVE  Rests(r) \/ Lives(r)
    BY <1>2 DEF StopGathered, Unserved, IInv, TaskInv, Rests, Lives, Life!Leads,
                Life!TurnedAway
  <2> QED
    BY <1>2, <2>1, MovesOfALife DEF StopGathered
<1>3. ASSUME IInv, IInv', Tick \/ Shutdown \/ Unwound \/ Off \/ UNCHANGED vars
      PROVE  UNCHANGED Life!vars
  BY <1>3 DEF Tick, Shutdown, Unwound, Off, vars, requestVars, Life!vars
<1>4. ASSUME IInv, IInv', [Next]_vars
      PROVE  [Life!Next]_(Life!vars)
  BY <1>2, <1>3, <1>4, LifeOfClientsAndTasks, LifeOfLoop DEF Next, StopStep
<1>5. IInv /\ IInv' /\ [Next]_vars => [Life!Next]_(Life!vars)
  BY <1>4
<1> QED
  BY <1>1, <1>5, InvariantHolds, PTL DEF Spec, ImplementsRequestLife, Life!Spec

-----------------------------------------------------------------------------
(* The engine implements TicketQueue, as the deques of queues.py do *)

\* A ticket is had from the submission on.
TicketsGiven == \A r \in Requests : arrival[r] > 0 <=> r \in Submitted

LEMMA SameCardinality == \A T : Tickets!Cardinality(T) = Cardinality(T)
BY Zenon DEF Tickets!Cardinality, Cardinality

LEMMA SubmitGivesTicket ==
  ASSUME IInv, TicketsGiven, NEW r \in Requests, Submit(r)
  PROVE  TicketsGiven' /\ Tickets!Enqueue(r)
<1>1. /\ Submitted' = Submitted \cup {r} /\ r \notin Submitted
      /\ arrival' = [arrival EXCEPT ![r] = Cardinality(Submitted) + 1]
      /\ arrival \in [Requests -> Nat]
      /\ pending' = pending \cup {r} /\ cancelled' = cancelled
  BY DEF Submit, Submitted, IInv, TypeOK
<1>2. Cardinality(Submitted) \in Nat
  <2>1. Submitted \in SUBSET Requests
    BY DEF Submitted
  <2> QED
    BY <2>1, EngineConfig, FS_Subset, FS_CardinalityType
<1>3. TicketsGiven'
  BY <1>1, <1>2 DEF TicketsGiven
<1>4. Submitted = {q \in Requests : arrival[q] > 0} /\ arrival[r] = 0
  <2>1. Submitted \subseteq Requests
    BY DEF Submitted
  <2> QED
    BY <1>1, <2>1 DEF TicketsGiven
<1>5. arrival' = [arrival EXCEPT ![r] = 1 + Cardinality({q \in Requests : arrival[q] > 0})]
  <2>1. Cardinality(Submitted) = Cardinality({q \in Requests : arrival[q] > 0})
    BY <1>4
  <2>2. Cardinality(Submitted) + 1 = 1 + Cardinality({q \in Requests : arrival[q] > 0})
    BY <1>2, <2>1
  <2> QED
    BY <1>1, <2>2
<1> QED
  BY <1>1, <1>3, <1>4, <1>5, SameCardinality DEF Tickets!Enqueue

\* What a dispatch takes is what as many as there are slots, or requests, would take.
LEMMA DispatchTakes ==
  ASSUME IInv, Dispatched # {}
  PROVE  \E n \in 0..Cardinality(Requests) :
            Dispatched = {r \in Live(resident) : Cardinality(Ahead(r, resident)) < n}
<1> DEFINE slots == Capacity - Cardinality(Reaped)
           all == Cardinality(Requests)
           ahead(r) == Cardinality(Ahead(r, resident))
<1>1. slots \in Int /\ all \in Nat
  <2>1. Reaped \in SUBSET Requests
    BY DEF Reaped, Running
  <2> QED
    BY <2>1, EngineConfig, FS_Subset, FS_CardinalityType
<1>2. ASSUME NEW r \in Live(resident)
      PROVE  ahead(r) \in Nat /\ ahead(r) < all
  <2>1. Ahead(r, resident) \in SUBSET Requests /\ r \in Requests /\ r \notin Ahead(r, resident)
    BY DEF Ahead, Live, IInv, TypeOK
  <2>2. /\ IsFiniteSet(Ahead(r, resident))
        /\ Cardinality(Ahead(r, resident)) <= Cardinality(Requests)
        /\ Cardinality(Ahead(r, resident)) # Cardinality(Requests)
    BY <2>1, EngineConfig, FS_Subset
  <2>3. Cardinality(Ahead(r, resident)) \in Nat
    BY <2>2, FS_CardinalityType
  <2> QED
    BY <1>1, <2>2, <2>3
<1>3. Dispatched = {r \in Live(resident) : ahead(r) < slots}
  BY DEF Dispatched
<1> HIDE DEF slots, all, ahead
<1>4. slots > 0
  BY <1>1, <1>2, <1>3
<1>5. CASE slots <= all
  BY <1>1, <1>3, <1>4, <1>5 DEF all, ahead
<1>6. CASE slots > all
  <2>1. Dispatched = {r \in Live(resident) : ahead(r) < all}
    BY <1>1, <1>2, <1>3, <1>6
  <2> QED
    BY <1>1, <2>1 DEF all, ahead
<1> QED
  BY <1>1, <1>5, <1>6

LEMMA PassServesTickets ==
  ASSUME IInv, Pass \/ Resume
  PROVE  Tickets!Next
<1>1. PICK taken : PassEffect(taken)
  BY PassHasEffect
<1>2. /\ taken \in {{}, Dispatched}
      /\ taken # {} => resident \in Models
      /\ pending' = pending \ (Purged \cup taken) /\ UNCHANGED <<arrival, cancelled>>
  BY <1>1 DEF PassEffect, PassOutcome
<1>3. CASE taken = {}
  <2>1. Tickets!Purge
    BY <1>2, <1>3 DEF Purged, Tickets!Purge
  <2> QED
    BY <2>1 DEF Tickets!Next
<1>4. CASE taken # {}
  <2>1. PICK n \in 0..Cardinality(Requests) :
            Dispatched = {r \in Live(resident) : Cardinality(Ahead(r, resident)) < n}
    BY <1>2, <1>4, DispatchTakes
  <2>2. /\ Tickets!Live(resident) = Live(resident)
        /\ \A r : Tickets!Ahead(r, resident) = Ahead(r, resident)
    BY DEF Live, Tickets!Live, Ahead, Tickets!Ahead
  <2>3. Dispatched = {r \in Tickets!Live(resident) :
                        Tickets!Cardinality(Tickets!Ahead(r, resident)) < n}
    BY <2>1, <2>2, SameCardinality
  <2>4. /\ (pending \cap cancelled) \in SUBSET (pending \cap cancelled)
        /\ pending' = pending \ ((pending \cap cancelled) \cup Dispatched)
    BY <1>2, <1>4 DEF Purged
  <2>5. Tickets!Take(resident, n)
    BY <1>2, <2>3, <2>4 DEF Tickets!Take
  <2>6. n \in 0..Tickets!Cardinality(Requests) /\ resident \in Models
    <3>1. Tickets!Cardinality(Requests) = Cardinality(Requests)
      BY SameCardinality, Zenon
    <3> QED
      BY <1>2, <1>4, <3>1
  <2> QED
    BY <2>5, <2>6 DEF Tickets!Next
<1> QED
  BY <1>3, <1>4

\* The queues of the engine and the deques of queues.py (SyncTheorems) implement the same
\* abstract queue, so what is proved of the one order holds of the other.
THEOREM TicketTheorem == Spec => ImplementsTickets
<1>1. Init => TicketsGiven /\ Tickets!Init
  BY DEF Init, TicketsGiven, Submitted, Tickets!Init
<1>2. ASSUME IInv, TicketsGiven, [Next]_vars
      PROVE  TicketsGiven'
  <2>1. CASE \A r \in Requests : ~ Submit(r)
    BY <1>2, <2>1, OthersGiveNoTickets DEF TicketsGiven
  <2> QED
    BY <1>2, <2>1, SubmitGivesTicket
<1>3. ASSUME IInv, TicketsGiven, [Next]_vars
      PROVE  [Tickets!Next]_(Tickets!vars)
  <2> USE DEF loopVars, gpuVars, requestVars, taskVars
  <2>1. ASSUME NEW r \in Requests, Submit(r)
        PROVE  Tickets!Next
    BY <1>3, <2>1, SubmitGivesTicket DEF Tickets!Next
  <2>2. ASSUME NEW r \in Requests, Cancel(r)
        PROVE  Tickets!Next
    <3>1. Tickets!Depart
      BY <1>3, <2>2, EngineConfig DEF Cancel, Tickets!Depart, IInv, TypeOK
    <3> QED
      BY <3>1 DEF Tickets!Next
  <2>3. ASSUME NEW r \in Requests, TaskStep(r)
        PROVE  UNCHANGED Tickets!vars
    BY <2>3 DEF TaskStep, ServeEnds, BackendFails, StreamBreaks, TaskCancelled, EndTask,
                Tickets!vars
  <2>4. CASE Pass \/ Resume
    BY <1>3, <2>4, PassServesTickets
  <2>5. CASE ContainCrash \/ CrashContained \/ Evicted \/ Drained \/ DrainedCold
    BY <2>5 DEF ContainCrash, CrashContained, Evicted, Drained, DrainedCold, Tickets!vars
  <2>6. CASE Unloaded \/ LoadEnds \/ CleanedUp
    BY <2>6 DEF Unloaded, LoadEnds, Loaded, LoadFails, CleanedUp, Tickets!vars
  <2>7. CASE StopGathered
    <3>1. Tickets!Close
      BY <2>7 DEF StopGathered, Tickets!Close
    <3> QED
      BY <3>1 DEF Tickets!Next
  <2>8. CASE Tick \/ Shutdown \/ Unwound \/ Off \/ UNCHANGED vars
    BY <2>8 DEF Tick, Shutdown, Unwound, Off, vars, Tickets!vars
  <2> QED
    BY <1>3, <2>1, <2>2, <2>3, <2>4, <2>5, <2>6, <2>7, <2>8 DEF Next, LoopStep, StopStep
<1>4. IInv /\ TicketsGiven /\ [Next]_vars => TicketsGiven' /\ [Tickets!Next]_(Tickets!vars)
  BY <1>2, <1>3
<1> QED
  BY <1>1, <1>4, InvariantHolds, PTL DEF Spec, ImplementsTickets, Tickets!Spec

\* Order in the queues, pass by pass and as a refinement.
THEOREM OrderTheorem == Spec => QueuesKeepOrder
<1> QED
  BY FifoTheorem, TicketTheorem DEF QueuesKeepOrder

-----------------------------------------------------------------------------
(* The incumbent *)

\* Who holds the GPU is never in doubt between two passes, for any number of models,
\* crashes and cancellations.
THEOREM IncumbentSound == Spec => []IncumbentIsSound
BY TypeCorrect, NothingIsCut, IncumbentIsAvailable, CrashesComeOneByOne, IdleClockIsHonest,
   PTL DEF IncumbentIsSound
=============================================================================
