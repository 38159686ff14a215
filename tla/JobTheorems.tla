---------------------------- MODULE JobTheorems ----------------------------
(***************************************************************************)
(* Proofs about the JobStore: its tables, the one generation per key, the    *)
(* lease, the finality of an ended job and the implementation of JobService, *)
(* for any jobs, keys, places and times.                                    *)
(***************************************************************************)
EXTENDS JobProperties, FiniteSetTheorems, TLAPS

-----------------------------------------------------------------------------
(* The inductive invariant *)

Told == [status : {"nothing"} \cup Life!States, chunks : Nat, due : 0..LongestAdvice]
Typed == TypeOK /\ {sent, chunks} \subseteq [Ids -> Nat] /\ told \in [Obedient -> Told]

\* A queue's terminator agrees with its request's state, and a buffer with its queue; a
\* cancelled job's pump no longer reads.
BufferInv ==
    /\ phase = "closed" => store = {}
    /\ \A j \in Ids :
         /\ state[j] = "new" => pump[j] = "none" /\ j \notin cancelled
         /\ state[j] \in {"new", "queued", "running"} => terminator[j] = "none"
         /\ terminator[j] = "end" => state[j] = "done"
         /\ terminator[j] = "error" => state[j] = "failed" \/ phase = "closed"
         /\ terminal[j] # "none" => terminal[j] = terminator[j] /\ chunks[j] = sent[j]
         /\ j \in store \cap cancelled => pump[j] # "reading"

\* A key leads to a job that was submitted under it.
KeyInv ==
    /\ KeysLeadToTheirJobs
    /\ \A k \in Keys : byKey[k] # Nobody => KeyOf[byKey[k]] = k

\* Until the end, what generates for a client is retained.
PayInv ==
    /\ phase # "closed" => \A j \in Ids : Paying(j) => j \in store
    /\ OneGenerationPerKey

\* The sweep to come finds no live job unpolled for longer than the lease and a sweep.
LeaseInv ==
    Lease > 0 => \A j \in store :
                   IsTerminal(j) \/ polled[j] + sweepIn <= Lease + SweepInterval

JInv == Typed /\ BufferInv /\ StoreBounded /\ KeyInv /\ PayInv /\ LeaseInv

-----------------------------------------------------------------------------
(* Types *)

LEMMA StateKinds ==
  ASSUME TypeOK, NEW j \in store
  PROVE  JobState(j) \in Life!States \ {"new"}
BY DEF TypeOK, JobState, Derived, Life!States, Life!Terminators

\* A document that is shown leaves the record of what was told well formed.
LEMMA ShowKinds ==
  ASSUME Typed, NEW j \in Ids, NEW status \in Life!States, Show(j, status)
  PROVE  told' \in [Obedient -> Told]
<1>1. CASE j \notin Obedient
  BY <1>1 DEF Show, Typed
<1>2. CASE j \in Obedient
  <2>1. PICK a \in 0..LongestAdvice :
          told' = [told EXCEPT ![j] = [status |-> status, chunks |-> chunks[j], due |-> a]]
    BY <1>2, JobsConfig DEF Show, Advice
  <2>2. chunks[j] \in Nat
    BY JobsConfig DEF Typed, TypeOK
  <2> QED
    BY <2>1, <2>2 DEF Typed, Told
<1> QED
  BY <1>1, <1>2

LEMMA ToldKinds ==
  ASSUME NEW t \in [Obedient -> Told], NEW j \in Obedient
  PROVE  t[j].due \in 0..LongestAdvice
BY DEF Told

LEMMA EngineKinds ==
  ASSUME Typed, NEW j \in Ids, EngineMoves(j) \/ Emit(j)
  PROVE  Typed'
<1>1. CASE EngineMoves(j)
  <2>1. PICK s \in Life!States, t \in Life!Terminators :
          /\ state[j] # "new"
          /\ Life!Leads(j, s, t)
          /\ state' = [state EXCEPT ![j] = s]
          /\ terminator' = [terminator EXCEPT ![j] = t]
    BY <1>1 DEF EngineMoves
  <2>2. s # "new"
    BY <2>1 DEF Life!Leads, Life!Submitted, Life!Dispatched, Life!Purged, Life!TurnedAway,
                Life!Completed, Life!Failed, Life!CutShort
  <2>3. contained' \in 0..MaxContained
    BY <1>1, JobsConfig DEF EngineMoves, Typed, TypeOK
  <2>4. store' \subseteq {i \in Ids : state'[i] # "new"}
    BY <1>1, <2>1, <2>2 DEF EngineMoves, storeVars, Typed, TypeOK
  <2> QED
    BY <1>1, <2>1, <2>3, <2>4 DEF EngineMoves, Typed, TypeOK, bufferVars, storeVars, jobVars
<1>2. CASE Emit(j)
  <2>1. sent' \in [Ids -> Nat]
    BY <1>2 DEF Emit, Typed
  <2>2. \A i \in Ids : sent'[i] \in 0..MaxChunks[i] /\ chunks'[i] \in 0..sent'[i]
    <3> TAKE i \in Ids
    <3>1. sent[i] \in Nat /\ MaxChunks[i] \in Nat /\ sent[i] <= MaxChunks[i] /\ chunks[i] \in 0..sent[i]
      BY JobsConfig DEF Typed, TypeOK
    <3>2. sent'[i] = IF i = j THEN sent[j] + 1 ELSE sent[i]
      BY <1>2 DEF Emit, Typed
    <3>3. i = j => sent[i] < MaxChunks[i]
      BY <1>2 DEF Emit
    <3>4. chunks' = chunks
      BY <1>2 DEF Emit, bufferVars
    <3> QED
      BY <3>1, <3>2, <3>3, <3>4
  <2> QED
    BY <1>2, <2>1, <2>2 DEF Emit, Typed, TypeOK, bufferVars, storeVars, jobVars
<1> QED
  BY <1>1, <1>2

LEMMA TimeKinds ==
  ASSUME Typed, Tick
  PROVE  Typed'
<1>1. \A n \in 0..AgeCap : UpTo(n + 1) \in 0..AgeCap
  BY JobsConfig DEF UpTo
<1>2. polled' \in [store -> 0..AgeCap] /\ since' \in [store -> 0..AgeCap]
  BY <1>1 DEF Tick, Older, Typed, TypeOK
<1>3. read' \in [store -> {Unread} \cup 0..AgeCap]
  BY <1>1 DEF Tick, Typed, TypeOK
<1>4. told' \in [Obedient -> Told]
  BY JobsConfig DEF Tick, Typed, Told
<1>5. sweepIn' \in 0..SweepInterval
  BY JobsConfig DEF Tick, Typed, TypeOK
<1> QED
  BY <1>2, <1>3, <1>4, <1>5, ToldKinds
     DEF Tick, Typed, TypeOK, requestVars, bufferVars, storeVars

\* A field keeps its kind when jobs are created and forgotten.
LEMMA KeptKinds ==
  ASSUME NEW V, NEW S, NEW T, NEW new, NEW v \in V, NEW field \in [S -> V], T \subseteq S \cup new
  PROVE  Kept(field, T, new, v) \in [T -> V]
BY DEF Kept

LEMMA SubmitKinds ==
  ASSUME Typed, NEW j \in Ids, Submit(j)
  PROVE  Typed'
<1>1. PICK gone \in Evictions :
        /\ store' = (store \ gone) \cup {j}
        /\ byKey' = [k \in Keys |-> IF k = KeyOf[j] THEN j ELSE Without(gone)[k]]
        /\ finished' = finished \ gone
  BY DEF Submit
<1>2. byKey' \in [Keys -> Ids \cup {Nobody}]
  BY <1>1 DEF Without, Typed, TypeOK
<1>3. polled' \in [store' -> 0..AgeCap] /\ since' \in [store' -> 0..AgeCap]
  <2>1. 0 \in 0..AgeCap /\ store' \subseteq store \cup {j}
    BY <1>1, JobsConfig
  <2> QED
    BY <2>1, KeptKinds DEF Submit, Typed, TypeOK
<1>4. read' \in [store' -> {Unread} \cup 0..AgeCap]
  BY <1>1, KeptKinds DEF Submit, Typed, TypeOK
<1>5. told' \in [Obedient -> Told]
  BY ShowKinds DEF Submit, Life!States
<1>6. state' \in [Ids -> Life!States] /\ pump' \in [Ids -> {"none", "reading", "cancelling", "over"}]
  BY DEF Submit, Typed, TypeOK, Life!States
<1>7. store' \subseteq {i \in Ids : state'[i] # "new"} /\ finished' \subseteq store'
  BY <1>1 DEF Submit, Typed, TypeOK
<1> QED
  BY <1>2, <1>3, <1>4, <1>5, <1>6, <1>7, ToldKinds DEF Submit, Typed, TypeOK

LEMMA AnswerKinds ==
  ASSUME Typed, \/ \E j \in Ids : Refuse(j) \/ Poll(j)
                \/ \E k \in Keys : Resubmit(k)
  PROVE  Typed'
<1>1. ASSUME NEW j \in Ids, Refuse(j) PROVE Typed'
  BY <1>1 DEF Refuse, Typed, TypeOK, Life!States, bufferVars, storeVars, jobVars
<1>2. ASSUME NEW j \in Ids, Poll(j) PROVE Typed'
  <2>1. told' \in [Obedient -> Told]
    BY <1>2, ShowKinds, StateKinds DEF Poll, Typed
  <2> QED
    BY <1>2, <2>1, ToldKinds, JobsConfig
       DEF Poll, Typed, TypeOK, requestVars, bufferVars, storeVars
<1>3. ASSUME NEW k \in Keys, Resubmit(k) PROVE Typed'
  <2>1. byKey[k] \in Ids /\ JobState(byKey[k]) \in Life!States
    BY <1>3, StateKinds DEF Resubmit, KeyKnown, Typed, TypeOK
  <2>2. told' \in [Obedient -> Told]
    BY <1>3, <2>1, ShowKinds DEF Resubmit
  <2> QED
    BY <1>3, <2>2, ToldKinds DEF Resubmit, Typed, TypeOK, requestVars, bufferVars, storeVars, jobVars
<1> QED
  BY <1>1, <1>2, <1>3

LEMMA PumpKinds ==
  ASSUME Typed, NEW j \in Ids, Delete(j) \/ PumpReads(j) \/ PumpCancelled(j)
  PROVE  Typed'
<1>1. CASE Delete(j)
  BY <1>1, JobsConfig DEF Delete, Abandon, PumpsStopped, Typed, TypeOK, storeVars
<1>2. CASE PumpReads(j)
  BY <1>2, JobsConfig DEF PumpReads, Finish, Typed, TypeOK, requestVars, storeVars
<1>3. CASE PumpCancelled(j)
  BY <1>3, JobsConfig DEF PumpCancelled, Finish, Typed, TypeOK, requestVars, storeVars
<1> QED
  BY <1>1, <1>2, <1>3

LEMMA SweepKinds ==
  ASSUME Typed, Sweep
  PROVE  Typed'
<1>1. store' = store \ Expired /\ Unclaimed \subseteq store
  BY DEF Sweep, Unclaimed
<1>2. byKey' \in [Keys -> Ids \cup {Nobody}]
  BY DEF Sweep, Without, Typed, TypeOK
<1>3. polled' \in [store' -> 0..AgeCap] /\ since' \in [store' -> 0..AgeCap]
  <2>1. 0 \in 0..AgeCap
    BY JobsConfig
  <2>2. store' \subseteq store \cup {} /\ store' \subseteq store \cup (Unclaimed \ finished)
    BY <1>1
  <2>3. Kept(polled, store', {}, 0) \in [store' -> 0..AgeCap]
    BY <2>1, <2>2, KeptKinds DEF Typed, TypeOK
  <2>4. Kept(since, store', Unclaimed \ finished, 0) \in [store' -> 0..AgeCap]
    BY <2>1, <2>2, KeptKinds DEF Typed, TypeOK
  <2> QED
    BY <2>3, <2>4 DEF Sweep
<1>4. read' \in [store' -> {Unread} \cup 0..AgeCap]
  BY <1>1, KeptKinds DEF Sweep, Typed, TypeOK
<1>5. pump' \in [Ids -> {"none", "reading", "cancelling", "over"}]
  BY DEF Sweep, Abandon, PumpsStopped, Typed, TypeOK
<1>6. sweepIn' \in 0..SweepInterval /\ cancelled' \subseteq Ids
  BY <1>1, JobsConfig DEF Sweep, Abandon, Typed, TypeOK
<1>7. finished' \subseteq store' /\ store' \subseteq {j \in Ids : state'[j] # "new"}
  BY <1>1 DEF Sweep, Typed, TypeOK
<1> QED
  BY <1>1, <1>2, <1>3, <1>4, <1>5, <1>6, <1>7 DEF Sweep, Abandon, Typed, TypeOK

LEMMA CloseKinds ==
  ASSUME Typed, Close \/ StopStep
  PROVE  Typed'
<1>1. CASE Close
  BY <1>1 DEF Close, Typed, TypeOK, Phases, requestVars, bufferVars, storeVars, jobVars
<1>2. CASE StopPumps
  BY <1>2 DEF StopPumps, PumpsStopped, Typed, TypeOK, Phases, requestVars, storeVars, jobVars
<1>3. CASE Clear
  BY <1>3 DEF Clear, Typed, TypeOK, Phases, requestVars, bufferVars
<1> QED
  BY <1>1, <1>2, <1>3 DEF StopStep

LEMMA KindsKept ==
  ASSUME Typed, [Next]_vars
  PROVE  Typed'
<1>1. ASSUME NEW j \in Ids, Submit(j) \/ Refuse(j) \/ Poll(j) \/ Delete(j)
      PROVE  Typed'
  BY <1>1, SubmitKinds, AnswerKinds, PumpKinds
<1>2. ASSUME NEW j \in Ids, EngineMoves(j) \/ Emit(j) \/ PumpStep(j)
      PROVE  Typed'
  BY <1>2, EngineKinds, PumpKinds DEF PumpStep
<1>3. CASE Closed \/ UNCHANGED vars
  BY <1>3 DEF Closed, Typed, TypeOK, vars, requestVars, bufferVars, storeVars, jobVars
<1> QED
  BY <1>1, <1>2, <1>3, AnswerKinds, TimeKinds, SweepKinds, CloseKinds DEF Next, Client

-----------------------------------------------------------------------------
(* Buffers and the finality of an end *)

\* An ended job in the store has a request that is over, or was cancelled.
LEMMA EndedMeansOver ==
  ASSUME Typed, BufferInv, NEW j \in store
  PROVE  /\ IsTerminal(j) <=> j \in cancelled \/ state[j] \in Terminal
         /\ terminal[j] = "end" => state[j] = "done"
         /\ terminal[j] = "error" => state[j] = "failed"
         /\ terminal[j] = "none" => JobState(j) = IF j \in cancelled THEN "cancelled" ELSE state[j]
         /\ terminal[j] # "none" => JobState(j) = state[j]
BY DEF Typed, TypeOK, BufferInv, IsTerminal, JobState, Derived, Terminal, Life!States,
       Life!Terminators

\* A step of the engine.
LEMMA EngineStep ==
  ASSUME NEW j \in Ids, EngineMoves(j)
  PROVE  \E s \in Life!States \ {"new", "queued"}, t \in Life!Terminators :
           /\ state[j] \in {"queued", "running"}
           /\ state' = [state EXCEPT ![j] = s] /\ terminator' = [terminator EXCEPT ![j] = t]
           /\ s = "running" => state[j] = "queued" /\ t = terminator[j] /\ j \notin cancelled
           /\ s = "done" => state[j] = "running" /\ t = "end" /\ j \notin cancelled
           /\ s = "failed" => state[j] = "running" /\ t = "error"
           /\ s = "cancelled" => \/ t = terminator[j] /\ (state[j] = "queued" => j \in cancelled)
                                 \/ t = "error" /\ phase = "closed"
BY DEF EngineMoves, StoreHasStopped, Life!Leads, Life!Submitted, Life!Dispatched, Life!Purged,
       Life!TurnedAway, Life!Completed, Life!Failed, Life!CutShort, Life!Silent, Life!States

LEMMA EngineBuffers ==
  ASSUME Typed, BufferInv, NEW j \in Ids, EngineMoves(j) \/ Emit(j)
  PROVE  BufferInv'
<1>1. CASE EngineMoves(j)
  <2>1. PICK s \in Life!States \ {"new", "queued"}, t \in Life!Terminators :
           /\ state[j] \in {"queued", "running"}
           /\ state' = [state EXCEPT ![j] = s] /\ terminator' = [terminator EXCEPT ![j] = t]
           /\ s = "running" => state[j] = "queued" /\ t = terminator[j] /\ j \notin cancelled
           /\ s = "done" => state[j] = "running" /\ t = "end" /\ j \notin cancelled
           /\ s = "failed" => state[j] = "running" /\ t = "error"
           /\ s = "cancelled" => \/ t = terminator[j] /\ (state[j] = "queued" => j \in cancelled)
                                 \/ t = "error" /\ phase = "closed"
    BY <1>1, EngineStep
  <2>2. terminator[j] = "none" /\ terminal[j] = "none"
    BY <2>1 DEF BufferInv
  <2> QED
    BY <1>1, <2>1, <2>2
       DEF EngineMoves, BufferInv, Typed, TypeOK, Life!States, bufferVars, storeVars
<1>2. CASE Emit(j)
  BY <1>2 DEF Emit, BufferInv, Typed, TypeOK, bufferVars, storeVars
<1> QED
  BY <1>1, <1>2

LEMMA ClientBuffers ==
  ASSUME Typed, BufferInv, NEW j \in Ids, Submit(j) \/ Refuse(j) \/ Poll(j) \/ Delete(j)
  PROVE  BufferInv'
<1>1. CASE Submit(j)
  <2>1. store' \subseteq store \cup {j}
    BY <1>1 DEF Submit
  <2> QED
    BY <1>1, <2>1 DEF Submit, BufferInv, Typed, TypeOK
<1>2. CASE Refuse(j)
  BY <1>2 DEF Refuse, BufferInv, Typed, TypeOK, bufferVars, storeVars
<1>3. CASE Poll(j)
  BY <1>3 DEF Poll, BufferInv, requestVars, bufferVars, storeVars
<1>4. CASE Delete(j)
  BY <1>4 DEF Delete, Abandon, PumpsStopped, BufferInv, Typed, TypeOK, storeVars
<1> QED
  BY <1>1, <1>2, <1>3, <1>4

LEMMA PumpBuffers ==
  ASSUME Typed, BufferInv, NEW j \in Ids, PumpStep(j)
  PROVE  BufferInv'
<1>1. CASE PumpReads(j)
  BY <1>1 DEF PumpReads, Waiting, BufferInv, Typed, TypeOK, requestVars, storeVars, Life!Terminators
<1>2. CASE PumpCancelled(j)
  BY <1>2 DEF PumpCancelled, BufferInv, Typed, TypeOK, requestVars, storeVars
<1> QED
  BY <1>1, <1>2 DEF PumpStep

LEMMA BuffersKept ==
  ASSUME Typed, BufferInv, [Next]_vars
  PROVE  BufferInv'
<1>1. CASE Sweep
  BY <1>1 DEF Sweep, Unclaimed, Abandon, PumpsStopped, BufferInv, Typed, TypeOK
<1>2. CASE Tick
  BY <1>2 DEF Tick, BufferInv, requestVars, bufferVars, storeVars
<1>3. ASSUME NEW k \in Keys, Resubmit(k)
      PROVE  BufferInv'
  BY <1>3 DEF Resubmit, BufferInv, requestVars, bufferVars, storeVars
<1>4. CASE Close \/ StopStep
  BY <1>4 DEF Close, StopStep, StopPumps, Clear, PumpsStopped, BufferInv, Typed, TypeOK,
              requestVars, bufferVars, storeVars
<1>5. CASE Closed \/ UNCHANGED vars
  BY <1>5 DEF Closed, BufferInv, vars, requestVars, bufferVars, storeVars
<1> QED
  BY <1>1, <1>2, <1>3, <1>4, <1>5, EngineBuffers, ClientBuffers, PumpBuffers DEF Next, Client

\* What one step does to a retained job, as its clients see it: it moves on, is cancelled,
\* or, once it has ended, is left alone unless its client deletes it before its end is read.
Shifts(j) ==
    \/ JobState(j)' = JobState(j)
    \/ JobState(j) = "queued" /\ JobState(j)' = "running"
    \/ JobState(j) = "running" /\ JobState(j)' \in {"done", "failed"}
    \/ JobState(j) \in {"queued", "running"} /\ JobState(j)' = "cancelled"
    \/ /\ JobState(j) \in {"done", "failed"} /\ JobState(j)' = "cancelled"
       /\ j \in cancelled' \ cancelled /\ terminal[j] = "none"

\* A step that leaves the request's state, the terminators and, of j, the buffer alone.
LEMMA OnlyCancelled ==
  ASSUME Typed, BufferInv, BufferInv', Typed', NEW j \in store, j \in store',
         state'[j] = state[j], terminal'[j] = terminal[j], j \in cancelled => j \in cancelled',
         j \in cancelled' \ cancelled => terminal[j] = "none"
  PROVE  Shifts(j)
BY EndedMeansOver, StateKinds DEF Shifts, JobState, Derived, Life!States, Typed, TypeOK

LEMMA JobShifts ==
  ASSUME Typed, BufferInv, Typed', BufferInv', [Next]_vars, NEW j \in store, j \in store'
  PROVE  Shifts(j)
<1>1. ASSUME NEW i \in Ids, EngineMoves(i) PROVE Shifts(j)
  <2>1. PICK s \in Life!States \ {"new", "queued"}, t \in Life!Terminators :
           /\ state[i] \in {"queued", "running"}
           /\ state' = [state EXCEPT ![i] = s] /\ terminator' = [terminator EXCEPT ![i] = t]
           /\ s = "running" => state[i] = "queued" /\ t = terminator[i] /\ i \notin cancelled
           /\ s = "done" => state[i] = "running" /\ t = "end" /\ i \notin cancelled
           /\ s = "failed" => state[i] = "running" /\ t = "error"
           /\ s = "cancelled" => \/ t = terminator[i] /\ (state[i] = "queued" => i \in cancelled)
                                 \/ t = "error" /\ phase = "closed"
    BY <1>1, EngineStep
  <2>2. phase # "closed"
    BY DEF BufferInv
  <2>3. terminal' = terminal /\ cancelled' = cancelled
    BY <1>1 DEF EngineMoves, bufferVars
  <2>4. terminator[i] = "none" /\ terminal[i] = "none"
    BY <2>1 DEF BufferInv
  <2>5. CASE i = j
    BY <2>1, <2>2, <2>3, <2>4, <2>5
       DEF Shifts, JobState, Derived, Life!States, Typed, TypeOK
  <2>6. CASE i # j
    BY <2>1, <2>3, <2>6 DEF Shifts, JobState
  <2> QED
    BY <2>5, <2>6
<1>2. ASSUME NEW i \in Ids, Emit(i) \/ Submit(i) \/ Refuse(i) \/ Poll(i) PROVE Shifts(j)
  <2>1. state'[j] = state[j] /\ terminal' = terminal /\ (j \in cancelled' <=> j \in cancelled)
    BY <1>2 DEF Emit, Submit, Refuse, Poll, requestVars, bufferVars, Typed, TypeOK
  <2> QED
    BY <2>1, OnlyCancelled
<1>3. ASSUME NEW i \in Ids, Delete(i) PROVE Shifts(j)
  <2>1. state' = state /\ terminal' = terminal /\ cancelled' = cancelled \cup {i}
    BY <1>3 DEF Delete, Abandon
  <2>2. CASE terminal[j] = "none"
    BY <2>1, <2>2, OnlyCancelled
  <2>3. CASE terminal[j] # "none"
    BY <2>1, <2>3, EndedMeansOver DEF Shifts, JobState, Derived, Typed, TypeOK, Life!Terminators
  <2> QED
    BY <2>2, <2>3
<1>4. ASSUME NEW i \in Ids, PumpReads(i) PROVE Shifts(j)
  <2>1. state' = state /\ cancelled' = cancelled /\ terminal' = [terminal EXCEPT ![i] = terminator[i]]
    BY <1>4 DEF PumpReads, requestVars
  <2>2. CASE i = j
    <3>1. j \notin cancelled /\ phase # "closed"
      BY <1>4, <2>2 DEF PumpReads, BufferInv
    <3>2. JobState(j) = state[j]
      BY <3>1, EndedMeansOver
    <3>3. JobState(j)' = state[j]
      BY <2>1, <2>2, <3>1 DEF JobState, Derived, BufferInv, Typed, TypeOK, Life!Terminators
    <3> QED
      BY <3>2, <3>3 DEF Shifts
  <2>3. CASE i # j
    BY <2>1, <2>3 DEF Shifts, JobState
  <2> QED
    BY <2>2, <2>3
<1>5. ASSUME NEW i \in Ids, PumpCancelled(i) PROVE Shifts(j)
  BY <1>5, OnlyCancelled DEF PumpCancelled, requestVars
<1>6. CASE Sweep
  <2>1. state' = state /\ terminal' = terminal /\ cancelled' = cancelled \cup Unclaimed
    BY <1>6 DEF Sweep, Abandon
  <2>2. j \in Unclaimed => terminal[j] = "none"
    BY DEF Unclaimed, IsTerminal, JobState, Derived, Terminal, Typed, TypeOK, Life!Terminators
  <2> QED
    BY <2>1, <2>2, OnlyCancelled
<1>7. ASSUME NEW k \in Keys, Resubmit(k) PROVE Shifts(j)
  BY <1>7, OnlyCancelled DEF Resubmit, requestVars, bufferVars
<1>8. CASE Tick \/ Close \/ StopPumps \/ Clear \/ Closed \/ UNCHANGED vars
  BY <1>8, OnlyCancelled
     DEF Tick, Close, StopPumps, Clear, Closed, vars, requestVars, bufferVars
<1> QED
  BY <1>1, <1>2, <1>3, <1>4, <1>5, <1>6, <1>7, <1>8 DEF Next, Client, PumpStep, StopStep

-----------------------------------------------------------------------------
(* The tables *)

\* At most one job makes room for another, and only one that has ended.
LEMMA EvictedHaveEnded ==
  ASSUME NEW gone \in Evictions
  PROVE  /\ gone \subseteq store /\ \A i \in gone : IsTerminal(i)
         /\ HasRoom \/ \E i \in store : gone = {i}
BY DEF Evictions, Longest, Evictable

LEMMA BoundKept ==
  ASSUME Typed, StoreBounded, [Next]_vars
  PROVE  StoreBounded'
<1>1. IsFiniteSet(store)
  BY JobsConfig, FS_Subset DEF Typed, TypeOK
<1>2. ASSUME NEW j \in Ids, Submit(j) PROVE StoreBounded'
  <2>1. PICK gone \in Evictions : store' = (store \ gone) \cup {j}
    BY <1>2 DEF Submit
  <2>2. Cardinality(store) \in Nat
    BY <1>1, FS_CardinalityType
  <2>3. CASE HasRoom
    <3>1. store' = store \cup {j}
      BY <2>1, <2>3 DEF Evictions
    <3>2. /\ IsFiniteSet(store')
          /\ Cardinality(store') = Cardinality(store) \/ Cardinality(store') = Cardinality(store) + 1
      BY <1>1, <3>1, FS_AddElement
    <3> QED
      BY <2>2, <2>3, <3>2, JobsConfig DEF HasRoom, StoreBounded
  <2>4. ASSUME NEW i \in store, gone = {i} PROVE StoreBounded'
    <3>1. IsFiniteSet(store \ {i}) /\ Cardinality(store \ {i}) = Cardinality(store) - 1
      BY <1>1, FS_RemoveElement
    <3> DEFINE rest == store \ {i}
    <3>4. store' = rest \cup {j} /\ IsFiniteSet(rest) /\ Cardinality(rest) \in Nat
      BY <2>1, <2>4, <3>1, FS_CardinalityType
    <3>5. Cardinality(rest) = Cardinality(store) - 1
      BY <3>1
    <3> HIDE DEF rest
    <3>7. /\ IsFiniteSet(rest \cup {j})
          /\ Cardinality(rest \cup {j}) = IF j \in rest THEN Cardinality(rest)
                                          ELSE Cardinality(rest) + 1
      BY <3>4, FS_AddElement, Zenon
    <3>6. Cardinality(rest \cup {j}) <= Cardinality(rest) + 1 /\ IsFiniteSet(rest \cup {j})
      BY <3>4, <3>7
    <3>2. Cardinality(store') <= Cardinality(store)
      BY <2>2, <3>4, <3>5, <3>6
    <3>3. Cardinality(store') \in Nat
      BY <3>4, <3>6, FS_CardinalityType
    <3> QED
      BY <2>2, <3>2, <3>3, JobsConfig DEF StoreBounded
  <2> QED
    BY <2>1, <2>3, <2>4, EvictedHaveEnded
<1>3. ASSUME store' \subseteq store PROVE StoreBounded'
  BY <1>1, <1>3, FS_Subset, FS_CardinalityType, JobsConfig DEF StoreBounded
<1>4. ASSUME NEW j \in Ids, EngineMoves(j) \/ Emit(j) \/ PumpStep(j) \/ Refuse(j) \/ Poll(j) \/ Delete(j)
      PROVE  store' \subseteq store
  BY <1>4 DEF EngineMoves, Emit, PumpStep, PumpReads, PumpCancelled, Refuse, Poll, Delete, storeVars
<1>5. CASE Tick \/ Sweep \/ Close \/ StopStep \/ Closed \/ (\E k \in Keys : Resubmit(k)) \/ UNCHANGED vars
  <2>1. store' \subseteq store
    BY <1>5 DEF Tick, Sweep, Close, StopStep, StopPumps, Clear, Closed, Resubmit, storeVars, vars
  <2> QED
    BY <1>3, <2>1
<1> QED
  BY <1>2, <1>3, <1>4, <1>5 DEF Next, Client

\* Forgetting jobs takes their keys, and theirs only, out of the table.
LEMMA KeysForgotten ==
  ASSUME Typed, KeyInv, NEW gone \in SUBSET store, NEW k \in Keys
  PROVE  /\ Without(gone)[k] # Nobody => Without(gone)[k] = byKey[k] /\ byKey[k] \in store \ gone
         /\ \A j \in store \ gone : KeyOf[j] = k => Without(gone)[k] = j
<1>1. k # NoKey /\ \A j \in store : KeyOf[j] = k => byKey[k] = j
  BY DEF Keys, KeyInv, KeysLeadToTheirJobs
<1>2. CASE \E j \in gone : KeyOf[j] = k
  BY <1>1, <1>2 DEF Without
<1>3. CASE ~\E j \in gone : KeyOf[j] = k
  <2>1. Without(gone)[k] = byKey[k]
    BY <1>3 DEF Without
  <2>2. byKey[k] # Nobody => byKey[k] \in store /\ KeyOf[byKey[k]] = k
    BY DEF KeyInv, KeysLeadToTheirJobs
  <2> QED
    BY <1>1, <1>3, <2>1, <2>2
<1> QED
  BY <1>2, <1>3

LEMMA KeysKept ==
  ASSUME Typed, KeyInv, [Next]_vars
  PROVE  KeyInv'
<1>1. ASSUME NEW j \in Ids, Submit(j) PROVE KeyInv'
  <2>1. PICK gone \in Evictions :
          /\ store' = (store \ gone) \cup {j}
          /\ byKey' = [k \in Keys |-> IF k = KeyOf[j] THEN j ELSE Without(gone)[k]]
    BY <1>1 DEF Submit
  <2>2. gone \in SUBSET store
    BY EvictedHaveEnded
  <2>3. \A i \in store : KeyOf[i] # NoKey => KeyOf[i] # KeyOf[j]
    BY <1>1 DEF Submit, KeyKnown, KeyInv, KeysLeadToTheirJobs
  <2>4. \A i \in store' : KeyOf[i] # NoKey => KeyOf[i] \in Keys
    BY <2>1 DEF Keys, Typed, TypeOK
  <2>5. \A i \in store' : KeyOf[i] # NoKey => byKey'[KeyOf[i]] = i
    BY <2>1, <2>2, <2>3, <2>4, KeysForgotten
  <2>6. ASSUME NEW k \in Keys, byKey'[k] # Nobody PROVE byKey'[k] \in store' /\ KeyOf[byKey'[k]] = k
    BY <2>1, <2>2, <2>6, KeysForgotten DEF KeyInv
  <2> QED
    BY <2>5, <2>6 DEF KeyInv, KeysLeadToTheirJobs
<1>2. CASE Sweep
  <2>1. store' = store \ Expired /\ byKey' = Without(Expired) /\ Expired \in SUBSET store
    BY <1>2 DEF Sweep, Expired
  <2>2. \A i \in store' : KeyOf[i] # NoKey => KeyOf[i] \in Keys
    BY <2>1 DEF Keys, Typed, TypeOK
  <2> QED
    BY <2>1, <2>2, KeysForgotten DEF KeyInv, KeysLeadToTheirJobs
<1>3. CASE Clear
  BY <1>3 DEF Clear, KeyInv, KeysLeadToTheirJobs
<1>4. ASSUME UNCHANGED storeVars PROVE KeyInv'
  BY <1>4 DEF storeVars, KeyInv, KeysLeadToTheirJobs
<1>5. ASSUME NEW j \in Ids, EngineMoves(j) \/ Emit(j) \/ PumpStep(j) \/ Refuse(j) \/ Poll(j) \/ Delete(j)
      PROVE  UNCHANGED storeVars
  BY <1>5 DEF EngineMoves, Emit, PumpStep, PumpReads, PumpCancelled, Refuse, Poll, Delete
<1>6. CASE Tick \/ Close \/ StopPumps \/ Closed \/ (\E k \in Keys : Resubmit(k)) \/ UNCHANGED vars
  <2>1. UNCHANGED storeVars
    BY <1>6 DEF Tick, Close, StopPumps, Closed, Resubmit, vars
  <2> QED
    BY <1>4, <2>1
<1> QED
  BY <1>1, <1>2, <1>3, <1>4, <1>5, <1>6 DEF Next, Client, StopStep

-----------------------------------------------------------------------------
(* One generation per key *)

\* A retained job that has ended pays for nothing.
LEMMA EndedPayNothing ==
  ASSUME Typed, BufferInv, NEW j \in store, IsTerminal(j)
  PROVE  ~Paying(j)
BY EndedMeansOver DEF Paying, Terminal

LEMMA PayKept ==
  ASSUME Typed, BufferInv, KeyInv, PayInv, Typed', BufferInv', [Next]_vars
  PROVE  PayInv'
<1>1. ASSUME NEW j \in Ids, Submit(j) PROVE PayInv'
  <2>1. PICK gone \in Evictions : store' = (store \ gone) \cup {j}
    BY <1>1 DEF Submit
  <2>2. phase = "up" /\ phase' = phase /\ state[j] = "new" /\ ~KeyKnown(KeyOf[j])
    BY <1>1 DEF Submit
  <2>3. ASSUME NEW i \in Ids, i # j, Paying(i)' PROVE Paying(i) /\ i \in store
    BY <1>1, <2>2, <2>3 DEF Submit, Paying, PayInv, Typed, TypeOK
  <2>4. \A i \in Ids : Paying(i)' => i \in store'
    BY <2>1, <2>3, EvictedHaveEnded, EndedPayNothing
  <2>5. ASSUME NEW i \in store, KeyOf[i] # NoKey PROVE KeyOf[i] # KeyOf[j]
    BY <2>2, <2>5 DEF KeyKnown, KeyInv, KeysLeadToTheirJobs
  <2> QED
    BY <2>3, <2>4, <2>5 DEF PayInv, OneGenerationPerKey
<1>2. ASSUME \A i \in Ids : Paying(i)' => Paying(i),
             phase' # "closed" => phase # "closed",
             phase' # "closed" => \A i \in store \ store' : ~Paying(i)
      PROVE  PayInv'
  BY <1>2 DEF PayInv, OneGenerationPerKey
<1>3. ASSUME NEW j \in Ids, EngineMoves(j) PROVE PayInv'
  <2>1. PICK s \in Life!States \ {"new", "queued"}, t \in Life!Terminators :
           /\ state[j] \in {"queued", "running"}
           /\ state' = [state EXCEPT ![j] = s]
    BY <1>3, EngineStep
  <2>2. cancelled' = cancelled /\ phase' = phase /\ store' = store
    BY <1>3 DEF EngineMoves, storeVars
  <2> QED
    BY <1>2, <2>1, <2>2 DEF Paying, Typed, TypeOK
<1>4. ASSUME NEW j \in Ids, Refuse(j) PROVE PayInv'
  <2>1. \A i \in Ids : Paying(i)' => Paying(i)
    BY <1>4 DEF Refuse, Paying, Typed, TypeOK
  <2> QED
    BY <1>2, <1>4, <2>1 DEF Refuse, storeVars
<1>5. CASE Sweep
  <2>1. \A i \in Ids : Paying(i)' => Paying(i)
    BY <1>5 DEF Sweep, Abandon, Paying
  <2>2. \A i \in store \ store' : ~Paying(i)
    BY <1>5, EndedPayNothing DEF Sweep, Expired
  <2> QED
    BY <1>2, <1>5, <2>1, <2>2 DEF Sweep
<1>6. ASSUME NEW j \in Ids, Emit(j) \/ PumpStep(j) \/ Poll(j) \/ Delete(j) PROVE PayInv'
  <2>1. state' = state /\ cancelled \subseteq cancelled' /\ store' = store /\ phase' = phase
    BY <1>6 DEF Emit, PumpStep, PumpReads, PumpCancelled, Poll, Delete, Abandon, requestVars, storeVars
  <2> QED
    BY <1>2, <2>1 DEF Paying
<1>7. CASE Tick \/ Close \/ StopStep \/ Closed \/ (\E k \in Keys : Resubmit(k)) \/ UNCHANGED vars
  <2>1. state' = state /\ cancelled' = cancelled /\ (phase' # "closed" => phase # "closed" /\ store' = store)
    BY <1>7 DEF Tick, Close, StopStep, StopPumps, Clear, Closed, Resubmit, vars, requestVars, storeVars
  <2> QED
    BY <1>2, <2>1 DEF Paying
<1> QED
  BY <1>1, <1>3, <1>4, <1>5, <1>6, <1>7 DEF Next, Client

-----------------------------------------------------------------------------
(* The lease *)

LEMMA EndsStay ==
  ASSUME Typed, BufferInv, Typed', BufferInv', [Next]_vars, NEW j \in store, j \in store',
         IsTerminal(j)
  PROVE  IsTerminal(j)'
<1>1. Shifts(j)
  BY JobShifts
<1> QED
  BY <1>1 DEF Shifts, IsTerminal, Terminal

LEMMA LeaseKept ==
  ASSUME Typed, BufferInv, LeaseInv, Typed', BufferInv', [Next]_vars
  PROVE  LeaseInv'
<1> SUFFICES ASSUME Lease > 0, NEW j \in store', ~IsTerminal(j)'
             PROVE  polled'[j] + sweepIn' <= Lease + SweepInterval
  BY DEF LeaseInv
<1>1. Lease \in Nat /\ SweepInterval \in Nat /\ sweepIn \in 0..SweepInterval
  BY JobsConfig DEF Typed, TypeOK
<1>2. ASSUME j \in store
      PROVE  polled[j] \in Nat /\ polled[j] + sweepIn <= Lease + SweepInterval /\ ~IsTerminal(j)
  BY <1>2, EndsStay, JobsConfig DEF LeaseInv, Typed, TypeOK
<1>3. ASSUME NEW i \in Ids, Submit(i) PROVE polled'[j] + sweepIn' <= Lease + SweepInterval
  <2>1. sweepIn' = sweepIn /\ polled'[j] = IF j = i THEN 0 ELSE polled[j]
    BY <1>3 DEF Submit, Kept
  <2>2. j = i \/ j \in store
    BY <1>3 DEF Submit
  <2> QED
    BY <1>1, <1>2, <2>1, <2>2
<1>4. ASSUME NEW i \in Ids, Poll(i) PROVE polled'[j] + sweepIn' <= Lease + SweepInterval
  <2>1. store' = store /\ sweepIn' = sweepIn /\ polled'[j] = IF j = i THEN 0 ELSE polled[j]
    BY <1>4 DEF Poll, storeVars, Typed, TypeOK
  <2> QED
    BY <1>1, <1>2, <2>1
<1>5. CASE Tick
  <2>1. store' = store /\ sweepIn > 0 /\ sweepIn' = sweepIn - 1 /\ polled'[j] = UpTo(polled[j] + 1)
    BY <1>5 DEF Tick, Older, storeVars, Typed, TypeOK
  <2>2. UpTo(polled[j] + 1) <= polled[j] + 1 /\ UpTo(polled[j] + 1) \in Nat
    BY <1>2, <2>1, JobsConfig DEF UpTo
  <2> QED
    BY <1>1, <1>2, <2>1, <2>2
<1>6. CASE Sweep
  <2>1. j \in store /\ sweepIn' = SweepInterval /\ polled'[j] = polled[j]
    BY <1>6 DEF Sweep, Kept
  <2>2. j \notin Unclaimed
    <3>1. j \in Unclaimed => j \in cancelled'
      BY <1>6 DEF Sweep, Abandon
    <3> QED
      BY <3>1, EndedMeansOver DEF IsTerminal, JobState, Derived, Terminal, Typed, TypeOK, Life!Terminators
  <2>3. polled[j] <= Lease
    BY <1>1, <1>2, <2>1, <2>2 DEF Unclaimed
  <2> QED
    BY <1>1, <1>2, <2>1, <2>3
<1>7. ASSUME UNCHANGED <<polled, sweepIn, store>>
      PROVE  polled'[j] + sweepIn' <= Lease + SweepInterval
  BY <1>2, <1>7
<1>8. ASSUME NEW i \in Ids, EngineMoves(i) \/ Emit(i) \/ PumpStep(i) \/ Refuse(i) \/ Delete(i)
      PROVE  UNCHANGED <<polled, sweepIn, store>>
  BY <1>8 DEF EngineMoves, Emit, PumpStep, PumpReads, PumpCancelled, Refuse, Delete, storeVars, jobVars
<1>9. CASE Close \/ StopPumps \/ Closed \/ (\E k \in Keys : Resubmit(k)) \/ UNCHANGED vars
  <2>1. UNCHANGED <<polled, sweepIn, store>>
    BY <1>9 DEF Close, StopPumps, Closed, Resubmit, vars, storeVars, jobVars
  <2> QED
    BY <1>7, <2>1
<1>10. CASE Clear
  BY <1>10 DEF Clear
<1> QED
  BY <1>3, <1>4, <1>5, <1>6, <1>7, <1>8, <1>9, <1>10 DEF Next, Client, StopStep

-----------------------------------------------------------------------------
(* The theorems *)

LEMMA JInvInit == Init => JInv
<1> SUFFICES ASSUME Init PROVE JInv
  OBVIOUS
<1>1. Typed
  BY JobsConfig DEF Init, Life!Init, Typed, TypeOK, Told, Phases, Life!States, Life!Terminators
<1>2. BufferInv
  BY DEF Init, Life!Init, BufferInv
<1>3. StoreBounded
  BY JobsConfig, FS_EmptySet DEF Init, StoreBounded
<1>4. KeyInv
  BY DEF Init, KeyInv, KeysLeadToTheirJobs
<1>5. PayInv
  BY DEF Init, Life!Init, PayInv, Paying, OneGenerationPerKey
<1>6. LeaseInv
  BY DEF Init, LeaseInv
<1> QED
  BY <1>1, <1>2, <1>3, <1>4, <1>5, <1>6 DEF JInv

\* The inductive invariant of the store.
THEOREM StoreInvariant == Spec => []JInv
<1>1. JInv /\ [Next]_vars => JInv'
  BY KindsKept, BuffersKept, BoundKept, KeysKept, PayKept, LeaseKept DEF JInv
<1> QED
  BY <1>1, JInvInit, PTL DEF Spec

\* The store's tables stay within max_jobs and in agreement, and a buffer whose end has
\* been read is whole and true, whatever is submitted, evicted, expired or shut down.
THEOREM StoreTheorem == Spec => []StoreIsSound
<1>1. JInv => StoreIsSound
  <2> SUFFICES ASSUME JInv PROVE StoreIsSound
    OBVIOUS
  <2>1. EndedIsTrue
    BY EndedMeansOver DEF JInv, BufferInv, EndedIsTrue, Typed, TypeOK
  <2> QED
    BY <2>1 DEF JInv, Typed, KeyInv, StoreIsSound
<1> QED
  BY <1>1, StoreInvariant, PTL

\* "An idempotent resubmission must not buy a second generation", for any number of jobs,
\* keys and places.
THEOREM KeyTheorem == Spec => []OneGenerationPerKey
<1>1. JInv => OneGenerationPerKey
  BY DEF JInv, PayInv
<1> QED
  BY <1>1, StoreInvariant, PTL

\* No live job is retained unpolled for longer than the lease and one sweep, whatever they
\* are set to.
THEOREM LeaseTheorem == Spec => []AbandonedIsCancelled
<1>1. JInv => AbandonedIsCancelled
  <2> SUFFICES ASSUME JInv, Lease > 0, NEW j \in store, ~IsTerminal(j)
               PROVE  polled[j] <= Lease + SweepInterval
    BY DEF AbandonedIsCancelled
  <2>1. polled[j] \in Nat /\ sweepIn \in Nat /\ Lease + SweepInterval \in Nat
    BY JobsConfig DEF JInv, Typed, TypeOK
  <2>2. polled[j] + sweepIn <= Lease + SweepInterval
    BY DEF JInv, LeaseInv
  <2> QED
    BY <2>1, <2>2
<1> QED
  BY <1>1, StoreInvariant, PTL

\* A job that has ended stays as it ended, whatever its request, its pump and the sweeper
\* do afterwards.
THEOREM FinalTheorem == Spec => FinishedIsFinal
<1>1. JInv /\ JInv' /\ [Next]_vars =>
        [\A j \in store \cap store' :
           IsTerminal(j) => \/ JobState(j)' = JobState(j)
                            \/ j \in cancelled' \ cancelled /\ terminal[j] = "none"]_vars
  BY JobShifts DEF JInv, Shifts, IsTerminal, Terminal
<1> QED
  BY <1>1, StoreInvariant, PTL DEF Spec, FinishedIsFinal

-----------------------------------------------------------------------------
(* The service *)

\* Of a job that is not forgotten, its clients see the state.
LEMMA WhatIsSeen ==
  ASSUME Typed, NEW j \in Ids
  PROVE  /\ state[j] = "new" => Seen(j) = "new"
         /\ j \in store => Seen(j) = JobState(j) /\ Seen(j) \in Service!Live \cup Service!Ended
         /\ state[j] # "new" /\ j \notin store => Seen(j) = "gone"
         /\ Seen(j) \in Service!Views
BY StateKinds DEF Seen, Typed, TypeOK, Life!States, Service!Live, Service!Ended, Service!Views

\* What one step does to one job, in the terms of the service.
Serves(j) ==
    \/ Seen(j)' = Seen(j)
    \/ Service!Progresses(j, Seen(j)') \/ Service!Deleted(j, Seen(j)')
    \/ Service!Refused(j, Seen(j)') \/ Service!Accepted(j, Seen(j)')
    \/ Service!Forgotten(j, Seen(j)')

LEMMA RetainedServed ==
  ASSUME Typed, BufferInv, Typed', BufferInv', [Next]_vars, NEW j \in store, j \in store'
  PROVE  Serves(j)
<1>1. Shifts(j)
  BY JobShifts
<1>2. j \in Ids /\ state[j] # "new" /\ state'[j] # "new"
  BY DEF Typed, TypeOK
<1>3. Seen(j) = JobState(j) /\ Seen(j)' = JobState(j)'
  BY <1>2 DEF Seen
<1>4. [i \in Ids |-> Seen(i)][j] = JobState(j)
  BY <1>2, <1>3
<1> QED
  BY <1>1, <1>3, <1>4 DEF Shifts, Serves, Service!Progresses, Service!Deleted, Service!Live

\* Only a submission makes a job known, and adds it to the store.
LEMMA StaysUnknown ==
  ASSUME Typed, [Next]_vars, NEW j \in Ids, ~Submit(j), ~Refuse(j)
  PROVE  (state'[j] = "new" <=> state[j] = "new") /\ (j \in store' => j \in store)
<1>1. ASSUME NEW i \in Ids, EngineMoves(i) PROVE state'[j] = "new" <=> state[j] = "new"
  BY <1>1, EngineStep DEF Typed, TypeOK
<1>2. ASSUME NEW i \in Ids, i # j, Submit(i) \/ Refuse(i)
      PROVE  state'[j] = state[j] /\ (j \in store' => j \in store)
  BY <1>2 DEF Submit, Refuse, Typed, TypeOK, storeVars
<1>3. ASSUME NEW i \in Ids, EngineMoves(i) \/ Emit(i) \/ PumpStep(i) \/ Poll(i) \/ Delete(i)
      PROVE  store' = store
  BY <1>3 DEF EngineMoves, Emit, PumpStep, PumpReads, PumpCancelled, Poll, Delete, storeVars
<1>4. ASSUME NEW i \in Ids, Emit(i) \/ PumpStep(i) \/ Poll(i) \/ Delete(i)
      PROVE  state' = state
  BY <1>4 DEF Emit, PumpStep, PumpReads, PumpCancelled, Poll, Delete, requestVars
<1>5. CASE Tick \/ Close \/ StopStep \/ Sweep \/ Closed \/ UNCHANGED vars
  BY <1>5 DEF Tick, Close, StopStep, StopPumps, Clear, Sweep, Closed, vars, storeVars, requestVars
<1>6. ASSUME NEW k \in Keys, Resubmit(k) PROVE state' = state /\ store' = store
  BY <1>6 DEF Resubmit, storeVars, requestVars
<1> QED
  BY <1>1, <1>2, <1>3, <1>4, <1>5, <1>6 DEF Next, Client

\* A job that leaves the store has ended, unless the store closes.
LEMMA LeavesEnded ==
  ASSUME [Next]_vars, ~Clear, NEW j \in store, j \notin store'
  PROVE  IsTerminal(j)
<1>1. ASSUME NEW i \in Ids, Submit(i) PROVE IsTerminal(j)
  BY <1>1, EvictedHaveEnded DEF Submit
<1>2. ASSUME NEW i \in Ids, EngineMoves(i) \/ Emit(i) \/ PumpStep(i) \/ Refuse(i) \/ Poll(i)
                            \/ Delete(i)
      PROVE  store' = store
  BY <1>2 DEF EngineMoves, Emit, PumpStep, PumpReads, PumpCancelled, Refuse, Poll, Delete,
              storeVars
<1>3. CASE Tick \/ Close \/ StopPumps \/ Closed \/ UNCHANGED vars
  BY <1>3 DEF Tick, Close, StopPumps, Closed, vars, storeVars
<1>4. ASSUME NEW k \in Keys, Resubmit(k) PROVE store' = store
  BY <1>4 DEF Resubmit, storeVars
<1>5. CASE Sweep
  BY <1>5 DEF Sweep, Expired
<1> QED
  BY <1>1, <1>2, <1>3, <1>4, <1>5 DEF Next, Client, StopStep

LEMMA ForgottenServed ==
  ASSUME Typed, [Next]_vars, ~Clear, NEW j \in store, j \notin store'
  PROVE  Serves(j)
<1>1. IsTerminal(j)
  BY LeavesEnded
<1>2. j \in Ids /\ state[j] # "new" /\ state'[j] # "new"
  BY StaysUnknown DEF Typed, TypeOK, Submit, Refuse
<1>3. Seen(j) = JobState(j) /\ Seen(j)' = "gone"
  BY <1>2 DEF Seen
<1>4. [i \in Ids |-> Seen(i)][j] = JobState(j)
  BY <1>2, <1>3
<1> QED
  BY <1>1, <1>3, <1>4 DEF Serves, Service!Forgotten, Service!Ended, IsTerminal, Terminal

\* A job that is not in the store is new, and may be accepted or refused, or is gone.
LEMMA UnknownServed ==
  ASSUME Typed, BufferInv, KeyInv, Typed', [Next]_vars, NEW j \in Ids, j \notin store
  PROVE  Serves(j)
<1>1. ASSUME Submit(j) PROVE Serves(j)
  <2>1. state[j] = "new" /\ ~KeyKnown(KeyOf[j]) /\ state'[j] = "queued" /\ j \in store'
    BY <1>1 DEF Submit, Typed, TypeOK
  <2>2. terminal'[j] = "none" /\ j \notin cancelled'
    BY <1>1, <2>1 DEF Submit, BufferInv
  <2>3. Seen(j) = "new" /\ Seen(j)' = "queued"
    BY <2>1, <2>2 DEF Seen, JobState, Derived
  <2>4. ASSUME NEW i \in Ids, KeyOf[j] # NoKey, KeyOf[i] = KeyOf[j],
               Seen(i) \in Service!Live \cup Service!Ended
        PROVE  FALSE
    <3>1. i \in store
      BY <2>4 DEF Seen, Service!Live, Service!Ended
    <3> QED
      BY <2>1, <2>4, <3>1 DEF KeyKnown, KeyInv, KeysLeadToTheirJobs
  <2>5. Service!Holding(KeyOf[j]) = {}
    BY <2>4 DEF Service!Holding
  <2>6. [i \in Ids |-> Seen(i)][j] = "new"
    BY <2>3
  <2> QED
    BY <2>3, <2>5, <2>6 DEF Serves, Service!Accepted
<1>2. ASSUME Refuse(j) PROVE Serves(j)
  <2>1. state[j] = "new" /\ state'[j] = "queued" /\ j \notin store'
    BY <1>2 DEF Refuse, storeVars, Typed, TypeOK
  <2>2. Seen(j) = "new" /\ Seen(j)' = "gone"
    BY <2>1 DEF Seen
  <2>3. [i \in Ids |-> Seen(i)][j] = "new"
    BY <2>2
  <2> QED
    BY <2>2, <2>3 DEF Serves, Service!Refused
<1>3. ASSUME ~Submit(j), ~Refuse(j) PROVE Serves(j)
  <2>1. (state'[j] = "new" <=> state[j] = "new") /\ j \notin store'
    BY <1>3, StaysUnknown
  <2> QED
    BY <2>1 DEF Serves, Seen
<1> QED
  BY <1>1, <1>2, <1>3

\* Every execution of the store is one of JobService: what the Client module relies on
\* holds of the store for any jobs, keys and places.
THEOREM ServiceTheorem == Spec => ImplementsJobService
<1>1. Init => Service!Init
  BY DEF Init, Life!Init, Seen, Service!Init
<1>2. ASSUME JInv, JInv', [Next]_vars
      PROVE  [Service!Next]_([j \in Ids |-> Seen(j)])
  <2>1. CASE Clear
    <3>1. \A j \in Ids : Seen(j)' = IF Seen(j) = "new" THEN "new" ELSE "gone"
      BY <1>2, <2>1, WhatIsSeen
         DEF Clear, Seen, requestVars, JInv, Service!Live, Service!Ended
    <3>2. Service!Restart
      BY <3>1 DEF Service!Restart
    <3> QED
      BY <3>2 DEF Service!Next
  <2>2. CASE ~Clear
    <3>1. \A j \in Ids : Serves(j)
      BY <1>2, <2>2, RetainedServed, ForgottenServed, UnknownServed DEF JInv
    <3>2. \A j \in Ids : Seen(j)' \in Service!Views
      BY <1>2, <3>1, WhatIsSeen
         DEF JInv, Serves, Service!Progresses, Service!Deleted, Service!Refused,
             Service!Accepted, Service!Forgotten, Service!Views, Service!Live, Service!Ended
    <3>3. [j \in Ids |-> Seen(j)]' \in [Ids -> Service!Views]
      BY <3>2
    <3>4. \A j \in Ids : \/ [i \in Ids |-> Seen(i)]'[j] = [i \in Ids |-> Seen(i)][j]
                         \/ Service!Leads(j, [i \in Ids |-> Seen(i)]'[j])
      <4> TAKE j \in Ids
      <4>1. [i \in Ids |-> Seen(i)]'[j] = Seen(j)' /\ [i \in Ids |-> Seen(i)][j] = Seen(j)
        OBVIOUS
      <4>2. Serves(j)
        BY <3>1
      <4> QED
        BY <4>1, <4>2 DEF Serves, Service!Leads
    <3> QED
      BY <3>3, <3>4 DEF Service!Next
  <2> QED
    BY <2>1, <2>2
<1>3. JInv /\ JInv' /\ [Next]_vars => [Service!Next]_([j \in Ids |-> Seen(j)])
  BY <1>2
<1> QED
  BY <1>1, <1>3, StoreInvariant, PTL DEF Spec, ImplementsJobService, Service!Spec

-----------------------------------------------------------------------------
(* The obedient client *)

\* Places for all, a result that is kept longer than a client is ever told to wait, and
\* clients that give no key: a resubmission is advised like a poll but renews no lease.
RoomAndTime ==
    /\ \A j \in Obedient : KeyOf[j] = NoKey
    /\ Nobody \notin Ids /\ Cardinality(Ids) <= MaxJobs
    /\ \A a \in Advice : a < ResultTtl

\* A job's client has seen its end, or will call before its lease lapses and before its
\* result expires.
InTouch(j) ==
    /\ j \notin cancelled
    /\ told[j].status \in Terminal => IsTerminal(j)
    /\ told[j].status \notin Terminal =>
         /\ read[j] = Unread /\ told[j].due < ResultTtl
         /\ Lease > 0 => polled[j] + told[j].due <= Lease
         /\ phase = "up" /\ j \in finished => since[j] + told[j].due < ResultTtl

FinishedInv ==
    phase = "up" => \A j \in store :
                      /\ j \in finished => IsTerminal(j)
                      /\ pump[j] = "cancelling" => j \in cancelled

ServeInv ==
    /\ FinishedInv
    /\ \A j \in Obedient \cap store : InTouch(j)
    /\ ObedientIsAnswered

\* With places for all, nobody is evicted and nobody refused.
LEMMA Room ==
  ASSUME Typed, RoomAndTime, NEW j \in Ids, state[j] = "new"
  PROVE  Evictions = {{}}
<1>1. j \notin store /\ store \subseteq Ids
  BY DEF Typed, TypeOK
<1>2. IsFiniteSet(Ids) /\ Cardinality(Ids) \in Nat /\ MaxJobs \in Nat
  BY JobsConfig, FS_CardinalityType
<1>3. IsFiniteSet(store) /\ Cardinality(store) \in Nat
  BY <1>1, <1>2, FS_Subset, FS_CardinalityType
<1>4. Cardinality(store) <= Cardinality(Ids) /\ (Cardinality(Ids) = Cardinality(store) => Ids = store)
  BY <1>1, <1>2, FS_Subset
<1>5. Cardinality(store) < MaxJobs
  BY <1>1, <1>2, <1>3, <1>4 DEF RoomAndTime
<1> QED
  BY <1>5 DEF Evictions, HasRoom

LEMMA FinishedKept ==
  ASSUME Typed, BufferInv, FinishedInv, Typed', BufferInv', [Next]_vars
  PROVE  FinishedInv'
<1> SUFFICES ASSUME phase' = "up", NEW j \in store'
             PROVE  (j \in finished' => IsTerminal(j)') /\ (pump'[j] = "cancelling" => j \in cancelled')
  BY DEF FinishedInv
<1>1. ASSUME j \in store, phase = "up",
             j \in finished' => j \in finished \/ IsTerminal(j)',
             pump'[j] = "cancelling" => pump[j] = "cancelling" \/ j \in cancelled',
             cancelled \subseteq cancelled'
      PROVE  (j \in finished' => IsTerminal(j)') /\ (pump'[j] = "cancelling" => j \in cancelled')
  BY <1>1, EndsStay DEF FinishedInv
<1>2. ASSUME NEW i \in Ids, Submit(i)
      PROVE  (j \in finished' => IsTerminal(j)') /\ (pump'[j] = "cancelling" => j \in cancelled')
  <2>1. CASE j = i
    BY <1>2, <2>1 DEF Submit, Typed, TypeOK
  <2>2. CASE j # i
    <3>1. j \in store /\ phase = "up" /\ finished' \subseteq finished /\ pump'[j] = pump[j] /\ cancelled' = cancelled
      BY <1>2, <2>2 DEF Submit, Typed, TypeOK
    <3> QED
      BY <1>1, <3>1
  <2> QED
    BY <2>1, <2>2
<1>3. ASSUME j \in cancelled' \/ terminal'[j] \in {"end", "error"} PROVE IsTerminal(j)'
  BY <1>3 DEF IsTerminal, JobState, Derived, Terminal, Typed, TypeOK, Life!Terminators
<1>4. ASSUME NEW i \in Ids, PumpReads(i)
      PROVE  (j \in finished' => IsTerminal(j)') /\ (pump'[j] = "cancelling" => j \in cancelled')
  <2>1. j \in store /\ phase = "up" /\ cancelled' = cancelled
    BY <1>4 DEF PumpReads, storeVars, requestVars
  <2>2. pump'[j] = "cancelling" => pump[j] = "cancelling"
    BY <1>4 DEF PumpReads, Typed, TypeOK
  <2>3. ASSUME j \in finished', j \notin finished PROVE IsTerminal(j)'
    <3>1. i = j /\ terminal'[j] = terminator[j] /\ terminator[j] # "none"
      BY <1>4, <2>3 DEF PumpReads, Finish, Typed, TypeOK
    <3> QED
      BY <1>3, <3>1 DEF Typed, TypeOK, Life!Terminators
  <2> QED
    BY <1>1, <2>1, <2>2, <2>3
<1>5. ASSUME NEW i \in Ids, PumpCancelled(i)
      PROVE  (j \in finished' => IsTerminal(j)') /\ (pump'[j] = "cancelling" => j \in cancelled')
  <2>1. j \in store /\ phase = "up" /\ cancelled' = cancelled
    BY <1>5 DEF PumpCancelled, storeVars, requestVars
  <2>2. pump'[j] = "cancelling" => pump[j] = "cancelling"
    BY <1>5 DEF PumpCancelled, Typed, TypeOK
  <2>3. ASSUME j \in finished', j \notin finished PROVE IsTerminal(j)'
    <3>1. i = j /\ pump[j] = "cancelling"
      BY <1>5, <2>3 DEF PumpCancelled, Finish
    <3> QED
      BY <1>3, <2>1, <3>1 DEF FinishedInv
  <2> QED
    BY <1>1, <2>1, <2>2, <2>3
<1>6. ASSUME NEW i \in Ids, Delete(i)
      PROVE  (j \in finished' => IsTerminal(j)') /\ (pump'[j] = "cancelling" => j \in cancelled')
  <2>1. j \in store /\ phase = "up" /\ cancelled' = cancelled \cup {i} /\ finished' = finished \cup {i}
    BY <1>6 DEF Delete, Abandon, storeVars
  <2>2. pump'[j] = "cancelling" => pump[j] = "cancelling" \/ j = i
    BY <1>6 DEF Delete, Abandon, PumpsStopped, Typed, TypeOK
  <2> QED
    BY <1>1, <1>3, <2>1, <2>2
<1>7. CASE Sweep
  <2>1. /\ j \in store /\ phase = "up" /\ cancelled' = cancelled \cup Unclaimed
        /\ finished' \subseteq finished \cup Unclaimed
    BY <1>7 DEF Sweep, Abandon
  <2>2. pump'[j] = "cancelling" => pump[j] = "cancelling" \/ j \in Unclaimed
    BY <1>7 DEF Sweep, Abandon, PumpsStopped, Typed, TypeOK
  <2> QED
    BY <1>1, <1>3, <2>1, <2>2
<1>8. ASSUME UNCHANGED <<store, phase, finished, pump>>, cancelled \subseteq cancelled'
      PROVE  (j \in finished' => IsTerminal(j)') /\ (pump'[j] = "cancelling" => j \in cancelled')
  BY <1>1, <1>8
<1>9. ASSUME NEW i \in Ids, EngineMoves(i) \/ Emit(i) \/ Refuse(i) \/ Poll(i)
      PROVE  UNCHANGED <<store, phase, finished, pump>> /\ cancelled \subseteq cancelled'
  BY <1>9 DEF EngineMoves, Emit, Refuse, Poll, requestVars, bufferVars, storeVars, jobVars
<1>10. CASE Tick \/ Closed \/ UNCHANGED vars
  <2>1. UNCHANGED <<store, phase, finished, pump>> /\ cancelled \subseteq cancelled'
    BY <1>10 DEF Tick, Closed, vars, requestVars, bufferVars, storeVars, jobVars
  <2> QED
    BY <1>8, <2>1
<1>11. ASSUME NEW k \in Keys, Resubmit(k)
       PROVE  UNCHANGED <<store, phase, finished, pump>> /\ cancelled \subseteq cancelled'
  BY <1>11 DEF Resubmit, requestVars, bufferVars, storeVars, jobVars
<1>12. CASE Close \/ StopStep
  BY <1>12 DEF Close, StopStep, StopPumps, Clear
<1> QED
  BY <1>2, <1>4, <1>5, <1>6, <1>7, <1>8, <1>9, <1>10, <1>11, <1>12 DEF Next, Client, PumpStep

\* What a document tells an obedient client.
LEMMA Shown ==
  ASSUME Typed, RoomAndTime, NEW i \in Ids, NEW status, Show(i, status), NEW j \in Obedient
  PROVE  /\ i # j => told'[j] = told[j]
         /\ i = j => /\ told'[j].status = status
                     /\ status \notin Terminal =>
                          /\ told'[j].due \in Nat /\ told'[j].due < ResultTtl
                          /\ Lease > 0 => told'[j].due <= Lease
<1>1. CASE i \notin Obedient
  BY <1>1 DEF Show
<1>2. CASE i \in Obedient
  <2>1. PICK a \in IF status \in Terminal THEN {0} ELSE Advice :
          told' = [told EXCEPT ![i] = [status |-> status, chunks |-> chunks[i], due |-> a]]
    BY <1>2 DEF Show
  <2>2. status \notin Terminal => a \in Nat /\ a < ResultTtl /\ (Lease > 0 => a <= Lease)
    BY <2>1, JobsConfig DEF RoomAndTime, Advice
  <2>3. told'[j] = IF i = j THEN [status |-> status, chunks |-> chunks[i], due |-> a] ELSE told[j]
    BY <2>1 DEF Typed
  <2> QED
    BY <2>2, <2>3
<1> QED
  BY <1>1, <1>2

\* A step that leaves alone what the client was told and how long ago it called.
LEMMA TouchStays ==
  ASSUME Typed, BufferInv, Typed', BufferInv', [Next]_vars,
         NEW j \in Obedient, j \in store, j \in store', InTouch(j),
         told'[j] = told[j], polled'[j] = polled[j], read'[j] = read[j], j \notin cancelled',
         phase' = "up" => phase = "up",
         j \in finished' => since'[j] = 0 \/ (since'[j] = since[j] /\ j \in finished)
  PROVE  InTouch(j)'
<1>1. told[j].due \in Nat /\ ResultTtl \in Nat
  BY ToldKinds, JobsConfig DEF Typed
<1>2. IsTerminal(j) => IsTerminal(j)'
  BY EndsStay
<1> QED
  BY <1>1, <1>2 DEF InTouch

LEMMA TouchKept ==
  ASSUME Typed, BufferInv, KeyInv, Typed', BufferInv', RoomAndTime, FinishedInv, [Next]_vars,
         NEW j \in Obedient, j \in store', j \in store => InTouch(j)
  PROVE  InTouch(j)'
<1>0. j \in Ids
  BY JobsConfig
<1>1. ASSUME NEW i \in Ids, Submit(i) PROVE InTouch(j)'
  <2>1. CASE i = j
    <3>1. j \notin store /\ j \notin cancelled /\ j \notin finished'
      BY <1>1, <2>1 DEF Submit, Typed, TypeOK, BufferInv
    <3>2. polled'[j] = 0 /\ read'[j] = Unread /\ cancelled' = cancelled /\ Show(j, "queued")
      BY <1>1, <2>1 DEF Submit, Kept
    <3>3. /\ told'[j].status \notin Terminal /\ told'[j].due < ResultTtl
          /\ Lease > 0 => told'[j].due \in Nat /\ told'[j].due <= Lease
      BY <1>0, <3>2, Shown DEF Terminal
    <3> QED
      BY <3>1, <3>2, <3>3 DEF InTouch
  <2>2. CASE i # j
    <3>1. j \in store /\ j \notin cancelled' /\ phase' = phase
      BY <1>1, <2>2 DEF Submit, InTouch
    <3>2. polled'[j] = polled[j] /\ read'[j] = read[j] /\ since'[j] = since[j]
          /\ finished' \subseteq finished
      BY <1>1, <2>2 DEF Submit, Kept
    <3>3. told'[j] = told[j]
      BY <1>1, <2>2, Shown DEF Submit
    <3> QED
      BY <3>1, <3>2, <3>3, TouchStays
  <2> QED
    BY <2>1, <2>2
<1>2. ASSUME NEW i \in Ids, Poll(i) PROVE InTouch(j)'
  <2>1. j \in store /\ j \notin cancelled' /\ phase = "up" /\ phase' = phase
        /\ finished' = finished /\ since' = since /\ Show(i, JobState(i))
    BY <1>2 DEF Poll, storeVars, requestVars, InTouch
  <2>2. CASE i # j
    <3>1. polled'[j] = polled[j] /\ read'[j] = read[j] /\ told'[j] = told[j]
      BY <1>2, <2>1, <2>2, Shown DEF Poll
    <3> QED
      BY <2>1, <3>1, TouchStays
  <2>3. CASE i = j /\ IsTerminal(j)
    <3>1. told'[j].status \in Terminal
      BY <1>0, <2>1, <2>3, Shown DEF IsTerminal
    <3>2. IsTerminal(j)'
      BY <2>1, <2>3, EndsStay
    <3> QED
      BY <2>1, <3>1, <3>2 DEF InTouch
  <2>4. CASE i = j /\ ~IsTerminal(j)
    <3>1. /\ told'[j].status \notin Terminal /\ told'[j].due < ResultTtl
          /\ Lease > 0 => told'[j].due \in Nat /\ told'[j].due <= Lease
      BY <1>0, <2>1, <2>4, Shown DEF IsTerminal
    <3>2. polled'[j] = 0 /\ read'[j] = Unread
      BY <1>2, <2>1, <2>4 DEF Poll, InTouch, Typed, TypeOK
    <3>3. j \notin finished'
      BY <2>1, <2>4 DEF FinishedInv
    <3> QED
      BY <2>1, <3>1, <3>2, <3>3 DEF InTouch
  <2> QED
    BY <2>2, <2>3, <2>4
<1>3. ASSUME NEW k \in Keys, Resubmit(k) PROVE InTouch(j)'
  <2>1. byKey[k] \in Ids /\ byKey[k] # j
    BY <1>3 DEF Resubmit, KeyKnown, KeyInv, Keys, RoomAndTime, Typed, TypeOK
  <2>2. told'[j] = told[j]
    BY <1>3, <2>1, Shown DEF Resubmit
  <2>3. UNCHANGED <<requestVars, jobVars, store, phase>>
    BY <1>3 DEF Resubmit, storeVars
  <2> QED
    BY <2>2, <2>3, TouchStays DEF requestVars, jobVars, InTouch
<1>4. CASE Tick
  <2>1. j \in store /\ InTouch(j) /\ j \notin cancelled' /\ phase' = phase /\ finished' = finished
    BY <1>4 DEF Tick, InTouch, storeVars, requestVars
  <2>2. told'[j].status = told[j].status /\ (IsTerminal(j) => IsTerminal(j)')
    BY <1>4, <2>1, EndsStay DEF Tick, Typed, Told
  <2>3. CASE told[j].status \in Terminal
    BY <2>1, <2>2, <2>3 DEF InTouch
  <2>4. CASE told[j].status \notin Terminal
    <3>1. told[j].due \in Nat /\ told[j].due > 0
      BY <1>4, <2>1, <2>4, ToldKinds, JobsConfig DEF Tick, Typed
    <3>2. told'[j].due = told[j].due - 1
      BY <1>4, <3>1 DEF Tick, Typed, Told
    <3>3. /\ polled[j] \in Nat /\ since[j] \in Nat
          /\ polled'[j] = UpTo(polled[j] + 1) /\ since'[j] = UpTo(since[j] + 1)
      BY <1>4, <2>1, JobsConfig DEF Tick, Older, Typed, TypeOK
    <3>4. \A n \in Nat : UpTo(n + 1) \in Nat /\ UpTo(n + 1) <= n + 1
      BY JobsConfig DEF UpTo
    <3>5. read'[j] = Unread
      BY <1>4, <2>1, <2>4 DEF Tick, InTouch
    <3>6. Lease \in Nat /\ ResultTtl \in Nat
      BY JobsConfig
    <3>7. Lease > 0 => polled'[j] + told'[j].due <= Lease
      BY <2>1, <2>4, <3>1, <3>2, <3>3, <3>4, <3>6 DEF InTouch
    <3>8. told'[j].due < ResultTtl
      BY <2>1, <2>4, <3>1, <3>2, <3>6 DEF InTouch
    <3>9. phase' = "up" /\ j \in finished' => since'[j] + told'[j].due < ResultTtl
      BY <2>1, <2>4, <3>1, <3>2, <3>3, <3>4, <3>6 DEF InTouch
    <3> QED
      BY <2>1, <2>2, <2>4, <3>5, <3>7, <3>8, <3>9 DEF InTouch
  <2> QED
    BY <2>3, <2>4
<1>5. CASE Sweep
  <2>1. j \in store /\ InTouch(j)
    BY <1>5 DEF Sweep
  <2>2. j \notin Unclaimed
    <3>1. SUFFICES ASSUME Lease > 0, ~IsTerminal(j), polled[j] > Lease PROVE FALSE
      BY DEF Unclaimed
    <3>2. polled[j] + told[j].due <= Lease
      BY <2>1, <3>1 DEF InTouch
    <3>3. polled[j] \in Nat /\ told[j].due \in Nat /\ Lease \in Nat
      BY <2>1, ToldKinds, JobsConfig DEF Typed, TypeOK
    <3> QED
      BY <3>1, <3>2, <3>3
  <2>3. j \notin cancelled' /\ told' = told /\ phase' = phase
    BY <1>5, <2>1, <2>2 DEF Sweep, Abandon, InTouch
  <2>4. polled'[j] = polled[j] /\ read'[j] = read[j] /\ since'[j] = since[j]
    BY <1>5, <2>2 DEF Sweep, Kept
  <2>5. j \in finished' => j \in finished
    BY <1>5, <2>2 DEF Sweep
  <2> QED
    BY <2>1, <2>3, <2>4, <2>5, TouchStays
<1>6. ASSUME NEW i \in Ids, Delete(i) PROVE InTouch(j)'
  <2>1. i # j /\ j \in store /\ InTouch(j)
    BY <1>6 DEF Delete, storeVars
  <2>2. j \notin cancelled' /\ UNCHANGED <<told, polled, read, phase>> /\ finished' = finished \cup {i}
    BY <1>6, <2>1 DEF Delete, Abandon, InTouch
  <2>3. since'[j] = since[j]
    BY <1>6, <2>1 DEF Delete, Typed, TypeOK
  <2> QED
    BY <2>1, <2>2, <2>3, TouchStays
<1>7. ASSUME NEW i \in Ids, PumpStep(i) PROVE InTouch(j)'
  <2>1. j \in store /\ InTouch(j) /\ UNCHANGED <<cancelled, told, polled, read, phase>>
    BY <1>7 DEF PumpStep, PumpReads, PumpCancelled, storeVars, requestVars
  <2>2. j \in finished' => since'[j] = 0 \/ (since'[j] = since[j] /\ j \in finished)
    BY <1>7, <2>1 DEF PumpStep, PumpReads, PumpCancelled, Finish, Typed, TypeOK
  <2> QED
    BY <2>1, <2>2, TouchStays DEF InTouch
<1>8. ASSUME NEW i \in Ids, EngineMoves(i) \/ Emit(i) \/ Refuse(i) PROVE InTouch(j)'
  <2>1. j \in store /\ InTouch(j) /\ UNCHANGED <<told, polled, read, since, finished, phase>>
    BY <1>8 DEF EngineMoves, Emit, Refuse, storeVars, jobVars
  <2>2. j \notin cancelled'
    BY <1>8, <2>1 DEF EngineMoves, Emit, Refuse, InTouch, Typed, TypeOK
  <2> QED
    BY <2>1, <2>2, TouchStays
<1>9. CASE Close \/ StopPumps \/ Closed \/ UNCHANGED vars
  <2>1. /\ j \in store /\ InTouch(j) /\ UNCHANGED <<cancelled, told, polled, read, since, finished>>
        /\ phase' = "up" => phase = "up"
    BY <1>9 DEF Close, StopPumps, Closed, vars, requestVars, storeVars, jobVars
  <2> QED
    BY <2>1, TouchStays DEF InTouch
<1>10. CASE Clear
  BY <1>10 DEF Clear
<1> QED
  BY <1>1, <1>2, <1>3, <1>4, <1>5, <1>6, <1>7, <1>8, <1>9, <1>10 DEF Next, Client, StopStep

\* What leaves the store under an obedient client has been shown to have ended.
LEMMA AnsweredKept ==
  ASSUME Typed, BufferInv, Typed', BufferInv', KeyInv, RoomAndTime, ServeInv, [Next]_vars
  PROVE  ObedientIsAnswered'
<1> SUFFICES ASSUME phase' = "up", NEW j \in Obedient, state'[j] # "new", j \notin store'
             PROVE  told'[j].status \in Terminal
  BY DEF ObedientIsAnswered
<1>0. j \in Ids
  BY JobsConfig
<1>1. ~Submit(j) /\ ~Refuse(j)
  BY Room, <1>0 DEF Submit, Refuse
<1>2. state[j] # "new"
  BY <1>0, <1>1, StaysUnknown
<1>3. phase = "up"
  <2>1. ASSUME NEW i \in Ids, EngineMoves(i) \/ Emit(i) \/ PumpStep(i) PROVE phase' = phase
    BY <2>1 DEF EngineMoves, Emit, PumpStep, PumpReads, PumpCancelled
  <2>2. ASSUME NEW i \in Ids, Submit(i) \/ Refuse(i) \/ Poll(i) \/ Delete(i) PROVE phase = "up"
    BY <2>2 DEF Submit, Refuse, Poll, Delete
  <2>3. ASSUME NEW k \in Keys, Resubmit(k) PROVE phase = "up"
    BY <2>3 DEF Resubmit
  <2>4. CASE Tick \/ Sweep \/ Close \/ StopStep \/ Closed \/ UNCHANGED vars
    BY <2>4 DEF Tick, Sweep, Close, StopStep, StopPumps, Clear, Closed, vars
  <2> QED
    BY <2>1, <2>2, <2>3, <2>4 DEF Next, Client
<1>4. CASE j \in store
  <2>1. CASE Sweep
    <3>1. j \in Expired /\ told' = told /\ InTouch(j)
      BY <1>4, <2>1 DEF Sweep, ServeInv
    <3>2. SUFFICES ASSUME told[j].status \notin Terminal PROVE FALSE
      BY <3>1
    <3>3. j \in finished /\ since[j] >= ResultTtl
      BY <3>1, <3>2 DEF Expired, InTouch
    <3>4. since[j] + told[j].due < ResultTtl
      BY <1>3, <3>1, <3>2, <3>3 DEF InTouch
    <3>5. since[j] \in Nat /\ told[j].due \in Nat /\ ResultTtl \in Nat
      BY <1>4, ToldKinds, JobsConfig DEF Typed, TypeOK
    <3> QED
      BY <3>3, <3>4, <3>5
  <2>2. CASE ~Sweep
    <3>1. ASSUME NEW i \in Ids, Submit(i) PROVE j \in store'
      <4>1. state[i] = "new"
        BY <3>1 DEF Submit
      <4>2. Evictions = {{}}
        BY <4>1, Room
      <4> QED
        BY <1>4, <3>1, <4>2 DEF Submit
    <3>2. ASSUME NEW i \in Ids, EngineMoves(i) \/ Emit(i) \/ PumpStep(i) \/ Refuse(i) \/ Poll(i)
                                \/ Delete(i)
          PROVE  j \in store'
      BY <1>4, <3>2 DEF EngineMoves, Emit, PumpStep, PumpReads, PumpCancelled, Refuse, Poll,
                       Delete, storeVars
    <3>3. ASSUME NEW k \in Keys, Resubmit(k) PROVE j \in store'
      BY <1>4, <3>3 DEF Resubmit, storeVars
    <3>4. CASE Tick \/ Close \/ StopPumps \/ Closed \/ UNCHANGED vars
      BY <1>4, <3>4 DEF Tick, Close, StopPumps, Closed, vars, storeVars
    <3>5. CASE Clear
      BY <3>5 DEF Clear
    <3> QED
      BY <2>2, <3>1, <3>2, <3>3, <3>4, <3>5 DEF Next, Client, StopStep
  <2> QED
    BY <2>1, <2>2
<1>5. CASE j \notin store
  <2>1. told[j].status \in Terminal
    BY <1>2, <1>3, <1>5 DEF ServeInv, ObedientIsAnswered
  <2>2. told'[j].status = told[j].status
    <3>1. ASSUME NEW i \in Ids, Submit(i) PROVE told'[j] = told[j]
      BY <1>1, <3>1, Shown DEF Submit
    <3>2. ASSUME NEW i \in Ids, Poll(i) PROVE told'[j] = told[j]
      BY <1>5, <3>2, Shown DEF Poll
    <3>3. ASSUME NEW k \in Keys, Resubmit(k) PROVE told'[j] = told[j]
      <4>1. byKey[k] \in Ids /\ byKey[k] # j
        BY <1>5, <3>3 DEF Resubmit, KeyKnown, Typed, TypeOK
      <4> QED
        BY <3>3, <4>1, Shown DEF Resubmit
    <3>4. ASSUME NEW i \in Ids, EngineMoves(i) \/ Emit(i) \/ PumpStep(i) \/ Refuse(i) \/ Delete(i)
          PROVE  told' = told
      BY <3>4 DEF EngineMoves, Emit, PumpStep, PumpReads, PumpCancelled, Refuse, Delete
    <3>5. CASE Tick
      BY <3>5 DEF Tick, Typed, Told
    <3>6. CASE Sweep \/ Close \/ StopStep \/ Closed \/ UNCHANGED vars
      BY <3>6 DEF Sweep, Close, StopStep, StopPumps, Clear, Closed, vars
    <3> QED
      BY <3>1, <3>2, <3>3, <3>4, <3>5, <3>6 DEF Next, Client
  <2> QED
    BY <2>1, <2>2
<1> QED
  BY <1>4, <1>5

\* A client that calls when it was told to keeps its job and sees its end, whatever the
\* lease, the poll cadence and the other clients.
THEOREM ObedientTheorem ==
  ASSUME RoomAndTime
  PROVE  Spec => []ObedientIsServed
<1>1. Init => ServeInv
  BY JobsConfig DEF Init, Life!Init, ServeInv, FinishedInv, ObedientIsAnswered
<1>2. JInv /\ JInv' /\ ServeInv /\ [Next]_vars => ServeInv'
  <2> SUFFICES ASSUME JInv, JInv', ServeInv, [Next]_vars PROVE ServeInv'
    OBVIOUS
  <2>1. FinishedInv'
    BY FinishedKept DEF JInv, ServeInv
  <2>2. \A j \in Obedient \cap store' : InTouch(j)'
    BY TouchKept, RoomAndTime DEF JInv, ServeInv
  <2>3. ObedientIsAnswered'
    BY AnsweredKept, RoomAndTime DEF JInv
  <2> QED
    BY <2>1, <2>2, <2>3 DEF ServeInv
<1>3. ServeInv => ObedientIsServed
  BY DEF ServeInv, InTouch, ObedientIsServed, ObedientKeepsItsJob
<1> QED
  BY <1>1, <1>2, <1>3, StoreInvariant, PTL DEF Spec
=============================================================================
