--------------------------- MODULE JobProperties ---------------------------
(***************************************************************************)
(* What the job store promises to the clients that poll it and to the       *)
(* router that pays for them, stated over the JobStore module.              *)
(***************************************************************************)
EXTENDS JobStore

Phases == {"up", "closing", "draining", "closed"}

-----------------------------------------------------------------------------
(* Invariants *)

\* Every variable holds a value of its kind; a job in the store has been submitted.
TypeOK ==
    /\ state \in [Ids -> Life!States] /\ terminator \in [Ids -> Life!Terminators]
    /\ cancelled \subseteq Ids
    /\ \A j \in Ids : sent[j] \in 0..MaxChunks[j] /\ chunks[j] \in 0..sent[j]
    /\ store \subseteq {j \in Ids : state[j] # "new"}
    /\ byKey \in [Keys -> Ids \cup {Nobody}]
    /\ terminal \in [Ids -> Life!Terminators]
    /\ pump \in [Ids -> {"none", "reading", "cancelling", "over"}]
    /\ polled \in [store -> 0..AgeCap] /\ since \in [store -> 0..AgeCap]
    /\ read \in [store -> {Unread} \cup 0..AgeCap]
    /\ finished \subseteq store
    /\ sweepIn \in 0..SweepInterval
    /\ \A j \in Obedient : told[j].due \in 0..LongestAdvice
    /\ phase \in Phases /\ contained \in 0..MaxContained

\* "A ceiling on retained jobs, so an unattended router can't grow without bound":
\* whatever is submitted, evicted and expired, at most max_jobs jobs are kept.
StoreBounded == Cardinality(store) <= MaxJobs

\* The two tables agree: a retained job is the one its key leads to, so two retained
\* jobs never share a key and no key outlives its job.
KeysLeadToTheirJobs ==
    /\ \A j \in store : KeyOf[j] # NoKey => byKey[KeyOf[j]] = j
    /\ \A k \in Keys : byKey[k] # Nobody => byKey[k] \in store

\* A buffer whose end has been read is whole and true.  "Jobs first: their pumps are
\* readers of queues the engine is about to drain": a job that reads an error is one that
\* failed, never one the shutdown turned away, one that reads an end is one the engine
\* calls done, and either has read everything that came before.
EndedIsTrue ==
    \A j \in store :
      /\ terminal[j] # "none" => chunks[j] = sent[j]
      /\ terminal[j] = "error" => state[j] = "failed"
      /\ terminal[j] = "end" => state[j] = "done"

\* The store keeps what it should and no more: its tables within their bound and in
\* agreement, its buffers whole and true.
StoreIsSound == TypeOK /\ StoreBounded /\ KeysLeadToTheirJobs /\ EndedIsTrue

\* "An idempotent resubmission must not buy a second generation": of the requests that
\* were ever submitted under one key, at most one is queued or generating for a client.
Paying(j) == state[j] \in {"queued", "running"} /\ j \notin cancelled
OneGenerationPerKey ==
    \A i, j \in Ids : KeyOf[i] # NoKey /\ KeyOf[i] = KeyOf[j] /\ Paying(i) /\ Paying(j)
                        => i = j

\* The lease bounds the cost of an abandoned job: no retained job is still under way
\* when it has gone unpolled for longer than the lease and one sweep.
AbandonedIsCancelled ==
    Lease > 0 => \A j \in store : IsTerminal(j) \/ polled[j] <= Lease + SweepInterval

\* "Never advise a cadence that would cost the client its lease": a client that calls
\* again when it was told to, and never deletes its job, never finds it cancelled by
\* the store.  The obedient clients give no key: one that submits again under its key is
\* advised like a poll, but its lease is not renewed.
ObedientKeepsItsJob == Obedient \cap store \cap cancelled = {}

\* Such a client sees the end of its job: with no eviction (as many places as jobs), the
\* store does not forget the job before it has shown the client a final status.
ObedientIsAnswered ==
    phase = "up" => \A j \in Obedient :
      state[j] # "new" /\ j \notin store => told[j].status \in Terminal

\* A client that does as it is told has its job carried through and its result kept.
ObedientIsServed == ObedientKeepsItsJob /\ ObedientIsAnswered

-----------------------------------------------------------------------------
(* Steps *)

\* A job that has ended stays as it ended, whatever its request does afterwards; only a
\* DELETE may still turn it into a cancelled one, before the pump has read its end.
FinishedIsFinal ==
    [][\A j \in store \cap store' :
         IsTerminal(j) => \/ JobState(j)' = JobState(j)
                          \/ j \in cancelled' \ cancelled /\ terminal[j] = "none"]_vars

\* What a poll is answered changes only as JobService allows, which is all the Client
\* module relies on: in particular a known key is never given a second job, and only
\* what has ended is forgotten.
Seen(j) == IF state[j] = "new" THEN "new" ELSE IF j \in store THEN JobState(j) ELSE "gone"
Service == INSTANCE JobService WITH view <- [j \in Ids |-> Seen(j)]
ImplementsJobService == Service!Spec

-----------------------------------------------------------------------------
(* Liveness, under FairSpec *)

\* "Buffers job results, expires them": a job that has ended, and whose request said so
\* or was cancelled, is forgotten in the end, however often it is polled.  (A request
\* that a crash took with it says nothing, see the run silent_end: its pump reads on, and
\* its job keeps its place until it is evicted or the store stops.)
FinishedExpires ==
    \A j \in Ids :
      (j \in store /\ IsTerminal(j) /\ (terminator[j] # "none" \/ j \in cancelled))
        ~> j \notin store
=============================================================================
