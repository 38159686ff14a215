------------------------------ MODULE Estimate ------------------------------
(***************************************************************************)
(* What a queued request is told about its wait: policy.estimate_wait, a    *)
(* pure function of the snapshot Decide is given.  It projects without      *)
(* running the scores, so the two can disagree; PolicyWorld says where they *)
(* may not.                                                                 *)
(***************************************************************************)
EXTENDS Policy

CONSTANTS
    Slots,   \* SchedulerConfig.max_concurrent_requests
    Mean,    \* Engine._mean_seconds, the observed mean duration of a request
    MinRetryAfter, MaxRetryAfter   \* _MIN_RETRY_AFTER, _MAX_RETRY_AFTER, in quarters of the
                                   \* clock's unit

ASSUME EstimateConfig ==
    /\ Slots \in Nat \ {0} /\ Mean \in [Models -> Nat]
    /\ MinRetryAfter \in Nat /\ MaxRetryAfter \in Nat /\ MinRetryAfter <= MaxRetryAfter

AtLeastZero(n) == IF n > 0 THEN n ELSE 0
Lesser(a, b) == IF a < b THEN a ELSE b
Larger(a, b) == IF a < b THEN b ELSE a

\* WaitEstimate.dispatch_within_seconds: the rest of the starvation ceiling.
CeilingLeft(s, m) == AtLeastZero(MaxWait - s.wait[m])

\* What is left of the window the incumbent holds the GPU for.
Hold(s) == IF s.resident = None THEN 0 ELSE AtLeastZero(MinResidency - s.residency)

\* WaitEstimate.load_seconds.
LoadSeconds(s, m) == IF m = s.resident THEN 0 ELSE LoadCost[m]

\* Until model m is loaded, if it is not: the window or the ceiling, whichever lapses
\* first, then the load; and not before a crashed backend's retry.  The code looks at the
\* retry of a model that is not resident only.
BackoffOnTop(s, m) ==                                \* mutant of GpuWait
    IF m = s.resident THEN 0
    ELSE Lesser(Hold(s), CeilingLeft(s, m)) + s.backoff[m] + LoadSeconds(s, m)
GpuWait(s, m) ==
    IF m = s.resident THEN 0
    ELSE Larger(Lesser(Hold(s), CeilingLeft(s, m)), s.backoff[m]) + LoadSeconds(s, m)

\* Requests leave in batches of as many as there are slots.
Ahead(s, m, position) == position + (IF m = s.resident THEN s.inFlight ELSE 0)
Estimated(s, m, position) ==
    GpuWait(s, m) + (Ahead(s, m, position) \div Slots) * Mean[m] + Mean[m]

\* A client is told to call again after a quarter of that, within bounds.  In quarters.
RetryAfter(s, m, position) ==
    Lesser(MaxRetryAfter, Larger(MinRetryAfter, Estimated(s, m, position)))
=============================================================================
