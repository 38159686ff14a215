------------------------------- MODULE Client -------------------------------
(***************************************************************************)
(* The Python client (src/clients/python): AsyncClient.run, from the        *)
(* registry's choice of a host to the completion, over the router as        *)
(* JobService describes it and a network that loses calls and answers.       *)
(* Each call of run is a process of its own; between two awaits it takes     *)
(* one step.                                                                *)
(***************************************************************************)
EXTENDS Integers, FiniteSets

CONSTANTS
    Ids, KeyOf, NoKey,   \* of the router's jobs, as in JobService
    Callers,
    KeyGiven,     \* the idempotency_key of a run, or NoKey
    Resubmits,    \* the runs with resubmit_on_loss=True
    Timed,        \* the runs with a deadline
    Defaulted,    \* those of them whose deadline is AsyncClient.timeout, which every
                  \* submission starts anew; the others' is run's own timeout
    Tags, Hosts,
    Serves,       \* the tags /v1/models of a host lists
    Router,       \* the host that is a `sir`; any other ignores the preference
    Default,      \* SIR_BASE_URL, or NoHost
    NoHost, NoJob,
    MaxAttempts,  \* _MAX_ATTEMPTS
    MaxRestarts   \* bound: restarts of the router

ASSUME ClientConfig ==
    /\ IsFiniteSet(Ids) /\ "none" \notin Callers
    /\ Resubmits \subseteq Callers /\ Defaulted \subseteq Timed /\ Timed \subseteq Callers
    /\ Serves \in [Hosts -> SUBSET Tags] /\ Router \in Hosts
    /\ NoHost \notin Hosts /\ NoJob \notin Ids /\ Default \in Hosts \cup {NoHost}
    /\ MaxAttempts \in Nat \ {0} /\ MaxRestarts \in Nat

VARIABLES
    view,        \* of the router's jobs, as in JobService
    endpoints,   \* Registry._endpoints
    asked,       \* hosts whose tags discover has taken in
    place,       \* a run: idle, submitting, looking, polling, cleaning, over
    host,        \* its base_url
    post,        \* its POST: none, flying
    reply,       \* the answer on its way to it, or none
    attempt,     \* submissions so far
    job,         \* Job.id
    document,    \* the status the run has last seen
    late,        \* runs whose deadline has passed
    why,         \* what it is leaving with, while it cleans up
    delete,      \* its DELETE: none, flying, done, lost
    outcome,     \* what the caller got
    maker,       \* the run whose submission made a job
    restarts

registryVars == <<endpoints, asked>>
callVars == <<host, post, reply, delete>>
runVars  == <<place, attempt, job, document, late, why, outcome>>
vars == <<view, registryVars, callVars, runVars, maker, restarts>>

Nothing == "none"
NoReply == [id |-> NoJob, says |-> Nothing]

Service == INSTANCE JobService

Init ==
    /\ Service!Init
    /\ endpoints = [t \in Tags |-> NoHost] /\ asked = {}
    /\ place = [c \in Callers |-> "idle"] /\ host = [c \in Callers |-> NoHost]
    /\ post = [c \in Callers |-> Nothing] /\ reply = [c \in Callers |-> NoReply]
    /\ attempt = [c \in Callers |-> 0] /\ job = [c \in Callers |-> NoJob]
    /\ document = [c \in Callers |-> Nothing] /\ late = {}
    /\ why = [c \in Callers |-> Nothing] /\ delete = [c \in Callers |-> Nothing]
    /\ outcome = [c \in Callers |-> Nothing]
    /\ maker = [j \in Ids |-> Nothing] /\ restarts = 0

-----------------------------------------------------------------------------
(* The registry *)

Resolve(tag) == IF endpoints[tag] # NoHost THEN endpoints[tag] ELSE Default

\* discover asks one host.  A tag that is another's stops it, with the tags listed
\* before that one taken in.
LastWins(h) ==                                       \* mutant of Discover
    /\ \A c \in Callers : place[c] = "idle"
    /\ endpoints' = [t \in Tags |-> IF t \in Serves[h] THEN h ELSE endpoints[t]]
    /\ asked' = asked \cup {h}
    /\ UNCHANGED <<view, callVars, runVars, maker, restarts>>
Discover(h) ==
    LET claimed == {t \in Serves[h] : endpoints[t] \notin {NoHost, h}} IN
    /\ \A c \in Callers : place[c] = "idle"
    /\ \E taken \in SUBSET (Serves[h] \ claimed) :
         /\ claimed = {} => taken = Serves[h]
         /\ endpoints' = [t \in Tags |-> IF t \in taken THEN h ELSE endpoints[t]]
    /\ asked' = IF claimed = {} THEN asked \cup {h} ELSE asked
    /\ UNCHANGED <<view, callVars, runVars, maker, restarts>>

-----------------------------------------------------------------------------
(* A run *)

\* The run ends with `result`.
Ends(c, result) ==
    /\ place' = [place EXCEPT ![c] = "over"]
    /\ outcome' = [outcome EXCEPT ![c] = result]

\* submit sends the POST to host h.
Sends(c, h) ==
    /\ place' = [place EXCEPT ![c] = "submitting"]
    /\ host' = [host EXCEPT ![c] = h]
    /\ post' = [post EXCEPT ![c] = "flying"]
    /\ attempt' = [attempt EXCEPT ![c] = @ + 1]

Run(c, tag) ==
    /\ place[c] = "idle"
    /\ IF Resolve(tag) = NoHost
       THEN Ends(c, "not routed") /\ UNCHANGED <<host, post, attempt>>
       ELSE Sends(c, Resolve(tag)) /\ UNCHANGED outcome
    /\ UNCHANGED <<view, registryVars, reply, job, document, late, why, delete, maker,
                   restarts>>

\* submit reads the answer: an id (202), a completion (200), or a refusal.
Submitted(c) ==
    /\ place[c] = "submitting" /\ reply[c] # NoReply
    /\ reply' = [reply EXCEPT ![c] = NoReply]
    /\ IF reply[c].id \in Ids
       THEN /\ place' = [place EXCEPT ![c] = "looking"]
            /\ job' = [job EXCEPT ![c] = reply[c].id]
            /\ document' = [document EXCEPT ![c] = reply[c].says]
            /\ UNCHANGED outcome
       ELSE Ends(c, reply[c].says) /\ UNCHANGED <<job, document>>
    /\ UNCHANGED <<view, registryVars, host, post, attempt, late, why, delete, maker, restarts>>

\* _cancel_quietly: the DELETE leaves in a task of its own.
StartsCleanup(c, result) ==
    /\ place' = [place EXCEPT ![c] = "cleaning"]
    /\ why' = [why EXCEPT ![c] = result]
    /\ delete' = [delete EXCEPT ![c] = "flying"]

\* _await_job looks at the document: it ends the run, or the deadline does, or the run
\* sleeps and asks again.
TooEarlyToTell(c) ==                                 \* mutant of Looks
    /\ place[c] = "looking"
    /\ IF document[c] \in Service!Ended THEN Ends(c, document[c]) /\ UNCHANGED <<why, delete>>
       ELSE IF c \in late /\ document[c] = "running"
       THEN StartsCleanup(c, "timeout") /\ UNCHANGED outcome
       ELSE place' = [place EXCEPT ![c] = "polling"] /\ UNCHANGED <<why, delete, outcome>>
    /\ UNCHANGED <<view, registryVars, host, post, reply, attempt, job, document, late,
                   maker, restarts>>
Looks(c) ==
    /\ place[c] = "looking"
    /\ IF document[c] \in Service!Ended THEN Ends(c, document[c]) /\ UNCHANGED <<why, delete>>
       ELSE IF c \in late THEN StartsCleanup(c, "timeout") /\ UNCHANGED outcome
       ELSE place' = [place EXCEPT ![c] = "polling"] /\ UNCHANGED <<why, delete, outcome>>
    /\ UNCHANGED <<view, registryVars, host, post, reply, attempt, job, document, late,
                   maker, restarts>>

\* A lost job is submitted again by a run that was told to, once, under its key.
KeyOrNot(c) == c \in Resubmits /\ attempt[c] < MaxAttempts   \* mutant of MayResubmit
MayResubmit(c) == c \in Resubmits /\ KeyGiven[c] # NoKey /\ attempt[c] < MaxAttempts

Polled(c) ==
    /\ place[c] = "polling" /\ reply[c] # NoReply
    /\ reply' = [reply EXCEPT ![c] = NoReply]
    /\ \/ /\ reply[c].says # "not found"
          /\ document' = [document EXCEPT ![c] = reply[c].says]
          /\ place' = [place EXCEPT ![c] = "looking"]
          /\ UNCHANGED <<host, post, attempt, late, outcome>>
       \/ /\ reply[c].says = "not found" /\ MayResubmit(c)
          /\ Sends(c, host[c])
          /\ late' = late \ ({c} \cap Defaulted)
          /\ UNCHANGED <<document, outcome>>
       \/ /\ reply[c].says = "not found" /\ ~MayResubmit(c)
          /\ Ends(c, "lost")
          /\ UNCHANGED <<host, post, attempt, document, late>>
    /\ UNCHANGED <<view, registryVars, job, why, delete, maker, restarts>>

\* The caller's task is cancelled: in submit it just ends, later the job is cancelled.
\* A second cancellation meets the shield, and only ends the wait for the DELETE.
EndsAtOnce(c) ==                                     \* mutant of GivesUp
    /\ place[c] \in {"submitting", "polling", "cleaning"}
    /\ Ends(c, IF place[c] = "cleaning" THEN why[c] ELSE "cancelled by caller")
    /\ reply' = [reply EXCEPT ![c] = NoReply]
    /\ UNCHANGED <<view, registryVars, host, post, attempt, job, document, late, why, delete,
                   maker, restarts>>
GivesUp(c) ==
    /\ \/ place[c] = "submitting" /\ Ends(c, "cancelled by caller") /\ UNCHANGED <<why, delete>>
       \/ place[c] = "polling" /\ StartsCleanup(c, "cancelled by caller") /\ UNCHANGED outcome
       \/ place[c] = "cleaning" /\ Ends(c, why[c]) /\ UNCHANGED <<why, delete>>
    /\ reply' = [reply EXCEPT ![c] = NoReply]
    /\ UNCHANGED <<view, registryVars, host, post, attempt, job, document, late, maker,
                   restarts>>

CleanedUp(c) ==
    /\ place[c] = "cleaning" /\ delete[c] # "flying"
    /\ Ends(c, why[c])
    /\ UNCHANGED <<view, registryVars, callVars, attempt, job, document, late, why, maker,
                   restarts>>

\* time.monotonic() reaches the deadline.
Deadline(c) ==
    /\ c \in Timed \ late /\ place[c] \notin {"idle", "over"}
    /\ c \in Defaulted => place[c] # "submitting"
    /\ late' = late \cup {c}
    /\ UNCHANGED <<view, registryVars, callVars, place, attempt, job, document, why, outcome,
                   maker, restarts>>

-----------------------------------------------------------------------------
(* The other end, and the network between *)

\* The answer goes to the run, if the run is still there.
Answer(c, where, id, says) ==
    reply' = IF place[c] = where THEN [reply EXCEPT ![c] = [id |-> id, says |-> says]]
             ELSE reply

\* One new id for a job under key k.
Fresh(k) ==
    LET new == {j \in Ids : KeyOf[j] = k /\ view[j] = "new"} IN
    IF new = {} THEN {} ELSE {CHOOSE j \in new : TRUE}

\* The router takes a POST: a known key is answered with its job; otherwise a job is
\* made, or there is no room for one.  Another host answers with the completion.
Takes(c) ==
    /\ post[c] = "flying" /\ post' = [post EXCEPT ![c] = Nothing]
    /\ \/ /\ host[c] # Router
          /\ \E says \in {"done", "transport error"} : Answer(c, "submitting", NoJob, says)
          /\ UNCHANGED <<view, maker>>
       \/ \E j \in Service!Holding(KeyGiven[c]) :
            /\ host[c] = Router /\ Answer(c, "submitting", j, view[j])
            /\ UNCHANGED <<view, maker>>
       \/ \E j \in Fresh(KeyGiven[c]) :
            /\ host[c] = Router /\ Service!Accepted(j, "queued")
            /\ view' = [view EXCEPT ![j] = "queued"]
            /\ maker' = [maker EXCEPT ![j] = c]
            /\ Answer(c, "submitting", j, "queued")
       \/ /\ host[c] = Router /\ Service!Holding(KeyGiven[c]) = {}
          /\ Answer(c, "submitting", NoJob, "transport error")
          /\ UNCHANGED <<view, maker>>
    /\ UNCHANGED <<registryVars, host, delete, runVars, restarts>>

\* GET.
Says(c) ==
    /\ place[c] = "polling" /\ reply[c] = NoReply
    /\ Answer(c, "polling", job[c], IF view[job[c]] = "gone" THEN "not found" ELSE view[job[c]])
    /\ UNCHANGED <<view, registryVars, host, post, delete, runVars, maker, restarts>>

\* DELETE; a job that is not there any more is as good.
Cancels(c) ==
    /\ delete[c] = "flying" /\ delete' = [delete EXCEPT ![c] = "done"]
    /\ view' = [view EXCEPT ![job[c]] = IF Service!Deleted(job[c], "cancelled") THEN "cancelled" ELSE @]
    /\ UNCHANGED <<registryVars, host, post, reply, runVars, maker, restarts>>

\* A POST does not arrive; a call fails, with its answer lost or not; a DELETE is lost,
\* which nobody hears of.
Vanishes(c) ==
    /\ post[c] = "flying" /\ post' = [post EXCEPT ![c] = Nothing]
    /\ Answer(c, "submitting", NoJob, "transport error")
    /\ UNCHANGED <<view, registryVars, host, delete, runVars, maker, restarts>>
Fails(c) ==
    /\ place[c] \in {"submitting", "polling"} /\ post[c] = Nothing
    /\ Ends(c, "transport error")
    /\ reply' = [reply EXCEPT ![c] = NoReply]
    /\ UNCHANGED <<view, registryVars, host, post, delete, attempt, job, document, late, why,
                   maker, restarts>>
DeleteLost(c) ==
    /\ delete[c] = "flying" /\ delete' = [delete EXCEPT ![c] = "lost"]
    /\ UNCHANGED <<view, registryVars, host, post, reply, runVars, maker, restarts>>

\* A job moves on or is forgotten; the router restarts.
Moves(j) ==
    /\ \E v \in Service!Views : (Service!Progresses(j, v) \/ Service!Forgotten(j, v)) /\ view' = [view EXCEPT ![j] = v]
    /\ UNCHANGED <<registryVars, callVars, runVars, maker, restarts>>
Restarts ==
    /\ restarts < MaxRestarts /\ restarts' = restarts + 1
    /\ Service!Restart
    /\ UNCHANGED <<registryVars, callVars, runVars, maker>>

-----------------------------------------------------------------------------
RunStep(c) == Submitted(c) \/ Looks(c) \/ Polled(c) \/ CleanedUp(c)
Network(c) == Takes(c) \/ Says(c) \/ Cancels(c) \/ Vanishes(c) \/ Fails(c) \/ DeleteLost(c)
AllOver == (\A c \in Callers : place[c] = "over") /\ UNCHANGED vars

Next ==
    \/ \E h \in Hosts : Discover(h)
    \/ \E c \in Callers :
         \/ \E tag \in Tags : Run(c, tag)
         \/ RunStep(c) \/ GivesUp(c) \/ Deadline(c) \/ Network(c)
    \/ \E j \in Ids : Moves(j)
    \/ Restarts \/ AllOver

Spec == Init /\ [][Next]_vars

\* A run that can go on does, time passes, and a call is answered or fails (the HTTP
\* client has a timeout).  Nothing is assumed of what the router does with the jobs.
Fairness ==
    \A c \in Callers : WF_vars(RunStep(c)) /\ WF_vars(Deadline(c)) /\ WF_vars(Network(c))

FairSpec == Spec /\ Fairness
=============================================================================
