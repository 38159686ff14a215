-------------------------- MODULE ClientProperties --------------------------
(***************************************************************************)
(* What the Python client promises to its callers and to the router, stated *)
(* over Client.                                                             *)
(***************************************************************************)
EXTENDS Client

Statuses == Service!Live \cup Service!Ended
Results == Service!Ended \cup
    {"timeout", "cancelled by caller", "lost", "transport error", "not routed"}

\* Every variable holds a value of its kind; a run has one call under way at most, and
\* polls only a job it was given.
TypeOK ==
    /\ view \in [Ids -> Service!Views]
    /\ endpoints \in [Tags -> Hosts \cup {NoHost}] /\ asked \subseteq Hosts
    /\ place \in [Callers -> {"idle", "submitting", "looking", "polling", "cleaning", "over"}]
    /\ attempt \in [Callers -> 0..MaxAttempts] /\ restarts \in 0..MaxRestarts
    /\ late \subseteq Timed
    /\ \A c \in Callers :
         /\ job[c] \in Ids \cup {NoJob} /\ host[c] \in Hosts \cup {NoHost}
         /\ place[c] \in {"looking", "polling", "cleaning"} => job[c] \in Ids
         /\ document[c] \in Statuses \cup {Nothing}
         /\ reply[c] # NoReply => place[c] \in {"submitting", "polling"} /\ post[c] = Nothing
         /\ delete[c] # Nothing => place[c] \in {"cleaning", "over"}
         /\ why[c] \in Results \cup {Nothing} /\ outcome[c] \in Results \cup {Nothing}

\* "A vanished job is not silently retried": whatever is lost on the way, a run makes the
\* router work once, and only one that asked for it under a key makes it work twice.
Made(c) == {j \in Ids : maker[j] = c}
NothingIsReplayedUnasked ==
    \A c \in Callers :
      Cardinality(Made(c)) <= IF c \in Resubmits /\ KeyGiven[c] # NoKey THEN MaxAttempts ELSE 1

\* "Cancellation reaches the GPU": a run that was given up on, by its caller or by its
\* deadline, leaves no job behind that it has been told of, unless the DELETE is still on
\* its way or was lost; being cancelled again meanwhile changes nothing.  (A job it was
\* never told of runs on until its lease lapses: JobProperties!AbandonedIsCancelled.)
GivenUpIsCancelled ==
    \A c \in Callers :
      outcome[c] \in {"timeout", "cancelled by caller"} /\ job[c] # NoJob
        /\ delete[c] \notin {"flying", "lost"} => view[job[c]] \notin Service!Live

\* "Routing that depends on the order things were listed in is routing that breaks
\* silently": what a host was taken in for stays with that host.
OneHostPerTag == \A h \in asked : \A t \in Serves[h] : endpoints[t] = h

\* Every run is where its calls put it, and every tag where its host was listed.
RunsAreSound == TypeOK /\ OneHostPerTag

\* A run with a timeout ends, whatever the router does or does not do with its job.
RunsEnd == \A c \in Timed : place[c] # "idle" ~> place[c] = "over"
=============================================================================
