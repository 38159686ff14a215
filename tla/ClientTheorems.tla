--------------------------- MODULE ClientTheorems ---------------------------
(***************************************************************************)
(* Proofs about the Python client: every run is where its calls put it,      *)
(* nothing is replayed unasked, and what is given up is cancelled, for any   *)
(* runs, hosts, keys, jobs and restarts.                                    *)
(***************************************************************************)
EXTENDS ClientProperties, FiniteSetTheorems, TLAPS

-----------------------------------------------------------------------------
(* The inductive invariant *)

Places == {"idle", "submitting", "looking", "polling", "cleaning", "over"}
Given == {"timeout", "cancelled by caller"}
Replies == [id : Ids \cup {NoJob}, says : Statuses \cup {Nothing, "not found", "transport error"}]

Kinds ==
    /\ view \in [Ids -> Service!Views]
    /\ endpoints \in [Tags -> Hosts \cup {NoHost}] /\ asked \subseteq Hosts
    /\ place \in [Callers -> Places] /\ host \in [Callers -> Hosts \cup {NoHost}]
    /\ post \in [Callers -> {Nothing, "flying"}] /\ reply \in [Callers -> Replies]
    /\ attempt \in [Callers -> 0..MaxAttempts] /\ job \in [Callers -> Ids \cup {NoJob}]
    /\ document \in [Callers -> Statuses \cup {Nothing}] /\ late \subseteq Timed
    /\ why \in [Callers -> Given \cup {Nothing}]
    /\ delete \in [Callers -> {Nothing, "flying", "done", "lost"}]
    /\ outcome \in [Callers -> Results \cup {Nothing}]
    /\ maker \in [Ids -> Callers \cup {Nothing}] /\ restarts \in 0..MaxRestarts

\* Where a run is, what it has been told, and what has become of its job.
Own(c) ==
    /\ place[c] = "idle" => job[c] = NoJob /\ attempt[c] = 0
    /\ place[c] \in {"looking", "polling", "cleaning"} => job[c] \in Ids
    /\ job[c] \in Ids => view[job[c]] # "new"
    /\ place[c] = "submitting" /\ job[c] \in Ids => view[job[c]] = "gone"
    /\ post[c] = "flying" => place[c] \in {"submitting", "over"}
    /\ reply[c] # NoReply =>
         /\ post[c] = Nothing
         /\ \/ /\ place[c] = "submitting"
               /\ \/ /\ reply[c].id \in Ids /\ reply[c].says \in Statuses
                     /\ view[reply[c].id] # "new"
                  \/ reply[c].id = NoJob /\ reply[c].says \in {"done", "transport error"}
            \/ /\ place[c] = "polling"
               /\ \/ reply[c].says \in Statuses
                  \/ reply[c].says = "not found" /\ view[job[c]] = "gone"
    /\ delete[c] # Nothing => place[c] \in {"cleaning", "over"} /\ job[c] \in Ids
    /\ delete[c] = "done" => view[job[c]] \notin Service!Live
    /\ place[c] = "cleaning" => delete[c] # Nothing /\ why[c] \in Given
    /\ outcome[c] # Nothing => place[c] = "over"
    /\ outcome[c] \in Given /\ job[c] \in Ids =>
         delete[c] # Nothing \/ view[job[c]] = "gone"

\* Each submission makes one job at most.
Allowed(c) == IF c \in Resubmits /\ KeyGiven[c] # NoKey THEN MaxAttempts ELSE 1
Counts(c) ==
    /\ attempt[c] <= Allowed(c)
    /\ Cardinality(Made(c)) <= attempt[c]
    /\ post[c] = "flying" => Cardinality(Made(c)) < attempt[c]

CInv ==
    /\ Kinds /\ OneHostPerTag
    /\ \A c \in Callers : Own(c) /\ Counts(c)

-----------------------------------------------------------------------------
(* Kinds *)

USE DEF Nothing

LEMMA RepliesHold ==
  /\ NoReply \in Replies
  /\ \A id \in Ids \cup {NoJob}, says \in Statuses \cup {"not found", "transport error"} :
       /\ [id |-> id, says |-> says] \in Replies
       /\ [id |-> id, says |-> says] # NoReply
BY DEF Replies, NoReply, Statuses, Service!Live, Service!Ended

LEMMA AnswerKinds ==
  ASSUME Kinds, NEW c \in Callers, NEW where, NEW id \in Ids \cup {NoJob},
         NEW says \in Statuses \cup {"not found", "transport error"}, Answer(c, where, id, says)
  PROVE  reply' \in [Callers -> Replies]
BY RepliesHold DEF Answer, Kinds

LEMMA RunKinds ==
  ASSUME Kinds, NEW c \in Callers, Own(c), NEW tag \in Tags, Run(c, tag)
  PROVE  Kinds'
<1>1. Resolve(tag) \in Hosts \cup {NoHost}
  BY ClientConfig DEF Resolve, Kinds
<1>2. CASE Resolve(tag) = NoHost
  BY <1>2 DEF Run, Ends, Kinds, Places, Results, registryVars
<1>3. CASE Resolve(tag) # NoHost
  <2>1. attempt' \in [Callers -> 0..MaxAttempts]
    BY <1>3, ClientConfig DEF Run, Sends, Own, Kinds
  <2> QED
    BY <1>1, <1>3, <2>1 DEF Run, Sends, Kinds, Places, registryVars
<1> QED
  BY <1>2, <1>3

LEMMA StepKinds ==
  ASSUME Kinds, NEW c \in Callers, Own(c), RunStep(c)
  PROVE  Kinds'
<1>1. CASE Submitted(c)
  <2>1. CASE reply[c].id \in Ids
    <3>1. reply[c].says \in Statuses
      BY <1>1, <2>1, ClientConfig DEF Submitted, Own
    <3> QED
      BY <1>1, <2>1, <3>1, RepliesHold DEF Submitted, Kinds, Places, registryVars
  <2>2. CASE reply[c].id \notin Ids
    <3>1. reply[c].says \in Results
      BY <1>1, <2>2 DEF Submitted, Own, Results, Service!Ended
    <3> QED
      BY <1>1, <2>2, <3>1, RepliesHold DEF Submitted, Ends, Kinds, Places, registryVars
  <2> QED
    BY <2>1, <2>2
<1>2. CASE Looks(c)
  <2> USE DEF Kinds, Places, registryVars
  <2>1. CASE document[c] \in Service!Ended
    BY <1>2, <2>1 DEF Looks, Ends, Results
  <2>2. CASE document[c] \notin Service!Ended /\ c \in late
    BY <1>2, <2>2 DEF Looks, StartsCleanup, Given
  <2>3. CASE document[c] \notin Service!Ended /\ c \notin late
    BY <1>2, <2>3 DEF Looks
  <2> QED
    BY <2>1, <2>2, <2>3
<1>3. CASE Polled(c)
  <2>1. reply' \in [Callers -> Replies]
    BY <1>3, RepliesHold DEF Polled, Kinds
  <2>2. CASE reply[c].says # "not found"
    <3>1. reply[c].says \in Statuses
      BY <1>3, <2>2 DEF Polled, Own
    <3> QED
      BY <1>3, <2>1, <2>2, <3>1 DEF Polled, Kinds, Places, registryVars
  <2>3. CASE reply[c].says = "not found" /\ MayResubmit(c)
    <3>1. /\ Sends(c, host[c]) /\ late' \subseteq late
          /\ UNCHANGED <<view, registryVars, job, document, outcome, why, delete, maker, restarts>>
      BY <1>3, <2>3 DEF Polled
    <3>2. attempt[c] + 1 \in 0..MaxAttempts
      <4>1. attempt[c] < MaxAttempts
        BY <2>3 DEF MayResubmit
      <4>2. attempt[c] \in 0..MaxAttempts /\ MaxAttempts \in Nat
        BY ClientConfig DEF Kinds
      <4> QED
        BY <4>1, <4>2
    <3>3. attempt' \in [Callers -> 0..MaxAttempts]
      BY <3>1, <3>2 DEF Sends, Kinds
    <3>4. /\ host' \in [Callers -> Hosts \cup {NoHost}] /\ post' \in [Callers -> {Nothing, "flying"}]
          /\ place' \in [Callers -> Places]
      BY <3>1 DEF Sends, Kinds, Places
    <3> QED
      BY <2>1, <3>1, <3>3, <3>4 DEF Kinds, registryVars
  <2>4. CASE reply[c].says = "not found" /\ ~MayResubmit(c)
    BY <1>3, <2>1, <2>4 DEF Polled, Ends, Kinds, Places, Results, registryVars
  <2> QED
    BY <2>2, <2>3, <2>4
<1>4. CASE CleanedUp(c)
  BY <1>4 DEF CleanedUp, Ends, Own, Kinds, Places, Results, Given, registryVars, callVars
<1> QED
  BY <1>1, <1>2, <1>3, <1>4 DEF RunStep

LEMMA CallerKinds ==
  ASSUME Kinds, NEW c \in Callers, Own(c), GivesUp(c) \/ Deadline(c)
  PROVE  Kinds'
<1>1. CASE GivesUp(c)
  <2>1. reply' \in [Callers -> Replies]
    BY <1>1, RepliesHold DEF GivesUp, Kinds
  <2>2. CASE place[c] = "submitting"
    BY <1>1, <2>1, <2>2 DEF GivesUp, Ends, Kinds, Places, Results, registryVars
  <2>3. CASE place[c] = "polling"
    BY <1>1, <2>1, <2>3 DEF GivesUp, StartsCleanup, Kinds, Places, Given, registryVars
  <2>4. CASE place[c] = "cleaning"
    <3>1. why[c] \in Results
      BY <2>4 DEF Own, Given, Results
    <3> QED
      BY <1>1, <2>1, <2>4, <3>1 DEF GivesUp, Ends, Kinds, Places, registryVars
  <2> QED
    BY <1>1, <2>2, <2>3, <2>4 DEF GivesUp
<1>2. CASE Deadline(c)
  BY <1>2 DEF Deadline, Kinds, registryVars, callVars
<1> QED
  BY <1>1, <1>2

LEMMA ViewKinds ==
  /\ {"new", "gone"} \cup Statuses = Service!Views
  /\ Service!Live \cup Service!Ended = Statuses
  /\ {"queued", "cancelled", "done"} \subseteq Statuses
BY DEF Service!Views, Statuses, Service!Live, Service!Ended

LEMMA FreshIsNew ==
  ASSUME NEW k, NEW j \in Fresh(k)
  PROVE  j \in Ids /\ view[j] = "new" /\ KeyOf[j] = k
<1> DEFINE new == {i \in Ids : KeyOf[i] = k /\ view[i] = "new"}
<1>1. new # {} /\ j = CHOOSE i \in new : TRUE
  BY DEF Fresh
<1>2. j \in new
  BY <1>1
<1> QED
  BY <1>2

LEMMA NetworkKinds ==
  ASSUME Kinds, NEW c \in Callers, Own(c), Network(c)
  PROVE  Kinds'
<1>1. CASE Takes(c)
  <2>1. reply' \in [Callers -> Replies]
    <3>1. ASSUME NEW says \in {"done", "transport error"}, Answer(c, "submitting", NoJob, says)
          PROVE  reply' \in [Callers -> Replies]
      BY <3>1, AnswerKinds, ViewKinds
    <3>2. ASSUME NEW j \in Service!Holding(KeyGiven[c]), Answer(c, "submitting", j, view[j])
          PROVE  reply' \in [Callers -> Replies]
      <4>1. j \in Ids /\ view[j] \in Statuses
        BY ViewKinds DEF Service!Holding
      <4> QED
        BY <3>2, <4>1, AnswerKinds
    <3>3. ASSUME NEW j \in Fresh(KeyGiven[c]), Answer(c, "submitting", j, "queued")
          PROVE  reply' \in [Callers -> Replies]
      BY <3>3, FreshIsNew, AnswerKinds, ViewKinds
    <3> QED
      BY <1>1, <3>1, <3>2, <3>3 DEF Takes
  <2>2. view' \in [Ids -> Service!Views] /\ maker' \in [Ids -> Callers \cup {Nothing}]
    BY <1>1, ViewKinds DEF Takes, Kinds
  <2> QED
    BY <1>1, <2>1, <2>2 DEF Takes, Kinds, registryVars, runVars
<1>2. CASE Says(c)
  <2>1. job[c] \in Ids /\ view[job[c]] # "new" /\ view[job[c]] \in Service!Views
    BY <1>2 DEF Says, Own, Kinds
  <2>2. reply' \in [Callers -> Replies]
    BY <1>2, <2>1, AnswerKinds, ViewKinds DEF Says
  <2> QED
    BY <1>2, <2>2 DEF Says, Kinds, registryVars, runVars
<1>3. CASE Cancels(c)
  <2>1. view' \in [Ids -> Service!Views]
    <3>1. "cancelled" \in Service!Views
      BY ViewKinds
    <3> QED
      BY <1>3, <3>1 DEF Cancels, Kinds
  <2> QED
    BY <1>3, <2>1 DEF Cancels, Kinds, registryVars, runVars
<1>4. CASE Vanishes(c)
  <2>1. reply' \in [Callers -> Replies]
    BY <1>4, AnswerKinds DEF Vanishes
  <2> QED
    BY <1>4, <2>1 DEF Vanishes, Kinds, registryVars, runVars
<1>5. CASE Fails(c)
  BY <1>5, RepliesHold DEF Fails, Ends, Kinds, Places, Results, registryVars
<1>6. CASE DeleteLost(c)
  BY <1>6 DEF DeleteLost, Kinds, registryVars, runVars
<1> QED
  BY <1>1, <1>2, <1>3, <1>4, <1>5, <1>6 DEF Network

LEMMA KindsKept ==
  ASSUME Kinds, \A c \in Callers : Own(c), [Next]_vars
  PROVE  Kinds'
<1>1. ASSUME NEW h \in Hosts, Discover(h) PROVE Kinds'
  BY <1>1 DEF Discover, Kinds, callVars, runVars
<1>2. ASSUME NEW j \in Ids, Moves(j) PROVE Kinds'
  BY <1>2 DEF Moves, Kinds, registryVars, callVars, runVars
<1>3. CASE Restarts
  BY <1>3, ClientConfig, ViewKinds DEF Restarts, Service!Restart, Kinds, registryVars, callVars, runVars
<1>4. CASE AllOver \/ UNCHANGED vars
  BY <1>4 DEF AllOver, vars, registryVars, callVars, runVars, Kinds
<1>5. ASSUME NEW c \in Callers, \/ \E tag \in Tags : Run(c, tag)
                                \/ RunStep(c) \/ GivesUp(c) \/ Deadline(c) \/ Network(c)
      PROVE  Kinds'
  BY <1>5, RunKinds, StepKinds, CallerKinds, NetworkKinds
<1> QED
  BY <1>1, <1>2, <1>3, <1>4, <1>5 DEF Next

-----------------------------------------------------------------------------
(* Hosts *)

LEMMA HostsKept ==
  ASSUME Kinds, OneHostPerTag, [Next]_vars
  PROVE  OneHostPerTag'
<1>1. ASSUME NEW h \in Hosts, Discover(h) PROVE OneHostPerTag'
  <2> DEFINE claimed == {t \in Serves[h] : endpoints[t] \notin {NoHost, h}}
  <2>1. PICK taken \in SUBSET (Serves[h] \ claimed) :
          /\ claimed = {} => taken = Serves[h]
          /\ endpoints' = [t \in Tags |-> IF t \in taken THEN h ELSE endpoints[t]]
    BY <1>1 DEF Discover
  <2>2. asked' = IF claimed = {} THEN asked \cup {h} ELSE asked
    BY <1>1 DEF Discover
  <2>3. \A g \in Hosts : Serves[g] \subseteq Tags
    BY ClientConfig
  <2>4. ASSUME NEW g \in asked, NEW t \in Serves[g] PROVE endpoints'[t] = g
    <3>1. g \in Hosts /\ t \in Tags /\ endpoints[t] = g /\ g # NoHost
      BY <2>3, <2>4, ClientConfig DEF Kinds, OneHostPerTag
    <3>2. t \in taken => g = h
      BY <2>1, <3>1
    <3> QED
      BY <2>1, <3>1, <3>2
  <2>5. ASSUME claimed = {}, NEW t \in Serves[h] PROVE endpoints'[t] = h
    BY <2>1, <2>3, <2>5
  <2> QED
    BY <2>2, <2>4, <2>5 DEF OneHostPerTag
<1>2. ASSUME NEW c \in Callers, \/ \E tag \in Tags : Run(c, tag)
                                \/ RunStep(c) \/ GivesUp(c) \/ Deadline(c) \/ Network(c)
      PROVE  UNCHANGED registryVars
  BY <1>2 DEF Run, RunStep, Submitted, Looks, Polled, CleanedUp, GivesUp, Deadline, Network, Takes,
              Says, Cancels, Vanishes, Fails, DeleteLost
<1>3. ASSUME NEW j \in Ids, Moves(j) PROVE UNCHANGED registryVars
  BY <1>3 DEF Moves
<1>4. CASE Restarts \/ AllOver \/ UNCHANGED vars
  BY <1>4 DEF Restarts, AllOver, vars, registryVars, OneHostPerTag
<1>5. ASSUME UNCHANGED registryVars PROVE OneHostPerTag'
  BY <1>5 DEF registryVars, OneHostPerTag
<1> QED
  BY <1>1, <1>2, <1>3, <1>4, <1>5 DEF Next

-----------------------------------------------------------------------------
(* Jobs *)

\* What has become of a job is not undone.
MovesOn(j) ==
    /\ view[j] # "new" => view'[j] # "new"
    /\ view[j] = "gone" => view'[j] = "gone"
    /\ view[j] \notin Service!Live \cup {"new"} => view'[j] \notin Service!Live

LEMMA JobsMoveOn ==
  ASSUME Kinds, \A c \in Callers : Own(c), [Next]_vars, NEW j \in Ids
  PROVE  MovesOn(j)
<1>1. ASSUME NEW i \in Ids, Moves(i) PROVE MovesOn(j)
  BY <1>1 DEF Moves, MovesOn, Kinds, Service!Progresses, Service!Forgotten, Service!Live, Service!Ended
<1>2. ASSUME NEW c \in Callers, Takes(c) PROVE MovesOn(j)
  <2>1. view' = view \/ \E i \in Fresh(KeyGiven[c]) : view' = [view EXCEPT ![i] = "queued"]
    BY <1>2 DEF Takes
  <2> QED
    BY <2>1, FreshIsNew DEF MovesOn, Kinds
<1>3. ASSUME NEW c \in Callers, Cancels(c) PROVE MovesOn(j)
  <2>1. job[c] \in Ids /\ view[job[c]] # "new"
    BY <1>3 DEF Cancels, Own
  <2>2. \/ view' = view
        \/ /\ view[job[c]] \in Service!Live \cup {"done", "failed"}
           /\ view' = [view EXCEPT ![job[c]] = "cancelled"]
    BY <1>3, <2>1 DEF Cancels, Service!Deleted, Kinds
  <2> QED
    BY <2>1, <2>2 DEF MovesOn, Kinds, Service!Live
<1>4. CASE Restarts
  BY <1>4 DEF Restarts, Service!Restart, MovesOn, Service!Live
<1>5. ASSUME NEW c \in Callers, \/ \E tag \in Tags : Run(c, tag)
                                \/ RunStep(c) \/ GivesUp(c) \/ Deadline(c) \/ Says(c)
                                \/ Vanishes(c) \/ Fails(c) \/ DeleteLost(c)
      PROVE  view' = view
  BY <1>5 DEF Run, RunStep, Submitted, Looks, Polled, CleanedUp, GivesUp, Deadline, Says, Vanishes,
              Fails, DeleteLost
<1>6. ASSUME NEW h \in Hosts, Discover(h) PROVE view' = view
  BY <1>6 DEF Discover
<1>7. CASE AllOver \/ UNCHANGED vars
  BY <1>7 DEF AllOver, vars, MovesOn
<1>8. ASSUME view' = view PROVE MovesOn(j)
  BY <1>8 DEF MovesOn
<1> QED
  BY <1>1, <1>2, <1>3, <1>4, <1>5, <1>6, <1>7, <1>8 DEF Next, Network

\* A run none of whose variables a step touches.
Untouched(c) ==
    /\ place'[c] = place[c] /\ post'[c] = post[c] /\ reply'[c] = reply[c]
    /\ attempt'[c] = attempt[c] /\ job'[c] = job[c] /\ why'[c] = why[c]
    /\ delete'[c] = delete[c] /\ outcome'[c] = outcome[c]

LEMMA UntouchedOwn ==
  ASSUME Kinds, NEW c \in Callers, Own(c), Untouched(c), \A j \in Ids : MovesOn(j)
  PROVE  Own(c)'
<1>1. job[c] \in Ids => MovesOn(job[c])
  OBVIOUS
<1>2. reply[c].id \in Ids => MovesOn(reply[c].id)
  OBVIOUS
<1>3. delete[c] = "done" => job[c] \in Ids /\ view[job[c]] # "new" /\ view[job[c]] \notin Service!Live
  BY DEF Own
<1>4. place[c] = "polling" => job[c] \in Ids
  BY DEF Own
<1> QED
  BY <1>1, <1>2, <1>3, <1>4 DEF Own, Untouched, MovesOn

\* A step of one run, or for it, touches no other.
LEMMA OthersUntouched ==
  ASSUME Kinds, NEW c \in Callers, NEW d \in Callers, c # d,
         \/ \E tag \in Tags : Run(c, tag)
         \/ RunStep(c) \/ GivesUp(c) \/ Deadline(c) \/ Network(c)
  PROVE  Untouched(d)
<1>0. \A f \in {place, post, reply, attempt, job, why, delete, outcome} : DOMAIN f = Callers
  BY DEF Kinds
<1> USE <1>0 DEF Untouched, Ends, Sends, StartsCleanup, Answer, callVars, runVars
<1>1. ASSUME NEW tag \in Tags, Run(c, tag) PROVE Untouched(d)
  <2>1. CASE Resolve(tag) = NoHost
    BY <1>1, <2>1 DEF Run
  <2>2. CASE Resolve(tag) # NoHost
    BY <1>1, <2>2 DEF Run
  <2> QED
    BY <2>1, <2>2
<1>2. CASE Submitted(c)
  <2>1. CASE reply[c].id \in Ids
    BY <1>2, <2>1 DEF Submitted
  <2>2. CASE reply[c].id \notin Ids
    BY <1>2, <2>2 DEF Submitted
  <2> QED
    BY <2>1, <2>2
<1>3. CASE Looks(c)
  BY <1>3 DEF Looks
<1>4. CASE Polled(c)
  <2>1. CASE reply[c].says # "not found"
    BY <1>4, <2>1 DEF Polled
  <2>2. CASE reply[c].says = "not found" /\ MayResubmit(c)
    BY <1>4, <2>2 DEF Polled
  <2>3. CASE reply[c].says = "not found" /\ ~MayResubmit(c)
    BY <1>4, <2>3 DEF Polled
  <2> QED
    BY <2>1, <2>2, <2>3
<1>5. CASE CleanedUp(c)
  BY <1>5 DEF CleanedUp
<1>6. CASE GivesUp(c)
  <2>1. CASE place[c] = "submitting"
    BY <1>6, <2>1 DEF GivesUp
  <2>2. CASE place[c] = "polling"
    BY <1>6, <2>2 DEF GivesUp
  <2>3. CASE place[c] = "cleaning"
    BY <1>6, <2>3 DEF GivesUp
  <2> QED
    BY <1>6, <2>1, <2>2, <2>3 DEF GivesUp
<1>7. CASE Deadline(c)
  BY <1>7 DEF Deadline
<1>8. CASE Takes(c)
  BY <1>8 DEF Takes
<1>9. CASE Says(c) \/ Cancels(c)
  BY <1>9 DEF Says, Cancels
<1>10. CASE Vanishes(c) \/ Fails(c) \/ DeleteLost(c)
  BY <1>10 DEF Vanishes, Fails, DeleteLost
<1> QED
  BY <1>1, <1>2, <1>3, <1>4, <1>5, <1>6, <1>7, <1>8, <1>9, <1>10 DEF RunStep, Network

LEMMA SubmitOwn ==
  ASSUME Kinds, NEW c \in Callers, Own(c), \A j \in Ids : MovesOn(j),
         (\E tag \in Tags : Run(c, tag)) \/ Submitted(c)
  PROVE  Own(c)'
<1>0. NoJob \notin Ids /\ MaxAttempts \in Nat /\ NoReply.id = NoJob
  BY ClientConfig DEF NoReply
<1>1. ASSUME NEW tag \in Tags, Run(c, tag) PROVE Own(c)'
  <2>1. /\ place[c] = "idle" /\ job[c] = NoJob /\ delete[c] = Nothing /\ reply[c] = NoReply
        /\ UNCHANGED <<reply, job, why, delete>>
    BY <1>1 DEF Run, Own
  <2>2. job'[c] = NoJob /\ delete'[c] = Nothing /\ reply'[c] = NoReply /\ outcome[c] = Nothing
    BY <2>1 DEF Own
  <2>3. CASE Resolve(tag) = NoHost
    <3>1. place'[c] = "over" /\ post'[c] = post[c] /\ outcome'[c] = "not routed"
      BY <1>1, <2>3 DEF Run, Ends, Kinds
    <3> QED
      BY <1>0, <2>2, <3>1 DEF Own, Given
  <2>4. CASE Resolve(tag) # NoHost
    <3>1. place'[c] = "submitting" /\ outcome'[c] = outcome[c]
      BY <1>1, <2>4 DEF Run, Sends, Kinds
    <3> QED
      BY <1>0, <2>2, <3>1 DEF Own, Given
  <2> QED
    BY <2>3, <2>4
<1>2. CASE Submitted(c)
  <2>1. /\ place[c] = "submitting" /\ reply[c] # NoReply /\ reply'[c] = NoReply /\ post'[c] = Nothing
        /\ delete[c] = Nothing /\ UNCHANGED <<view, post, attempt, why, delete>>
    BY <1>2 DEF Submitted, Own, Kinds
  <2>2. CASE reply[c].id \in Ids
    <3>1. place'[c] = "looking" /\ job'[c] = reply[c].id /\ outcome'[c] = outcome[c]
      BY <1>2, <2>2 DEF Submitted, Kinds
    <3>2. view[reply[c].id] # "new"
      BY <1>0, <2>1, <2>2 DEF Own
    <3> QED
      BY <2>1, <2>2, <3>1, <3>2 DEF Own, Given
  <2>3. CASE reply[c].id \notin Ids
    <3>1. place'[c] = "over" /\ job' = job /\ outcome'[c] = reply[c].says
      BY <1>2, <2>3 DEF Submitted, Ends, Kinds
    <3>2. reply[c].says \notin Given
      BY <2>1, <2>3 DEF Own, Given
    <3> QED
      BY <2>1, <3>1, <3>2 DEF Own, Given
  <2> QED
    BY <2>2, <2>3
<1> QED
  BY <1>1, <1>2

LEMMA LookOwn ==
  ASSUME Kinds, NEW c \in Callers, Own(c), Looks(c) \/ CleanedUp(c) \/ Deadline(c)
  PROVE  Own(c)'
<1>1. CASE Looks(c)
  <2>1. /\ place[c] = "looking" /\ job[c] \in Ids /\ reply[c] = NoReply /\ delete[c] = Nothing
        /\ post[c] # "flying" /\ outcome[c] = Nothing
        /\ UNCHANGED <<view, post, reply, attempt, job>>
    BY <1>1 DEF Looks, Own
  <2>2. CASE document[c] \in Service!Ended
    <3>1. /\ place'[c] = "over" /\ outcome'[c] \in {"done", "failed", "cancelled"}
          /\ UNCHANGED <<why, delete>>
      BY <1>1, <2>2 DEF Looks, Ends, Kinds, Service!Ended
    <3> QED
      BY <2>1, <3>1 DEF Own, Given
  <2>3. CASE document[c] \notin Service!Ended /\ c \in late
    <3>1. /\ place'[c] = "cleaning" /\ why'[c] = "timeout" /\ delete'[c] = "flying"
          /\ UNCHANGED outcome
      BY <1>1, <2>3 DEF Looks, StartsCleanup, Kinds
    <3> QED
      BY <2>1, <3>1 DEF Own, Given
  <2>4. CASE document[c] \notin Service!Ended /\ c \notin late
    <3>1. place'[c] = "polling" /\ UNCHANGED <<why, delete, outcome>>
      BY <1>1, <2>4 DEF Looks, Kinds
    <3> QED
      BY <2>1, <3>1 DEF Own, Given
  <2> QED
    BY <2>2, <2>3, <2>4
<1>2. CASE CleanedUp(c)
  BY <1>2 DEF CleanedUp, Ends, Own, Kinds, callVars
<1>3. CASE Deadline(c)
  BY <1>3 DEF Deadline, Own, callVars
<1> QED
  BY <1>1, <1>2, <1>3

LEMMA PolledOwn ==
  ASSUME Kinds, NEW c \in Callers, Own(c), Polled(c)
  PROVE  Own(c)'
<1>1. /\ place[c] = "polling" /\ job[c] \in Ids /\ reply[c] # NoReply /\ reply'[c] = NoReply
      /\ delete[c] = Nothing /\ outcome[c] = Nothing /\ post[c] = Nothing
      /\ UNCHANGED <<view, job, why, delete>>
  BY DEF Polled, Own, Kinds
<1>2. CASE reply[c].says # "not found"
  BY <1>1, <1>2 DEF Polled, Own, Kinds, Given
<1>3. CASE reply[c].says = "not found" /\ MayResubmit(c)
  <2>1. view[job[c]] = "gone"
    BY <1>1, <1>3 DEF Own, Statuses, Service!Live, Service!Ended
  <2>2. place'[c] = "submitting" /\ outcome' = outcome
    BY <1>3 DEF Polled, Sends, Kinds
  <2> QED
    BY <1>1, <2>1, <2>2 DEF Own, Given
<1>4. CASE reply[c].says = "not found" /\ ~MayResubmit(c)
  <2>1. place'[c] = "over" /\ outcome'[c] = "lost" /\ post' = post
    BY <1>4 DEF Polled, Ends, Kinds
  <2> QED
    BY <1>1, <2>1 DEF Own, Given
<1> QED
  BY <1>2, <1>3, <1>4

LEMMA GivesUpOwn ==
  ASSUME Kinds, NEW c \in Callers, Own(c), GivesUp(c)
  PROVE  Own(c)'
<1>1. reply'[c] = NoReply /\ UNCHANGED <<view, post, attempt, job>>
  BY DEF GivesUp, Kinds
<1>2. CASE place[c] = "submitting"
  BY <1>1, <1>2 DEF GivesUp, Ends, Own, Kinds, Given
<1>3. CASE place[c] = "polling"
  <2>1. /\ place'[c] = "cleaning" /\ why'[c] \in Given /\ delete'[c] = "flying"
        /\ outcome' = outcome
    BY <1>3 DEF GivesUp, StartsCleanup, Kinds, Given
  <2>2. /\ job[c] \in Ids /\ view[job[c]] # "new"
        /\ post[c] # "flying" /\ outcome[c] = Nothing
    BY <1>3 DEF Own
  <2> QED
    BY <1>1, <2>1, <2>2 DEF Own, Given
<1>4. CASE place[c] = "cleaning"
  <2>1. place'[c] = "over" /\ outcome'[c] = why[c] /\ UNCHANGED <<why, delete>>
    BY <1>4 DEF GivesUp, Ends, Kinds
  <2>2. /\ job[c] \in Ids /\ view[job[c]] # "new" /\ delete[c] # Nothing
        /\ post[c] # "flying"
    BY <1>4 DEF Own
  <2> QED
    BY <1>1, <2>1, <2>2 DEF Own
<1> QED
  BY <1>2, <1>3, <1>4 DEF GivesUp

LEMMA NetworkOwn ==
  ASSUME Kinds, NEW c \in Callers, Own(c), \A j \in Ids : MovesOn(j), Network(c)
  PROVE  Own(c)'
<1>0. NoJob \notin Ids
  BY ClientConfig
<1>m. /\ job[c] \in Ids => MovesOn(job[c])
      /\ delete[c] = "done" => view[job[c]] # "new"
  BY DEF Own
<1>1. CASE Takes(c)
  <2>1. /\ post[c] = "flying" /\ post'[c] = Nothing /\ reply[c] = NoReply
        /\ UNCHANGED <<place, attempt, job, why, delete, outcome>>
    BY <1>1 DEF Takes, Own, Kinds, runVars
  <2>2. CASE place[c] # "submitting"
    <3>1. reply'[c] = reply[c]
      BY <1>1, <2>2 DEF Takes, Answer
    <3> QED
      BY <1>m, <2>1, <2>2, <3>1 DEF Own, MovesOn
  <2>3. CASE place[c] = "submitting"
    <3>1. \/ reply'[c].id = NoJob /\ reply'[c].says \in {"done", "transport error"}
          \/ reply'[c].id \in Ids /\ reply'[c].says \in Statuses /\ view'[reply'[c].id] # "new"
      <4>1. ASSUME NEW says \in {"done", "transport error"}, Answer(c, "submitting", NoJob, says)
            PROVE  reply'[c].id = NoJob /\ reply'[c].says \in {"done", "transport error"}
        BY <2>3, <4>1 DEF Answer, Kinds
      <4>2. ASSUME NEW j \in Service!Holding(KeyGiven[c]), Answer(c, "submitting", j, view[j])
            PROVE  reply'[c].id \in Ids /\ reply'[c].says \in Statuses /\ view'[reply'[c].id] # "new"
        <5>1. j \in Ids /\ view[j] \in Statuses /\ view[j] # "new"
          BY ViewKinds DEF Service!Holding, Service!Live, Service!Ended
        <5>2. reply'[c] = [id |-> j, says |-> view[j]]
          BY <2>3, <4>2 DEF Answer, Kinds
        <5> QED
          BY <5>1, <5>2 DEF MovesOn
      <4>3. ASSUME NEW j \in Fresh(KeyGiven[c]), Answer(c, "submitting", j, "queued"),
                   view' = [view EXCEPT ![j] = "queued"]
            PROVE  reply'[c].id \in Ids /\ reply'[c].says \in Statuses /\ view'[reply'[c].id] # "new"
        <5>1. reply'[c] = [id |-> j, says |-> "queued"] /\ j \in Ids
          BY <2>3, <4>3, FreshIsNew DEF Answer, Kinds
        <5> QED
          BY <4>3, <5>1, ViewKinds DEF Kinds
      <4> QED
        BY <1>1, <4>1, <4>2, <4>3 DEF Takes
    <3> QED
      BY <1>m, <2>1, <2>3, <3>1 DEF Own, MovesOn
  <2> QED
    BY <2>2, <2>3
<1>2. CASE Says(c)
  <2>1. /\ place[c] = "polling" /\ job[c] \in Ids /\ view[job[c]] # "new" /\ post[c] = Nothing
        /\ reply'[c].says = IF view[job[c]] = "gone" THEN "not found" ELSE view[job[c]]
        /\ UNCHANGED <<view, post, delete, place, attempt, job, why, outcome>>
    BY <1>2 DEF Says, Answer, Own, Kinds, runVars
  <2>2. view[job[c]] \in Statuses \cup {"gone"}
    BY <2>1, ViewKinds DEF Kinds
  <2> QED
    BY <2>1, <2>2 DEF Own
<1>3. CASE Cancels(c)
  <2>1. /\ delete[c] = "flying" /\ delete'[c] = "done" /\ job[c] \in Ids /\ view[job[c]] # "new"
        /\ place[c] \in {"cleaning", "over"} /\ reply[c] = NoReply
        /\ UNCHANGED <<post, reply, place, attempt, job, why, outcome>>
    BY <1>3 DEF Cancels, Own, Kinds, runVars
  <2>2. view'[job[c]] \notin Service!Live
    BY <1>3, <2>1 DEF Cancels, Service!Deleted, Service!Live, Kinds
  <2> QED
    BY <1>m, <2>1, <2>2 DEF Own, MovesOn
<1>4. CASE Vanishes(c)
  <2>1. /\ post[c] = "flying" /\ post'[c] = Nothing /\ reply[c] = NoReply
        /\ UNCHANGED <<view, place, attempt, job, why, delete, outcome>>
    BY <1>4 DEF Vanishes, Own, Kinds, runVars
  <2>2. CASE place[c] # "submitting"
    BY <1>4, <2>1, <2>2 DEF Vanishes, Answer, Own
  <2>3. CASE place[c] = "submitting"
    <3>1. reply'[c].id = NoJob /\ reply'[c].says = "transport error"
      BY <1>4, <2>3 DEF Vanishes, Answer, Kinds
    <3> QED
      BY <2>1, <2>3, <3>1 DEF Own
  <2> QED
    BY <2>2, <2>3
<1>5. CASE Fails(c)
  BY <1>5 DEF Fails, Ends, Own, Kinds, Given
<1>6. CASE DeleteLost(c)
  BY <1>6 DEF DeleteLost, Own, Kinds, runVars
<1> QED
  BY <1>1, <1>2, <1>3, <1>4, <1>5, <1>6 DEF Network

LEMMA OwnKept ==
  ASSUME Kinds, \A c \in Callers : Own(c), [Next]_vars, NEW d \in Callers
  PROVE  Own(d)'
<1>1. \A j \in Ids : MovesOn(j)
  BY JobsMoveOn
<1>2. ASSUME NEW c \in Callers, \/ \E tag \in Tags : Run(c, tag)
                                \/ RunStep(c) \/ GivesUp(c) \/ Deadline(c) \/ Network(c)
      PROVE  Own(d)'
  <2>1. CASE c = d
    BY <1>1, <1>2, <2>1, SubmitOwn, LookOwn, PolledOwn, GivesUpOwn, NetworkOwn DEF RunStep
  <2>2. CASE c # d
    BY <1>1, <1>2, <2>2, OthersUntouched, UntouchedOwn
  <2> QED
    BY <2>1, <2>2
<1>3. ASSUME UNCHANGED <<callVars, runVars>> PROVE Own(d)'
  BY <1>1, <1>3, UntouchedOwn DEF Untouched, callVars, runVars
<1>4. ASSUME NEW h \in Hosts, Discover(h) PROVE UNCHANGED <<callVars, runVars>>
  BY <1>4 DEF Discover
<1>5. ASSUME NEW j \in Ids, Moves(j) PROVE UNCHANGED <<callVars, runVars>>
  BY <1>5 DEF Moves
<1>6. CASE Restarts \/ AllOver \/ UNCHANGED vars
  <2>1. UNCHANGED <<callVars, runVars>>
    BY <1>6 DEF Restarts, AllOver, vars
  <2> QED
    BY <1>3, <2>1
<1> QED
  BY <1>2, <1>3, <1>4, <1>5, <1>6 DEF Next

-----------------------------------------------------------------------------
(* Submissions *)

LEMMA MadeFinite ==
  ASSUME NEW c
  PROVE  IsFiniteSet(Made(c)) /\ Cardinality(Made(c)) \in Nat
<1>1. Made(c) \in SUBSET Ids
  BY DEF Made
<1> QED
  BY <1>1, ClientConfig, FS_Subset, FS_CardinalityType

LEMMA OneMoreMade ==
  ASSUME Kinds, NEW c \in Callers, NEW d \in Callers, NEW j \in Ids,
         maker' = [maker EXCEPT ![j] = c]
  PROVE  /\ Cardinality(Made(d)') <= Cardinality(Made(d)) + 1
         /\ d # c => Cardinality(Made(d)') <= Cardinality(Made(d))
<1> DEFINE old == Made(d)
           new == {i \in Ids : [maker EXCEPT ![j] = c][i] = d}
<1>1. Made(d)' = new
  BY DEF Made
<1>2. new \in SUBSET (old \cup {j}) /\ (d # c => new \in SUBSET old)
  BY DEF Made, Kinds
<1>3. IsFiniteSet(old) /\ Cardinality(old) \in Nat
  BY MadeFinite
<1> HIDE DEF old, new
<1>4. /\ IsFiniteSet(old \cup {j})
      /\ Cardinality(old \cup {j}) = IF j \in old THEN Cardinality(old) ELSE Cardinality(old) + 1
  BY <1>3, FS_AddElement, Zenon
<1>5. Cardinality(new) <= Cardinality(old \cup {j}) /\ IsFiniteSet(new)
  BY <1>2, <1>4, FS_Subset
<1>6. d # c => Cardinality(new) <= Cardinality(old)
  BY <1>2, <1>3, FS_Subset
<1>7. Cardinality(new) \in Nat
  BY <1>5, FS_CardinalityType
<1>8. Cardinality(new) <= Cardinality(old) + 1
  BY <1>3, <1>4, <1>5, <1>7
<1> QED
  BY <1>1, <1>6, <1>8 DEF old

LEMMA CountsKept ==
  ASSUME Kinds, \A c \in Callers : Own(c) /\ Counts(c), [Next]_vars, NEW d \in Callers
  PROVE  Counts(d)'
<1> DEFINE m == Cardinality(Made(d))
<1>1. m \in Nat /\ attempt[d] \in Nat /\ MaxAttempts \in Nat \ {0} /\ Allowed(d) \in Nat \ {0}
  BY MadeFinite, ClientConfig DEF Kinds, Allowed
<1>2. Counts(d) /\ Allowed(d)' = Allowed(d)
  BY DEF Allowed
<1>3. ASSUME maker' = maker, attempt'[d] = attempt[d], post'[d] = "flying" => post[d] = "flying"
      PROVE  Counts(d)'
  <2>1. Made(d)' = Made(d)
    BY <1>3 DEF Made
  <2> QED
    BY <1>2, <1>3, <2>1 DEF Counts
<1>4. ASSUME NEW c \in Callers, NEW tag \in Tags, Run(c, tag) PROVE Counts(d)'
  <2>1. maker' = maker /\ Made(d)' = Made(d)
    BY <1>4 DEF Run, Made
  <2>2. CASE c = d /\ Resolve(tag) # NoHost
    <3>1. attempt[d] = 0 /\ attempt'[d] = 1
      <4>1. place[c] = "idle" /\ Sends(c, Resolve(tag))
        BY <1>4, <2>2 DEF Run
      <4>2. attempt[d] = 0
        BY <2>2, <4>1 DEF Own
      <4>3. attempt' = [attempt EXCEPT ![d] = 0 + 1] /\ DOMAIN attempt = Callers
        BY <2>2, <4>1, <4>2 DEF Sends, Kinds
      <4> QED
        BY <4>2, <4>3
    <3>2. m = 0
      BY <1>1, <1>2, <3>1 DEF Counts
    <3>3. 1 <= Allowed(d)' /\ Cardinality(Made(d))' = 0
      BY <1>1, <1>2, <2>1, <3>2
    <3> QED
      BY <3>1, <3>3 DEF Counts
  <2>3. CASE c = d /\ Resolve(tag) = NoHost
    BY <1>3, <1>4, <2>1, <2>3 DEF Run
  <2>4. CASE c # d
    BY <1>3, <1>4, <2>1, <2>4, OthersUntouched DEF Untouched
  <2> QED
    BY <2>2, <2>3, <2>4
<1>5. ASSUME NEW c \in Callers, Polled(c) PROVE Counts(d)'
  <2>1. maker' = maker /\ Made(d)' = Made(d)
    BY <1>5 DEF Polled, Made
  <2>2. CASE c = d /\ reply[c].says = "not found" /\ MayResubmit(c)
    <3>1. attempt'[d] = attempt[d] + 1
      BY <1>5, <2>2 DEF Polled, Sends, Kinds
    <3>2. attempt[d] < MaxAttempts /\ Allowed(d) = MaxAttempts
      BY <2>2 DEF MayResubmit, Allowed
    <3> QED
      BY <1>1, <1>2, <2>1, <3>1, <3>2 DEF Counts
  <2>3. CASE c = d /\ ~(reply[c].says = "not found" /\ MayResubmit(c))
    BY <1>3, <1>5, <2>1, <2>3 DEF Polled
  <2>4. CASE c # d
    BY <1>3, <1>5, <2>1, <2>4, OthersUntouched DEF Untouched, RunStep
  <2> QED
    BY <2>2, <2>3, <2>4
<1>6. ASSUME NEW c \in Callers, Takes(c) PROVE Counts(d)'
  <2>1. attempt' = attempt /\ post[c] = "flying" /\ post' = [post EXCEPT ![c] = Nothing]
    BY <1>6 DEF Takes, runVars
  <2>2. post'[d] = IF c = d THEN Nothing ELSE post[d]
    BY <2>1 DEF Kinds
  <2>3. CASE maker' = maker
    BY <1>3, <2>1, <2>2, <2>3
  <2>4. ASSUME NEW j \in Ids, maker' = [maker EXCEPT ![j] = c] PROVE Counts(d)'
    <3> DEFINE n == Cardinality(Made(d)')
    <3>1. n <= m + 1 /\ (d # c => n <= m)
      BY <2>4, OneMoreMade
    <3>2. n \in Nat
      <4>1. Made(d)' \in SUBSET Ids
        BY DEF Made
      <4> QED
        BY <4>1, ClientConfig, FS_Subset, FS_CardinalityType
    <3>3. c = d => m < attempt[d]
      BY <1>2, <2>1 DEF Counts
    <3>4. m <= attempt[d] /\ attempt[d] <= Allowed(d) /\ (post[d] = "flying" => m < attempt[d])
      BY <1>2 DEF Counts
    <3>5. Cardinality(Made(d))' = n
      OBVIOUS
    <3> HIDE DEF m, n
    <3>6. n <= attempt[d] /\ (d # c /\ post[d] = "flying" => n < attempt[d])
      BY <1>1, <3>1, <3>2, <3>3, <3>4
    <3> QED
      BY <1>2, <2>1, <2>2, <3>4, <3>5, <3>6 DEF Counts
  <2>5. maker' = maker \/ \E j \in Ids : maker' = [maker EXCEPT ![j] = c]
    BY <1>6, FreshIsNew DEF Takes
  <2> QED
    BY <2>3, <2>4, <2>5
<1>7. ASSUME NEW c \in Callers, Submitted(c) \/ Looks(c) \/ CleanedUp(c) \/ GivesUp(c) \/ Deadline(c)
                              \/ Says(c) \/ Cancels(c) \/ Fails(c) \/ DeleteLost(c)
      PROVE  UNCHANGED <<maker, attempt, post>>
  BY <1>7 DEF Submitted, Looks, CleanedUp, GivesUp, Deadline, Says, Cancels, Fails, DeleteLost,
              callVars, runVars
<1>8. ASSUME NEW c \in Callers, Vanishes(c) PROVE Counts(d)'
  <2>1. maker' = maker /\ attempt' = attempt /\ (post'[d] = "flying" => post[d] = "flying")
    BY <1>8 DEF Vanishes, runVars, Kinds
  <2> QED
    BY <1>3, <2>1
<1>9. ASSUME NEW h \in Hosts, Discover(h) PROVE UNCHANGED <<maker, attempt, post>>
  BY <1>9 DEF Discover, callVars, runVars
<1>10. ASSUME NEW j \in Ids, Moves(j) PROVE UNCHANGED <<maker, attempt, post>>
  BY <1>10 DEF Moves, callVars, runVars
<1>11. CASE Restarts \/ AllOver \/ UNCHANGED vars
  <2>1. UNCHANGED <<maker, attempt, post>>
    BY <1>11 DEF Restarts, AllOver, vars, callVars, runVars
  <2> QED
    BY <1>3, <2>1
<1> QED
  BY <1>3, <1>4, <1>5, <1>6, <1>7, <1>8, <1>9, <1>10, <1>11 DEF Next, RunStep, Network

-----------------------------------------------------------------------------
(* The theorems *)

LEMMA CInvInit == Init => CInv
<1> SUFFICES ASSUME Init PROVE CInv
  OBVIOUS
<1>1. Kinds
  <2>1. /\ view \in [Ids -> Service!Views] /\ maker \in [Ids -> Callers \cup {Nothing}]
        /\ endpoints \in [Tags -> Hosts \cup {NoHost}] /\ asked \subseteq Hosts
    BY DEF Init, Service!Init, Service!Views
  <2>2. reply \in [Callers -> Replies]
    BY RepliesHold DEF Init
  <2>3. attempt \in [Callers -> 0..MaxAttempts] /\ restarts \in 0..MaxRestarts
    BY ClientConfig DEF Init
  <2>4. /\ place \in [Callers -> Places] /\ host \in [Callers -> Hosts \cup {NoHost}]
        /\ post \in [Callers -> {Nothing, "flying"}] /\ job \in [Callers -> Ids \cup {NoJob}]
        /\ document \in [Callers -> Statuses \cup {Nothing}] /\ late \subseteq Timed
        /\ why \in [Callers -> Given \cup {Nothing}]
        /\ delete \in [Callers -> {Nothing, "flying", "done", "lost"}]
        /\ outcome \in [Callers -> Results \cup {Nothing}]
    BY DEF Init, Places
  <2> QED
    BY <2>1, <2>2, <2>3, <2>4 DEF Kinds
<1>2. OneHostPerTag
  BY DEF Init, OneHostPerTag
<1>3. ASSUME NEW c \in Callers PROVE Own(c)
  <2>1. /\ place[c] = "idle" /\ job[c] = NoJob /\ attempt[c] = 0 /\ post[c] = Nothing
        /\ reply[c] = NoReply /\ delete[c] = Nothing /\ outcome[c] = Nothing
    BY DEF Init
  <2>2. job[c] \notin Ids /\ outcome[c] \notin Given
    BY <2>1, ClientConfig DEF Given
  <2> QED
    BY <2>1, <2>2 DEF Own
<1>4. ASSUME NEW c \in Callers PROVE Counts(c)
  <2>1. Made(c) = {}
    <3>1. \A j \in Ids : maker[j] # c
      BY ClientConfig DEF Init
    <3> QED
      BY <3>1 DEF Made
  <2>2. Cardinality(Made(c)) = 0
    BY <2>1, FS_EmptySet
  <2>3. attempt[c] = 0 /\ post[c] = Nothing
    BY DEF Init
  <2>4. Allowed(c) \in Nat
    BY ClientConfig DEF Allowed
  <2> QED
    BY <2>2, <2>3, <2>4 DEF Counts
<1> QED
  BY <1>1, <1>2, <1>3, <1>4 DEF CInv

\* The inductive invariant of the client.
THEOREM ClientInvariant == Spec => []CInv
<1>1. CInv /\ [Next]_vars => CInv'
  BY KindsKept, HostsKept, OwnKept, CountsKept DEF CInv
<1> QED
  BY <1>1, CInvInit, PTL DEF Spec

\* Every run is where its calls put it, and every tag where its host was listed, whatever
\* the order in which hosts are asked.
THEOREM RunsTheorem == Spec => []RunsAreSound
<1>1. CInv => RunsAreSound
  <2> SUFFICES ASSUME CInv PROVE TypeOK
    BY DEF CInv, RunsAreSound
  <2>1. ASSUME NEW c \in Callers
        PROVE  /\ job[c] \in Ids \cup {NoJob} /\ host[c] \in Hosts \cup {NoHost}
               /\ document[c] \in Statuses \cup {Nothing}
               /\ why[c] \in Results \cup {Nothing} /\ outcome[c] \in Results \cup {Nothing}
    BY DEF CInv, Kinds, Given, Results
  <2>2. ASSUME NEW c \in Callers
        PROVE  /\ place[c] \in {"looking", "polling", "cleaning"} => job[c] \in Ids
               /\ reply[c] # NoReply => place[c] \in {"submitting", "polling"} /\ post[c] = Nothing
               /\ delete[c] # Nothing => place[c] \in {"cleaning", "over"}
    BY DEF CInv, Own
  <2> QED
    BY <2>1, <2>2 DEF CInv, Kinds, Places, TypeOK
<1> QED
  BY <1>1, ClientInvariant, PTL

\* "A vanished job is not silently retried": a run makes one job, or as many as its
\* attempts if it asked for them under a key.
THEOREM ReplayTheorem == Spec => []NothingIsReplayedUnasked
<1>1. CInv => NothingIsReplayedUnasked
  <2> SUFFICES ASSUME CInv, NEW c \in Callers PROVE Cardinality(Made(c)) <= Allowed(c)
    BY DEF NothingIsReplayedUnasked, Allowed
  <2>1. Cardinality(Made(c)) \in Nat /\ attempt[c] \in Nat /\ Allowed(c) \in Nat
    BY MadeFinite, ClientConfig DEF CInv, Kinds, Allowed
  <2> QED
    BY <2>1 DEF CInv, Counts
<1> QED
  BY <1>1, ClientInvariant, PTL

\* "Cancellation reaches the GPU": a run that was given up on leaves no live job behind that
\* it was told of, once its DELETE has arrived.
THEOREM GivenUpTheorem == Spec => []GivenUpIsCancelled
<1>1. CInv => GivenUpIsCancelled
  <2> SUFFICES ASSUME CInv, NEW c \in Callers, outcome[c] \in Given, job[c] # NoJob,
                      delete[c] \notin {"flying", "lost"}
               PROVE  view[job[c]] \notin Service!Live
    BY DEF GivenUpIsCancelled, Given
  <2>1. Own(c) /\ job[c] \in Ids /\ delete[c] \in {Nothing, "done"}
    BY DEF CInv, Kinds
  <2> QED
    BY <2>1 DEF Own, Service!Live
<1> QED
  BY <1>1, ClientInvariant, PTL
=============================================================================
