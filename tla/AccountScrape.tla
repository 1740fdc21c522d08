--------------------------- MODULE AccountScrape ----------------------------
(***************************************************************************)
(* One run of the AccountScrape workflow: an activity per target, retried  *)
(* by Temporal, and the results gathered in order.  An attempt that        *)
(* Temporal has given up on may still be executing on its worker, and a    *)
(* bulk request whose answer is lost may still be on its way when its      *)
(* attempt has failed, so several attempts of one target can be writing at *)
(* the same time.                                                          *)
(* An attempt is seen through ScrapeContract, which Scraper implements.    *)
(***************************************************************************)
EXTENDS Naturals, Sequences, FiniteSets, FiniteSetsExt

CONSTANTS N,                \* number of targets of the account
          Object,           \* objects an AWS account can hold, per target
          MaxAttempts,      \* bound: attempts of one activity (none in the code)
          MaxChanges,       \* bound: objects created or deleted in AWS
          MaxReplays,       \* bound: times a worker rebuilds the workflow
          MaxInFlight       \* bound: unanswered bulk requests at a time

ASSUME AccountScrapeAssumption ==
  /\ N \in Nat /\ MaxAttempts \in Nat \ {0} /\ MaxChanges \in Nat
  /\ MaxReplays \in Nat /\ MaxInFlight \in Nat
  /\ IsFiniteSet(Object)

Target == 1..N

VARIABLES
  wf,        \* the workflow function: status and local variables
  act,       \* Temporal's view of each activity
  bodies,    \* attempts executing on some worker
  inflight,  \* bulk requests that are under way though nobody waits for them
  index,     \* per target and object, the attempt that wrote its document
  estate,    \* the objects that exist in AWS
  timedOut,  \* history: attempts Temporal gave up on while they ran, per target
  denied,    \* history: attempts that returned a permission error, per target
  expired,   \* history: targets whose ScheduleToCloseTimeout has ended them
  changes, replays

activity == <<act, timedOut, denied, expired>>
store == <<index, inflight>>
bounded == <<changes, replays>>
vars == <<wf, activity, bodies, store, estate, bounded>>

Closed == {"completed", "failed"}

(* Local variables of AccountScrape before the first future is awaited.    *)
Fresh(status) == [status |-> status, results |-> <<>>, count |-> 0, failed |-> 0]

(* An activity of which no attempt has been answered.                      *)
Untried(st, attempt) == [st |-> st, attempt |-> attempt, listed |-> {}]

Init ==
  /\ wf = Fresh("new")
  /\ act = [i \in Target |-> Untried("none", 0)]
  /\ bodies = {} /\ inflight = {}
  /\ index = [i \in Target |-> [o \in Object |-> 0]]
  /\ estate \in [Target -> SUBSET Object]
  /\ timedOut = [i \in Target |-> {}] /\ denied = [i \in Target |-> {}]
  /\ expired = {}
  /\ changes = 0 /\ replays = 0

-----------------------------------------------------------------------------
(* The workflow function.                                                  *)

(* The first workflow task schedules every activity before it awaits one.  *)
Begin ==
  /\ wf.status = "new"
  /\ wf' = Fresh("running")
  /\ act' = [i \in Target |-> Untried("scheduled", 1)]
  /\ UNCHANGED <<bodies, store, estate, timedOut, denied, expired, bounded>>

Next_ == Len(wf.results) + 1

(* Mutant of Await: the error branch forgets to record the target.         *)
AwaitDropsFailures ==
  /\ wf.status = "running" /\ Next_ \in Target /\ act[Next_].st \in Closed
  /\ LET a  == act[Next_]
         ok == a.st = "completed"
         c  == IF ok THEN Cardinality(a.listed) ELSE 0
     IN wf' = [status |-> "running", count |-> wf.count + c,
               results |-> IF ok THEN Append(wf.results, [ok |-> ok, count |-> c]) ELSE wf.results,
               failed |-> IF ok THEN wf.failed ELSE wf.failed + 1]
  /\ UNCHANGED <<activity, bodies, store, estate, bounded>>

(* future.Get of the next target in order: an error is recorded against    *)
(* the target and the loop goes on.                                        *)
Await ==
  /\ wf.status = "running" /\ Next_ \in Target /\ act[Next_].st \in Closed
  /\ LET a  == act[Next_]
         ok == a.st = "completed"
         c  == IF ok THEN Cardinality(a.listed) ELSE 0
     IN wf' = [status |-> "running", count |-> wf.count + c,
               results |-> Append(wf.results, [ok |-> ok, count |-> c]),
               failed |-> IF ok THEN wf.failed ELSE wf.failed + 1]
  /\ UNCHANGED <<activity, bodies, store, estate, bounded>>

(* Mutant of Outcome: one failed target fails the workflow.                *)
AnyFailureFails == IF wf.failed > 0 THEN "failed" ELSE "completed"

(* Only a run of which every target failed is a failed workflow.           *)
Outcome == IF wf.failed > 0 /\ wf.failed = N THEN "failed" ELSE "completed"

Finish ==
  /\ wf.status = "running" /\ Len(wf.results) = N
  /\ wf' = [wf EXCEPT !.status = Outcome]
  /\ UNCHANGED <<activity, bodies, store, estate, bounded>>

(* Another worker takes the run over and executes the function again from  *)
(* the recorded history: what was scheduled stays, the locals start over.  *)
Replay ==
  /\ wf.status = "running" /\ replays < MaxReplays
  /\ wf' = Fresh("running") /\ replays' = replays + 1
  /\ UNCHANGED <<activity, bodies, store, estate, changes>>

-----------------------------------------------------------------------------
(* An attempt of ScrapeResource on a worker.                               *)

Current(b) == act[b.target].st = "started" /\ act[b.target].attempt = b.attempt

Indexes(i, attempt, docs) ==
  index' = [index EXCEPT ![i] = [o \in Object |-> IF o \in docs THEN attempt ELSE @[o]]]

(* A worker takes the task and lists the target's objects.                 *)
StartAttempt(i) ==
  /\ act[i].st = "scheduled"
  /\ act' = [act EXCEPT ![i].st = "started"]
  /\ bodies' = bodies \cup {[target |-> i, attempt |-> act[i].attempt,
                             listed |-> estate[i], todo |-> estate[i]]}
  /\ UNCHANGED <<wf, store, estate, timedOut, denied, expired, bounded>>

(* The attempt leaves a bulk request behind whose answer is lost.          *)
Leaves(b, docs) ==
  /\ docs # {} => Cardinality(inflight) < MaxInFlight
  /\ inflight' = inflight \cup {[target |-> b.target, attempt |-> b.attempt, docs |-> d] :
                                  d \in {docs} \ {{}}}

(* A bulk request of the attempt succeeds and the attempt goes on; if it   *)
(* is the second that the client has sent, its answer to the first being   *)
(* lost, the first is still under way.                                     *)
WriteBatch(b, docs) ==
  /\ docs # {}
  /\ Indexes(b.target, b.attempt, docs)
  /\ \E again \in {{}, docs} : Leaves(b, again)
  /\ bodies' = (bodies \ {b}) \cup {[b EXCEPT !.todo = @ \ docs]}
  /\ UNCHANGED <<wf, activity, estate, bounded>>

(* Mutant of Completes: the output is returned before the last flush.      *)
CompletesEarly(b) ==
  /\ bodies' = bodies \ {b}
  /\ act' = IF Current(b)
            THEN [act EXCEPT ![b.target].st = "completed", ![b.target].listed = b.listed]
            ELSE act
  /\ UNCHANGED <<wf, store, estate, timedOut, denied, expired, bounded>>

(* Mutant of Completes: the answer of a written-off attempt is taken too.  *)
CompletesLate(b) ==
  /\ b.todo = {}
  /\ bodies' = bodies \ {b}
  /\ act' = [act EXCEPT ![b.target].st = "completed", ![b.target].listed = b.listed]
  /\ UNCHANGED <<wf, store, estate, timedOut, denied, expired, bounded>>

(* The attempt returns its output; Temporal takes it from the attempt it   *)
(* is waiting for and answers any other "not found".                       *)
Completes(b) ==
  /\ b.todo = {}
  /\ bodies' = bodies \ {b}
  /\ act' = IF Current(b)
            THEN [act EXCEPT ![b.target].st = "completed", ![b.target].listed = b.listed]
            ELSE act
  /\ UNCHANGED <<wf, store, estate, timedOut, denied, expired, bounded>>

(* classify: a permission error is not retryable, any other one is.        *)
AfterFailure(cause) == IF cause = "permission" THEN "failed" ELSE "backoff"

Denies(b, cause) ==
  denied' = [denied EXCEPT ![b.target] =
               IF cause = "permission" THEN @ \cup {b.attempt} ELSE @]

(* Mutant of Fails: the error is returned while the writing goes on.       *)
FailsWritingOn(b, cause, docs, late) ==
  /\ cause = "permission" => docs = {} /\ late = {}
  /\ Indexes(b.target, b.attempt, docs) /\ Leaves(b, late)
  /\ act' = IF Current(b) THEN [act EXCEPT ![b.target].st = AfterFailure(cause)] ELSE act
  /\ Denies(b, cause)
  /\ UNCHANGED <<wf, bodies, estate, timedOut, expired, bounded>>

(* Mutant of Fails: the error of a written-off attempt is taken too.       *)
FailsLate(b, cause, docs, late) ==
  /\ cause = "permission" => docs = {} /\ late = {}
  /\ Indexes(b.target, b.attempt, docs) /\ Leaves(b, late)
  /\ bodies' = bodies \ {b}
  /\ act' = IF act[b.target].st \in Closed THEN act
            ELSE [act EXCEPT ![b.target].st = AfterFailure(cause)]
  /\ Denies(b, cause)
  /\ UNCHANGED <<wf, estate, timedOut, expired, bounded>>

(* The attempt returns an error.  If it is one of Write, part of the batch *)
(* may be indexed, and if no answer came, part of it may be so later.      *)
Fails(b, cause, docs, late) ==
  /\ cause = "permission" => docs = {} /\ late = {}
  /\ Indexes(b.target, b.attempt, docs) /\ Leaves(b, late)
  /\ bodies' = bodies \ {b}
  /\ act' = IF Current(b) THEN [act EXCEPT ![b.target].st = AfterFailure(cause)] ELSE act
  /\ Denies(b, cause)
  /\ UNCHANGED <<wf, estate, timedOut, expired, bounded>>

(* The worker process dies or stops: nothing is reported, and a request    *)
(* it has sent is under way.                                               *)
Lost(b, late) ==
  /\ bodies' = bodies \ {b}
  /\ Leaves(b, late)
  /\ UNCHANGED <<wf, activity, index, estate, bounded>>

(* Elasticsearch executes a request nobody waits for, all or part of it,   *)
(* or drops it.                                                            *)
Lands(m, docs) ==
  /\ Indexes(m.target, m.attempt, docs)
  /\ inflight' = inflight \ {m}
  /\ UNCHANGED <<wf, activity, bodies, estate, bounded>>

-----------------------------------------------------------------------------
(* Temporal, under the workflow's ActivityOptions.                         *)

(* HeartbeatTimeout or StartToCloseTimeout: the attempt is written off, the *)
(* goroutine that executes it is not.                                      *)
TimesOut(i) ==
  /\ act[i].st = "started"
  /\ act' = [act EXCEPT ![i].st = "backoff"]
  /\ timedOut' = [timedOut EXCEPT ![i] = @ \cup {act[i].attempt}]
  /\ UNCHANGED <<wf, bodies, store, estate, denied, expired, bounded>>

(* RetryPolicy without MaximumAttempts.                                    *)
Retry(i) ==
  /\ act[i].st = "backoff" /\ act[i].attempt < MaxAttempts
  /\ act' = [act EXCEPT ![i].st = "scheduled", ![i].attempt = @ + 1]
  /\ UNCHANGED <<wf, bodies, store, estate, timedOut, denied, expired, bounded>>

(* Mutant of Expires: no ScheduleToCloseTimeout in the options.            *)
NeverExpires(i) == FALSE /\ UNCHANGED vars

(* ScheduleToCloseTimeout ends the activity, whatever it is doing.         *)
Expires(i) ==
  /\ act[i].st \in {"scheduled", "started", "backoff"}
  /\ act' = [act EXCEPT ![i].st = "failed"]
  /\ expired' = expired \cup {i}
  /\ timedOut' = IF act[i].st = "started"
                 THEN [timedOut EXCEPT ![i] = @ \cup {act[i].attempt}] ELSE timedOut
  /\ UNCHANGED <<wf, bodies, store, estate, denied, bounded>>

(* Somebody creates or deletes an object in the AWS account.               *)
EstateChanges(i, o) ==
  /\ changes < MaxChanges
  /\ changes' = changes + 1
  /\ estate' = [estate EXCEPT ![i] = SymDiff(@, {o})]
  /\ UNCHANGED <<wf, activity, bodies, store, replays>>

-----------------------------------------------------------------------------
Attempts ==
  \E b \in bodies :
    \/ Completes(b)
    \/ \E docs \in SUBSET b.todo :
         \/ WriteBatch(b, docs)
         \/ Lost(b, docs)
         \/ \E late \in SUBSET b.todo, cause \in {"permission", "other"} :
              Fails(b, cause, docs, late)

Elasticsearch == \E m \in inflight : \E docs \in SUBSET m.docs : Lands(m, docs)

Server ==
  \E i \in Target : StartAttempt(i) \/ TimesOut(i) \/ Retry(i) \/ Expires(i)

Next ==
  \/ Begin \/ Await \/ Finish \/ Replay
  \/ Attempts
  \/ Elasticsearch
  \/ Server
  \/ \E i \in Target, o \in Object : EstateChanges(i, o)

(* A worker polls for workflow tasks, and Temporal's ScheduleToClose timer  *)
(* fires; nothing is assumed of activity workers, AWS or Elasticsearch.    *)
Fairness ==
  /\ WF_vars(Begin) /\ WF_vars(Await) /\ WF_vars(Finish)
  /\ \A i \in Target : WF_vars(Expires(i))

Spec == Init /\ [][Next]_vars /\ Fairness

-----------------------------------------------------------------------------
Body == [target : Target, attempt : 1..MaxAttempts,
         listed : SUBSET Object, todo : SUBSET Object]

Run == [status : {"new", "running"} \cup Closed,
        results : Seq([ok : BOOLEAN, count : Nat]), count : Nat, failed : 0..N]

Activity == [st : Closed \cup {"none", "scheduled", "started", "backoff"},
             attempt : 0..MaxAttempts, listed : SUBSET Object]

Request == [target : Target, attempt : 1..MaxAttempts, docs : SUBSET Object]

TypeOK ==
  /\ wf \in Run /\ Len(wf.results) <= N
  /\ act \in [Target -> Activity]
  /\ bodies \subseteq Body /\ inflight \subseteq Request
  /\ index \in [Target -> [Object -> 0..MaxAttempts]]
  /\ estate \in [Target -> SUBSET Object]
  /\ timedOut \in [Target -> SUBSET (1..MaxAttempts)]
  /\ denied \in [Target -> SUBSET (1..MaxAttempts)] /\ expired \subseteq Target
  /\ changes \in 0..MaxChanges /\ replays \in 0..MaxReplays

Count(i) == IF act[i].st = "completed" THEN Cardinality(act[i].listed) ELSE 0
Counts == [i \in Target |-> Count(i)]
Verdict(i) == [ok |-> act[i].st = "completed", count |-> Count(i)]

(* The workflow's answer is what the activities did, whatever order they   *)
(* finished in and however often the function was replayed: result k is    *)
(* about target k, the total is the sum, no target is lost, and the run    *)
(* fails only when every target did ("One broken region must not hide the  *)
(* accounts that did scrape").                                             *)
ResultIsFaithful ==
  /\ \A i \in DOMAIN wf.results :
       /\ act[i].st \in Closed
       /\ wf.results[i] = Verdict(i)
  /\ wf.count = SumFunctionOnSet(Counts, DOMAIN wf.results)
  /\ wf.status \in {"completed", "failed"} =>
       /\ DOMAIN wf.results = Target
       /\ wf.status = "failed" <=> N > 0 /\ \A i \in Target : act[i].st = "failed"

(* To whoever started it the run is RunContract, whatever attempts there   *)
(* were and however often the function was replayed: a target whose fate   *)
(* is known keeps it, though an attempt that was given up on may return,   *)
(* and the answer is given once, about all of them.                        *)
Contract ==
  INSTANCE RunContract WITH
    Most <- Cardinality(Object),
    verdict <- [i \in Target |-> IF act[i].st \in Closed THEN {Verdict(i)} ELSE {}],
    status <- wf.status,
    answer <- IF wf.status \in Closed
              THEN {[count |-> wf.count, failed |-> wf.failed]} ELSE {}
KeepsContract == Contract!Spec

(* "Temporal stops immediately": a permission error of the attempt that    *)
(* Temporal waits for ends the target, and no attempt is made after it.    *)
(* One of an attempt that was written off while it ran, which may come at  *)
(* any time, changes nothing; and what ends a target otherwise without a   *)
(* result is its hour alone, no other error and no lost worker.            *)
DenialDecides ==
  \A i \in Target :
    LET heard == denied[i] \ timedOut[i]
    IN /\ act[i].st = "failed" <=> i \in expired \/ act[i].attempt \in heard
       /\ heard \subseteq {act[i].attempt}

(* A count the workflow reports for a target is backed by the store: every *)
(* object the reported attempt listed has a document, whatever zombie      *)
(* attempts wrote in between.                                              *)
ReportedMeansStored ==
  \A i \in DOMAIN wf.results : wf.results[i].ok =>
    \A o \in act[i].listed : index[i][o] # 0

(* "re-running a scrape overwrites": the document of an object goes back   *)
(* to an earlier attempt only by one that Temporal timed out while it was  *)
(* running, or by a bulk request whose answer an attempt has lost; never   *)
(* by an attempt that has reported its failure and knows what became of    *)
(* its requests.                                                           *)
StaleWriteHasCause ==
  [][\A i \in Target, o \in Object : index'[i][o] < index[i][o] =>
       \/ index'[i][o] \in timedOut[i]
       \/ \E m \in inflight : m.target = i /\ m.attempt = index'[i][o] /\ o \in m.docs]_vars

(* Whatever AWS, Elasticsearch and the activity workers do, a run that was *)
(* started ends: retries are unlimited and ScheduleToCloseTimeout is what  *)
(* bounds them.                                                            *)
WorkflowFinishes == <>(wf.status \in {"completed", "failed"})

(* README: "each daily index is a snapshot of the estate".  Of a target    *)
(* reported as scraped, the index holds exactly what its attempt listed.   *)
IndexIsSnapshot ==
  wf.status = "completed" =>
    \A i \in DOMAIN wf.results : wf.results[i].ok =>
      {o \in Object : index[i][o] # 0} = act[i].listed
=============================================================================
