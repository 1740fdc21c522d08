------------------------ MODULE AccountScrapeProofs -------------------------
(***************************************************************************)
(* What a run of AccountScrape guarantees for any number of targets,       *)
(* objects, attempts, replays and changes of the AWS accounts.             *)
(***************************************************************************)
EXTENDS AccountScrape, SumTheorems

(* The workflow and its activities.  Nothing happens before the workflow   *)
(* has begun, and everything has been tried at least once from then on.    *)
Scheduled ==
  /\ wf.status = "new" => bodies = {} /\ inflight = {} /\ wf.results = <<>>
  /\ \A i \in Target :
       /\ act[i].st = "none" <=> wf.status = "new"
       /\ act[i].st # "none" <=> act[i].attempt >= 1

(* An attempt that executes is the one Temporal waits for, or was written  *)
(* off while it ran, and no other worker executes the same one; a request  *)
(* under way is one of an attempt there has been.                          *)
Executing ==
  /\ \A b \in bodies :
       /\ b.attempt <= act[b.target].attempt
       /\ act[b.target].st \in {"none", "scheduled"} => b.attempt < act[b.target].attempt
       /\ Current(b) \/ b.attempt \in timedOut[b.target]
  /\ \A b, c \in bodies : b.target = c.target /\ b.attempt = c.attempt => b = c
  /\ \A m \in inflight : m.attempt <= act[m.target].attempt

(* Only attempts there have been are written off, and not the one that     *)
(* Temporal is about to begin or waits for.                                *)
Awaited ==
  \A i \in Target : \A n \in timedOut[i] :
    /\ n <= act[i].attempt
    /\ act[i].st \in {"none", "scheduled", "started"} => n < act[i].attempt

(* What an attempt has worked off is in the index, and stays there.        *)
Stored ==
  /\ \A i \in Target, o \in Object : index[i][o] <= act[i].attempt
  /\ \A b \in bodies : \A o \in b.listed \ b.todo : index[b.target][o] # 0
  /\ \A i \in Target : act[i].st = "completed" =>
       \A o \in act[i].listed : index[i][o] # 0

(* Results are only ever recorded of activities that are over.             *)
Gathered ==
  /\ \A i \in DOMAIN wf.results :
       /\ act[i].st \in Closed
       /\ wf.results[i].ok <=> act[i].st = "completed"
  /\ wf.failed <= Len(wf.results)

RunInv == /\ TypeOK /\ Scheduled /\ Executing /\ Awaited
          /\ Stored /\ Gathered /\ DenialDecides

-----------------------------------------------------------------------------
(* The types.                                                              *)
LEMMA InitInv == Init => RunInv
<1> SUFFICES ASSUME Init PROVE RunInv
  OBVIOUS
<1> USE AccountScrapeAssumption DEF Init, Fresh, Untried, Closed
<1>1. TypeOK
  BY DEF TypeOK, Run, Activity
<1>2. Scheduled /\ Executing /\ Awaited /\ Stored /\ Gathered
  BY DEF Scheduled, Executing, Awaited, Stored, Gathered
<1>3. DenialDecides
  BY DEF DenialDecides
<1> QED
  BY <1>1, <1>2, <1>3 DEF RunInv

LEMMA CountIsNat ==
  ASSUME TypeOK, NEW i \in Target
  PROVE  Cardinality(act[i].listed) \in Nat
<1>1. act[i].listed \in SUBSET Object
  BY DEF TypeOK, Activity
<1> QED
  BY <1>1, AccountScrapeAssumption, FS_Subset, FS_CardinalityType

(* The workflow function.                                                  *)
LEMMA WorkflowType ==
  ASSUME TypeOK, Gathered, Begin \/ Await \/ Finish \/ Replay
  PROVE  TypeOK'
<1> USE AccountScrapeAssumption DEF Closed
<1>1. CASE Begin
  <2>1. wf' \in Run /\ Len(wf'.results) <= N
    BY <1>1 DEF Begin, Fresh, Run
  <2>2. act' \in [Target -> Activity]
    BY <1>1 DEF Begin, Untried, Activity
  <2> QED
    BY <1>1, <2>1, <2>2 DEF Begin, TypeOK, store, bounded
<1>2. CASE Await
  <2> DEFINE a == act[Next_]
             ok == a.st = "completed"
             c  == IF ok THEN Cardinality(a.listed) ELSE 0
  <2>1. c \in Nat /\ Next_ \in Target /\ Len(wf.results) < N /\ wf \in Run
    BY <1>2, CountIsNat DEF Await, TypeOK, Target, Next_, Run
  <2>2. wf' = [status |-> "running", count |-> wf.count + c,
               results |-> Append(wf.results, [ok |-> ok, count |-> c]),
               failed |-> IF ok THEN wf.failed ELSE wf.failed + 1]
    BY <1>2 DEF Await
  <2>3. wf.failed + 1 \in 0..N
    BY <2>1 DEF Gathered, Run
  <2>4. Append(wf.results, [ok |-> ok, count |-> c]) \in Seq([ok : BOOLEAN, count : Nat])
        /\ Len(Append(wf.results, [ok |-> ok, count |-> c])) = Len(wf.results) + 1
    <3>1. wf.results \in Seq([ok : BOOLEAN, count : Nat]) /\ ok \in BOOLEAN
      BY <2>1 DEF Run
    <3> HIDE DEF ok, c
    <3> QED
      BY <2>1, <3>1
  <2>5. wf' \in Run /\ Len(wf'.results) <= N
    <3> HIDE DEF ok, c
    <3> QED
      BY <2>1, <2>2, <2>3, <2>4 DEF Run
  <2> QED
    BY <1>2, <2>5 DEF Await, TypeOK, activity, store, bounded
<1>3. CASE Finish
  BY <1>3 DEF Finish, Outcome, TypeOK, Run, activity, store, bounded
<1>4. CASE Replay
  <2>1. wf' \in Run /\ Len(wf'.results) <= N /\ replays' \in 0..MaxReplays
    BY <1>4 DEF Replay, Fresh, Run, TypeOK
  <2> QED
    BY <1>4, <2>1 DEF Replay, TypeOK, activity, store
<1> QED
  BY <1>1, <1>2, <1>3, <1>4

LEMMA BodyType ==
  ASSUME TypeOK, NEW b \in bodies
  PROVE  /\ b \in Body /\ b.target \in Target /\ b.attempt \in 1..MaxAttempts
         /\ act[b.target] \in Activity
  BY DEF TypeOK, Body

LEMMA IndexesType ==
  ASSUME TypeOK, NEW i \in Target, NEW n \in 1..MaxAttempts, NEW docs, Indexes(i, n, docs)
  PROVE  index' \in [Target -> [Object -> 0..MaxAttempts]]
  BY AccountScrapeAssumption DEF TypeOK, Indexes

(* What an attempt leaves behind is a request of its own.                  *)
LEMMA RequestsLeft ==
  ASSUME TypeOK, NEW b \in bodies, NEW docs \in SUBSET b.todo, Leaves(b, docs)
  PROVE  /\ inflight' \subseteq Request
         /\ \A m \in inflight' : m \in inflight \/ (m.target = b.target /\ m.attempt = b.attempt)
<1>1. b.target \in Target /\ b.attempt \in 1..MaxAttempts /\ docs \in SUBSET Object
  BY BodyType DEF Body
<1> DEFINE left == [target |-> b.target, attempt |-> b.attempt, docs |-> docs]
<1>2. left \in Request /\ left.target = b.target /\ left.attempt = b.attempt
  BY <1>1 DEF Request
<1>3. \A m \in inflight' : m \in inflight \/ m = left
  BY DEF Leaves
<1> HIDE DEF left
<1> QED
  BY <1>2, <1>3 DEF TypeOK

LEMMA ActivityType ==
  ASSUME TypeOK, NEW b \in bodies, Completes(b) \/ \E cause, docs, late : Fails(b, cause, docs, late)
  PROVE  act' \in [Target -> Activity]
<1>1. b \in Body /\ act \in [Target -> Activity]
  BY DEF TypeOK
<1> QED
  BY <1>1 DEF Completes, Fails, AfterFailure, Activity, Closed, Body

(* The attempts on the workers, and what they have sent.                   *)
LEMMA AttemptsType ==
  ASSUME TypeOK, Attempts \/ Elasticsearch
  PROVE  TypeOK'
<1>1. ASSUME NEW b \in bodies, Completes(b) PROVE TypeOK'
  <2>1. act' \in [Target -> Activity]
    BY <1>1, ActivityType
  <2> QED
    BY <1>1, <2>1 DEF Completes, TypeOK, store, bounded
<1>2. ASSUME NEW b \in bodies, NEW late \in SUBSET b.todo, Lost(b, late) PROVE TypeOK'
  <2>1. inflight' \subseteq Request
    BY <1>2, RequestsLeft DEF Lost
  <2> QED
    BY <1>2, <2>1 DEF Lost, TypeOK, activity, bounded
<1>3. ASSUME NEW b \in bodies, NEW docs \in SUBSET b.todo, WriteBatch(b, docs) PROVE TypeOK'
  <2>1. [b EXCEPT !.todo = @ \ docs] \in Body
    BY BodyType DEF Body
  <2>2. index' \in [Target -> [Object -> 0..MaxAttempts]]
    BY <1>3, BodyType, IndexesType DEF WriteBatch
  <2>3. inflight' \subseteq Request
    <3>1. PICK again \in {{}, docs} : Leaves(b, again)
      BY <1>3 DEF WriteBatch
    <3> QED
      BY <3>1, RequestsLeft
  <2> QED
    BY <1>3, <2>1, <2>2, <2>3 DEF WriteBatch, TypeOK, activity, bounded
<1>4. ASSUME NEW b \in bodies, NEW docs \in SUBSET b.todo, NEW late \in SUBSET b.todo,
             NEW cause \in {"permission", "other"}, Fails(b, cause, docs, late)
      PROVE  TypeOK'
  <2>1. act' \in [Target -> Activity]
    BY <1>4, ActivityType
  <2>2. index' \in [Target -> [Object -> 0..MaxAttempts]]
    BY <1>4, BodyType, IndexesType DEF Fails
  <2>3. inflight' \subseteq Request
    BY <1>4, RequestsLeft DEF Fails
  <2>4. denied' \in [Target -> SUBSET (1..MaxAttempts)]
    BY <1>4, BodyType DEF Fails, Denies, TypeOK
  <2>5. bodies' \subseteq Body
    BY <1>4 DEF Fails, TypeOK
  <2>6. UNCHANGED <<wf, estate, timedOut, expired, bounded>>
    BY <1>4 DEF Fails
  <2> QED
    BY <2>1, <2>2, <2>3, <2>4, <2>5, <2>6 DEF TypeOK, bounded
<1>5. ASSUME NEW m \in inflight, NEW docs \in SUBSET m.docs, Lands(m, docs) PROVE TypeOK'
  <2>1. m.target \in Target /\ m.attempt \in 1..MaxAttempts
    BY DEF TypeOK, Request
  <2>2. index' \in [Target -> [Object -> 0..MaxAttempts]]
    BY <1>5, <2>1, IndexesType DEF Lands
  <2> QED
    BY <1>5, <2>2 DEF Lands, TypeOK, activity, bounded
<1> QED
  BY <1>1, <1>2, <1>3, <1>4, <1>5 DEF Attempts, Elasticsearch

(* Temporal's timers and queue.                                            *)
LEMMA ServerType ==
  ASSUME TypeOK, Scheduled, Server
  PROVE  TypeOK'
<1> PICK i \in Target : StartAttempt(i) \/ TimesOut(i) \/ Retry(i) \/ Expires(i)
  BY DEF Server
<1>i. /\ act \in [Target -> Activity] /\ act[i] \in Activity
      /\ act[i].st # "none" => act[i].attempt \in 1..MaxAttempts
  BY DEF TypeOK, Scheduled, Activity
<1>1. act' \in [Target -> Activity]
  BY <1>i, AccountScrapeAssumption
  DEF StartAttempt, TimesOut, Retry, Expires, Activity, Closed
<1>2. timedOut' \in [Target -> SUBSET (1..MaxAttempts)] /\ expired' \subseteq Target
  BY <1>i DEF StartAttempt, TimesOut, Retry, Expires, TypeOK
<1>3. bodies' \subseteq Body
  <2>1. CASE StartAttempt(i)
    <3>1. [target |-> i, attempt |-> act[i].attempt, listed |-> estate[i],
           todo |-> estate[i]] \in Body
      BY <1>i, <2>1 DEF StartAttempt, Body, TypeOK
    <3> QED
      BY <2>1, <3>1 DEF StartAttempt, TypeOK
  <2>2. CASE TimesOut(i) \/ Retry(i) \/ Expires(i)
    BY <2>2 DEF TimesOut, Retry, Expires, TypeOK
  <2> QED
    BY <2>1, <2>2
<1>4. UNCHANGED <<wf, store, estate, denied, bounded>>
  BY DEF StartAttempt, TimesOut, Retry, Expires
<1> QED
  BY <1>1, <1>2, <1>3, <1>4 DEF TypeOK, store, bounded

LEMMA TypeStep ==
  ASSUME TypeOK, Scheduled, Gathered, [Next]_vars
  PROVE  TypeOK'
<1>1. ASSUME NEW i \in Target, NEW o \in Object, EstateChanges(i, o) PROVE TypeOK'
  <2>1. estate' \in [Target -> SUBSET Object] /\ changes' \in 0..MaxChanges
    BY <1>1, AccountScrapeAssumption DEF EstateChanges, SymDiff, TypeOK
  <2> QED
    BY <1>1, <2>1 DEF EstateChanges, TypeOK, activity, store
<1>2. CASE UNCHANGED vars
  BY <1>2 DEF vars, TypeOK, activity, store, bounded
<1> QED
  BY <1>1, <1>2, WorkflowType, AttemptsType, ServerType DEF Next

-----------------------------------------------------------------------------
(* One lemma for each part of the invariant, one step for each action that *)
(* can disturb it.                                                         *)
LEMMA ScheduledStep ==
  ASSUME TypeOK, Scheduled, [Next]_vars
  PROVE  Scheduled'
<1> USE DEF Scheduled
<1>0. act \in [Target -> Activity] /\ \A i \in Target : act[i].attempt \in 0..MaxAttempts
  BY DEF TypeOK, Activity
<1>1. CASE Begin
  BY <1>1 DEF Begin, Fresh, Untried, store
<1>2. CASE Await \/ Finish \/ Replay
  BY <1>2 DEF Await, Finish, Replay, Outcome, Fresh, TypeOK, Run, activity, store
<1>3. CASE Attempts
  <2>1. wf.status # "new" /\ UNCHANGED wf
    BY <1>3 DEF Attempts, Completes, Lost, WriteBatch, Fails
  <2>2. \A i \in Target : act'[i].st = "none" => act[i].st = "none"
    BY <1>0, <1>3, BodyType
    DEF Attempts, Completes, Lost, WriteBatch, Fails, AfterFailure, activity, Activity
  <2>3. \A i \in Target : act'[i].attempt = act[i].attempt
    BY <1>0, <1>3, BodyType DEF Attempts, Completes, Lost, WriteBatch, Fails, activity, Activity
  <2> QED
    BY <2>1, <2>2, <2>3
<1>4. CASE Elasticsearch
  BY <1>4 DEF Elasticsearch, Lands, activity
<1>5. ASSUME NEW i \in Target, StartAttempt(i) \/ TimesOut(i) \/ Retry(i) \/ Expires(i)
      PROVE  Scheduled'
  <2>1. wf.status # "new"
    BY <1>5 DEF StartAttempt, TimesOut, Retry, Expires
  <2>2. \A j \in Target : act'[j].st # "none" /\ act'[j].attempt >= 1
    <3>1. \A j \in Target : act[j].st # "none" /\ act[j].attempt >= 1
      BY <2>1
    <3>2. \A j \in Target : j # i => act'[j] = act[j]
      BY <1>0, <1>5 DEF StartAttempt, TimesOut, Retry, Expires
    <3>3. act'[i].st # "none" /\ act'[i].attempt \in {act[i].attempt, act[i].attempt + 1}
      BY <1>0, <1>5 DEF StartAttempt, TimesOut, Retry, Expires, Activity
    <3>4. act'[i].attempt >= 1
      BY <1>0, <3>1, <3>3, AccountScrapeAssumption
    <3> QED
      BY <3>1, <3>2, <3>3, <3>4
  <2> QED
    BY <1>5, <2>1, <2>2 DEF StartAttempt, TimesOut, Retry, Expires
<1>6. ASSUME NEW i \in Target, NEW o \in Object, EstateChanges(i, o) PROVE Scheduled'
  BY <1>6 DEF EstateChanges, activity, store
<1>7. CASE UNCHANGED vars
  BY <1>7 DEF vars, activity, store
<1> QED
  BY <1>1, <1>2, <1>3, <1>4, <1>5, <1>6, <1>7 DEF Next, Server

LEMMA AwaitedStep ==
  ASSUME TypeOK, Scheduled, Awaited, [Next]_vars
  PROVE  Awaited'
<1> USE DEF Awaited
<1>0. /\ act \in [Target -> Activity] /\ timedOut \in [Target -> SUBSET (1..MaxAttempts)]
      /\ \A i \in Target : act[i].attempt \in 0..MaxAttempts
  BY DEF TypeOK, Activity
<1>1. CASE Begin
  <2>1. \A i \in Target : act[i].st = "none" /\ act[i].attempt = 0
    BY <1>0, <1>1 DEF Begin, Scheduled
  <2>2. \A i \in Target : timedOut'[i] = {}
    BY <1>0, <1>1, <2>1 DEF Begin
  <2> QED
    BY <2>2
<1>2. ASSUME UNCHANGED activity PROVE Awaited'
  BY <1>2 DEF activity
<1>3. ASSUME UNCHANGED timedOut, \A i \in Target : /\ act'[i].attempt = act[i].attempt
                                                 /\ (act'[i] = act[i] \/ act[i].st = "started")
      PROVE  Awaited'
  <2>1. \A i \in Target : \A n \in timedOut[i] :
          n <= act[i].attempt /\ (act[i].st = "started" => n < act[i].attempt)
    BY <1>0
  <2> QED
    BY <1>0, <1>3, <2>1
<1>4. ASSUME NEW b \in bodies, \/ Completes(b) \/ \E late : Lost(b, late)
                               \/ \E docs : WriteBatch(b, docs)
                               \/ \E cause, docs, late : Fails(b, cause, docs, late)
      PROVE  Awaited'
  <2>1. CASE (\E late : Lost(b, late)) \/ \E docs : WriteBatch(b, docs)
    BY <1>2, <2>1 DEF Lost, WriteBatch
  <2>2. CASE Completes(b) \/ \E cause, docs, late : Fails(b, cause, docs, late)
    <3>1. UNCHANGED timedOut /\ b.target \in Target
      BY <2>2, BodyType DEF Completes, Fails
    <3>2. \A i \in Target : act'[i].attempt = act[i].attempt
      <4>1. CASE Completes(b)
        BY <1>0, <3>1, <4>1 DEF Completes, Activity
      <4>2. CASE \E cause, docs, late : Fails(b, cause, docs, late)
        BY <1>0, <3>1, <4>2 DEF Fails, Activity
      <4> QED
        BY <2>2, <4>1, <4>2
    <3>3. \A i \in Target : act'[i] = act[i] \/ act[i].st = "started"
      BY <1>0, <2>2, <3>1 DEF Completes, Fails, Current, Activity
    <3> QED
      BY <1>3, <3>1, <3>2, <3>3
  <2> QED
    BY <1>4, <2>1, <2>2
<1>5. ASSUME NEW i \in Target, StartAttempt(i) \/ TimesOut(i) \/ Retry(i) \/ Expires(i)
      PROVE  Awaited'
  <2>1. CASE StartAttempt(i)
    BY <1>0, <2>1 DEF StartAttempt, Activity
  <2>2. CASE TimesOut(i)
    BY <1>0, <2>2 DEF TimesOut, Activity
  <2>3. CASE Retry(i)
    BY <1>0, <2>3 DEF Retry, Activity
  <2>4. CASE Expires(i)
    BY <1>0, <2>4 DEF Expires, Activity
  <2> QED
    BY <1>5, <2>1, <2>2, <2>3, <2>4
<1> QED
  BY <1>1, <1>2, <1>4, <1>5
  DEF Next, Attempts, Elasticsearch, Server, Await, Finish, Replay, Lands, EstateChanges, vars

(* A target that has not failed was not denied by an attempt Temporal has  *)
(* listened to, and its time is not over.                                  *)
LEMMA NotFailed ==
  ASSUME DenialDecides, NEW i \in Target, act[i].st # "failed"
  PROVE  denied[i] \subseteq timedOut[i] /\ i \notin expired
  BY DEF DenialDecides

LEMMA DenialStep ==
  ASSUME TypeOK, Scheduled, Executing, Awaited, DenialDecides, [Next]_vars
  PROVE  DenialDecides'
<1>0. /\ act \in [Target -> Activity]
      /\ timedOut \in [Target -> SUBSET (1..MaxAttempts)]
      /\ denied \in [Target -> SUBSET (1..MaxAttempts)]
  BY DEF TypeOK
<1>1. ASSUME \A i \in Target : \/ /\ act'[i] = act[i] /\ (i \in expired' <=> i \in expired)
                                  /\ denied'[i] \ timedOut'[i] = denied[i] \ timedOut[i]
                               \/ /\ act'[i].st # "failed" /\ i \notin expired'
                                  /\ denied'[i] \subseteq timedOut'[i]
                               \/ /\ act'[i].st = "failed" /\ i \in expired'
                                  /\ denied'[i] \subseteq timedOut'[i]
                               \/ /\ act'[i].st = "failed"
                                  /\ denied'[i] \ timedOut'[i] = {act'[i].attempt}
      PROVE  DenialDecides'
  BY <1>1 DEF DenialDecides
<1>2. CASE UNCHANGED activity
  BY <1>1, <1>2 DEF activity
<1>3. CASE Begin
  <2>1. \A i \in Target : act[i].st = "none" /\ act'[i].st = "scheduled"
    BY <1>3 DEF Begin, Scheduled, Untried
  <2> QED
    BY <1>1, <1>3, <2>1, NotFailed DEF Begin
<1>4. ASSUME NEW b \in bodies, Completes(b) PROVE DenialDecides'
  <2>1. CASE Current(b)
    <3>1. /\ act[b.target].st # "failed" /\ act'[b.target].st # "failed" /\ b.target \in Target
          /\ \A i \in Target : i # b.target => act'[i] = act[i]
      BY <1>0, <1>4, <2>1, BodyType DEF Completes, Current
    <3> QED
      BY <1>1, <1>4, <3>1, NotFailed DEF Completes
  <2>2. CASE ~Current(b)
    BY <1>2, <1>4, <2>2 DEF Completes, activity
  <2> QED
    BY <2>1, <2>2
<1>5. ASSUME NEW b \in bodies, NEW cause \in {"permission", "other"}, NEW docs, NEW late,
             Fails(b, cause, docs, late)
      PROVE  DenialDecides'
  <2>1. /\ b.target \in Target /\ UNCHANGED <<timedOut, expired>>
        /\ \A i \in Target : i # b.target => denied'[i] = denied[i] /\ act'[i] = act[i]
        /\ denied'[b.target] = denied[b.target] \cup (IF cause = "permission" THEN {b.attempt} ELSE {})
    BY <1>0, <1>5, BodyType DEF Fails, Denies
  <2>2. CASE Current(b)
    <3>1. /\ act[b.target].st = "started" /\ act'[b.target].st = AfterFailure(cause)
          /\ act'[b.target].attempt = b.attempt
      BY <1>0, <1>5, <2>1, <2>2 DEF Fails, Current, Activity
    <3>2. denied[b.target] \subseteq timedOut[b.target] /\ b.target \notin expired
      BY <2>1, <3>1, NotFailed
    <3>3. b.attempt \notin timedOut[b.target]
      BY <2>1, <2>2, <3>1, BodyType, AccountScrapeAssumption DEF Awaited, Current
    <3>4. CASE cause = "permission"
      <4>1. denied'[b.target] \ timedOut'[b.target] = {b.attempt}
        BY <2>1, <3>2, <3>3, <3>4
      <4> QED
        BY <1>1, <2>1, <3>1, <3>4, <4>1 DEF AfterFailure
    <3>5. CASE cause = "other"
      BY <1>1, <2>1, <3>1, <3>2, <3>5 DEF AfterFailure
    <3> QED
      BY <3>4, <3>5
  <2>3. CASE ~Current(b)
    <3>1. b.attempt \in timedOut[b.target] /\ act' = act
      BY <1>5, <2>3 DEF Fails, Executing
    <3>2. denied'[b.target] \ timedOut'[b.target] = denied[b.target] \ timedOut[b.target]
      BY <2>1, <3>1
    <3> QED
      BY <1>1, <2>1, <3>1, <3>2
  <2> QED
    BY <2>2, <2>3
<1>6. ASSUME NEW i \in Target, StartAttempt(i) \/ TimesOut(i) \/ Retry(i) PROVE DenialDecides'
  <2>1. /\ act[i].st # "failed" /\ act'[i].st # "failed" /\ UNCHANGED <<denied, expired>>
        /\ \A j \in Target : j # i => act'[j] = act[j] /\ timedOut'[j] = timedOut[j]
        /\ timedOut[i] \subseteq timedOut'[i]
    BY <1>0, <1>6 DEF StartAttempt, TimesOut, Retry, Activity
  <2>2. denied[i] \subseteq timedOut[i] /\ i \notin expired
    BY <2>1, NotFailed
  <2> QED
    BY <1>1, <2>1, <2>2
<1>7. ASSUME NEW i \in Target, Expires(i) PROVE DenialDecides'
  <2>1. /\ act[i].st # "failed" /\ act'[i].st = "failed" /\ denied' = denied
        /\ expired' = expired \cup {i}
        /\ \A j \in Target : j # i => act'[j] = act[j] /\ timedOut'[j] = timedOut[j]
        /\ timedOut[i] \subseteq timedOut'[i]
    BY <1>0, <1>7 DEF Expires, Activity
  <2>2. denied[i] \subseteq timedOut[i]
    BY <2>1, NotFailed
  <2> QED
    BY <1>1, <2>1, <2>2
<1> QED
  BY <1>2, <1>3, <1>4, <1>5, <1>6, <1>7
  DEF Next, Attempts, Elasticsearch, Server, Await, Finish, Replay, Lost, WriteBatch, Lands,
      EstateChanges, vars

LEMMA EntryFields ==
  ASSUME NEW r, NEW ok, NEW count, r = [ok |-> ok, count |-> count]
  PROVE  r.ok = ok /\ r.count = count
  OBVIOUS

(* A target whose fate is known keeps it, and the workflow sees to itself. *)
LEMMA ClosedStays ==
  ASSUME TypeOK, Attempts \/ Server
  PROVE  UNCHANGED wf /\ \A i \in Target : act[i].st \in Closed => act'[i] = act[i]
<1>0. act \in [Target -> Activity]
  BY DEF TypeOK
<1>1. ASSUME NEW b \in bodies,
             \/ Completes(b) \/ \E late : Lost(b, late)
             \/ \E docs : WriteBatch(b, docs)
             \/ \E cause, docs, late : Fails(b, cause, docs, late)
      PROVE  UNCHANGED wf /\ \A i \in Target : act[i].st \in Closed => act'[i] = act[i]
  BY <1>0, <1>1, BodyType DEF Completes, Lost, WriteBatch, Fails, Current, Closed, activity
<1>2. ASSUME NEW i \in Target, StartAttempt(i) \/ TimesOut(i) \/ Retry(i) \/ Expires(i)
      PROVE  UNCHANGED wf /\ \A j \in Target : act[j].st \in Closed => act'[j] = act[j]
  BY <1>0, <1>2 DEF StartAttempt, TimesOut, Retry, Expires, Closed
<1> QED
  BY <1>1, <1>2 DEF Attempts, Server

LEMMA GatheredStep ==
  ASSUME TypeOK, Scheduled, Gathered, [Next]_vars
  PROVE  Gathered'
<1>0. /\ act \in [Target -> Activity] /\ wf \in Run
      /\ wf.results \in Seq([ok : BOOLEAN, count : Nat])
      /\ DOMAIN wf.results = 1 .. Len(wf.results) /\ Len(wf.results) \in 0..N
  BY AccountScrapeAssumption DEF TypeOK, Run
<1>1. CASE Begin
  BY <1>1 DEF Begin, Fresh, Gathered
<1>2. CASE Await
  <2> DEFINE k == Len(wf.results) + 1
             entry == [ok |-> act[k].st = "completed",
                       count |-> IF act[k].st = "completed" THEN Cardinality(act[k].listed) ELSE 0]
  <2>1. /\ wf'.results = Append(wf.results, entry) /\ act' = act
        /\ k \in Target /\ act[k].st \in Closed
        /\ wf'.failed \in {wf.failed, wf.failed + 1}
    BY <1>2 DEF Await, Next_, activity
  <2>2. /\ DOMAIN wf'.results = 1 .. k /\ Len(wf'.results) = k
        /\ \A i \in 1 .. Len(wf.results) : wf'.results[i] = wf.results[i]
        /\ wf'.results[k] = entry
    <3> HIDE DEF entry
    <3> QED
      BY <1>0, <2>1
  <2>3. wf'.failed <= Len(wf'.results)
    BY <1>0, <2>1, <2>2 DEF Run, Gathered
  <2>4. \A i \in 1 .. Len(wf.results) :
          act'[i].st \in Closed /\ (wf'.results[i].ok <=> act'[i].st = "completed")
    BY <1>0, <2>1, <2>2 DEF Gathered
  <2>5. act'[k].st \in Closed /\ (wf'.results[k].ok <=> act'[k].st = "completed")
    <3>1. wf'.results[k].ok = (act[k].st = "completed")
      BY <2>2, EntryFields
    <3> QED
      BY <2>1, <3>1, Zenon
  <2>6. \A i \in DOMAIN wf'.results : i = k \/ i \in 1 .. Len(wf.results)
    BY <1>0, <2>2
  <2> HIDE DEF k
  <2> QED
    BY <2>3, <2>4, <2>5, <2>6 DEF Gathered
<1>3. CASE Finish
  BY <1>0, <1>3 DEF Finish, Outcome, Run, Gathered, activity
<1>4. CASE Replay
  BY <1>4 DEF Replay, Fresh, Gathered
<1>5. ASSUME UNCHANGED wf, \A i \in Target : act[i].st \in Closed => act'[i] = act[i]
      PROVE  Gathered'
  <2>1. \A i \in DOMAIN wf.results : i \in Target
    BY <1>0, AccountScrapeAssumption DEF Target
  <2>2. \A i \in DOMAIN wf.results : act[i].st \in Closed /\ act'[i] = act[i]
    BY <1>5, <2>1, Zenon DEF Gathered
  <2>3. UNCHANGED <<wf.results, wf.failed>>
    BY <1>5
  <2> QED
    BY <2>2, <2>3, Zenon DEF Gathered
<1>6. CASE Attempts \/ Server
  BY <1>5, <1>6, ClosedStays
<1>7. ASSUME NEW i \in Target, NEW o \in Object, EstateChanges(i, o) PROVE Gathered'
  BY <1>5, <1>7 DEF EstateChanges, activity
<1>8. CASE Elasticsearch \/ UNCHANGED vars
  BY <1>5, <1>8 DEF Elasticsearch, Lands, activity, vars
<1> QED
  BY <1>1, <1>2, <1>3, <1>4, <1>6, <1>7, <1>8 DEF Next

(* What is left of the attempts of a target when one of them ends.         *)
LEMMA ExecutingStep ==
  ASSUME TypeOK, Scheduled, Executing, [Next]_vars
  PROVE  Executing'
<1>0. /\ act \in [Target -> Activity] /\ timedOut \in [Target -> SUBSET (1..MaxAttempts)]
      /\ \A i \in Target : act[i].attempt \in 0..MaxAttempts
      /\ \A b \in bodies : b.target \in Target /\ b.attempt \in 1..MaxAttempts
      /\ \A m \in inflight : m.target \in Target /\ m.attempt \in 1..MaxAttempts
  BY BodyType DEF TypeOK, Activity, Request
<1>1. CASE Begin
  BY <1>1 DEF Begin, Scheduled, Executing, store
<1>2. CASE Await \/ Finish \/ Replay
  BY <1>2 DEF Await, Finish, Replay, Executing, Current, activity, store
<1>3. ASSUME NEW b \in bodies,
             \/ Completes(b)
             \/ \E docs \in SUBSET b.todo, late \in SUBSET b.todo, cause \in {"permission", "other"} :
                  Fails(b, cause, docs, late)
      PROVE  Executing'
  <2>1. /\ bodies' = bodies \ {b} /\ UNCHANGED timedOut
        /\ \A m \in inflight' : m \in inflight \/ (m.target = b.target /\ m.attempt = b.attempt)
    <3>1. CASE Completes(b)
      BY <3>1 DEF Completes, store
    <3>2. ASSUME NEW docs \in SUBSET b.todo, NEW late \in SUBSET b.todo, NEW cause,
                 Fails(b, cause, docs, late)
          PROVE  \A m \in inflight' : m \in inflight \/ (m.target = b.target /\ m.attempt = b.attempt)
      BY <3>2, RequestsLeft DEF Fails
    <3>3. bodies' = bodies \ {b} /\ UNCHANGED timedOut
      BY <1>3 DEF Completes, Fails
    <3> QED
      BY <1>3, <3>1, <3>2, <3>3
  <2>2. \A c \in bodies' : c.target = b.target => c.attempt # b.attempt
    BY <2>1 DEF Executing
  <2>3. \A i \in Target : act'[i].attempt = act[i].attempt
    BY <1>0, <1>3 DEF Completes, Fails, Activity
  <2>4. \A m \in inflight' : m.attempt <= act'[m.target].attempt
    BY <1>0, <2>1, <2>3 DEF Executing
  <2>5. CASE ~Current(b)
    <3>1. act' = act
      BY <1>3, <2>5 DEF Completes, Fails
    <3> QED
      BY <2>1, <2>4, <3>1 DEF Executing, Current
  <2>6. CASE Current(b)
    <3>1. /\ \A i \in Target : i # b.target => act'[i] = act[i]
          /\ act'[b.target].attempt = act[b.target].attempt
          /\ act'[b.target].st \in {"completed", "failed", "backoff"}
      BY <1>0, <1>3, <2>6 DEF Completes, Fails, AfterFailure, Activity
    <3>2. \A c \in bodies' : c.target = b.target => c.attempt \in timedOut'[c.target]
      BY <2>1, <2>2, <2>6 DEF Executing, Current
    <3> QED
      BY <1>0, <2>1, <2>4, <3>1, <3>2 DEF Executing, Current
  <2> QED
    BY <2>5, <2>6
<1>4. ASSUME NEW b \in bodies, NEW late \in SUBSET b.todo, Lost(b, late) PROVE Executing'
  <2>1. bodies' = bodies \ {b} /\ UNCHANGED <<act, timedOut>>
    BY <1>4 DEF Lost, activity
  <2>2. \A m \in inflight' : m.attempt <= act[m.target].attempt
    BY <1>4, RequestsLeft DEF Lost, Executing
  <2> QED
    BY <2>1, <2>2 DEF Executing, Current
<1>5. ASSUME NEW b \in bodies, NEW docs \in SUBSET b.todo, WriteBatch(b, docs) PROVE Executing'
  <2> DEFINE d == [b EXCEPT !.todo = @ \ docs]
  <2>1. d.target = b.target /\ d.attempt = b.attempt
    BY BodyType DEF Body
  <2>2. /\ bodies' = (bodies \ {b}) \cup {d} /\ UNCHANGED <<act, timedOut>>
    BY <1>5 DEF WriteBatch, activity
  <2> HIDE DEF d
  <2>3. \A m \in inflight' : m.attempt <= act[m.target].attempt
    <3>1. PICK again \in {{}, docs} : Leaves(b, again)
      BY <1>5 DEF WriteBatch
    <3> QED
      BY <3>1, RequestsLeft DEF Executing
  <2> QED
    BY <2>1, <2>2, <2>3 DEF Executing, Current
<1>6. ASSUME NEW i \in Target, StartAttempt(i) PROVE Executing'
  <2> DEFINE d == [target |-> i, attempt |-> act[i].attempt, listed |-> estate[i], todo |-> estate[i]]
  <2>1. d.target = i /\ d.attempt = act[i].attempt
    OBVIOUS
  <2>2. /\ bodies' = bodies \cup {d} /\ UNCHANGED <<timedOut, inflight>>
        /\ act[i].st = "scheduled" /\ act'[i].st = "started"
        /\ \A j \in Target : act'[j].attempt = act[j].attempt
        /\ \A j \in Target : j # i => act'[j] = act[j]
    BY <1>0, <1>6 DEF StartAttempt, Activity, store
  <2> HIDE DEF d
  <2>3. \A c \in bodies : c.target = i => c.attempt < act[i].attempt /\ c.attempt \in timedOut[i]
    BY <2>2 DEF Executing, Current
  <2> QED
    BY <1>0, <2>1, <2>2, <2>3 DEF Executing, Current
<1>7. ASSUME NEW i \in Target, TimesOut(i) \/ Expires(i) PROVE Executing'
  <2>1. /\ UNCHANGED <<bodies, inflight>>
        /\ \A j \in Target : act'[j].attempt = act[j].attempt
        /\ \A j \in Target : j # i => act'[j] = act[j]
        /\ act'[i].st \in {"backoff", "failed"}
        /\ \A j \in Target : timedOut[j] \subseteq timedOut'[j]
        /\ act[i].st = "started" => act[i].attempt \in timedOut'[i]
    BY <1>0, <1>7 DEF TimesOut, Expires, Activity, store
  <2> QED
    BY <1>0, <2>1 DEF Executing, Current
<1>8. ASSUME NEW i \in Target, Retry(i) PROVE Executing'
  <2>1. /\ UNCHANGED <<bodies, timedOut, inflight>>
        /\ \A j \in Target : j # i => act'[j] = act[j]
        /\ act[i].st = "backoff" /\ act'[i].attempt = act[i].attempt + 1
    BY <1>0, <1>8 DEF Retry, Activity, store
  <2> QED
    BY <1>0, <2>1 DEF Executing, Current
<1>9. ASSUME NEW i \in Target, NEW o \in Object, EstateChanges(i, o) PROVE Executing'
  BY <1>9 DEF EstateChanges, Executing, Current, activity, store
<1>10. CASE Elasticsearch
  BY <1>10 DEF Elasticsearch, Lands, Executing, Current, activity
<1>11. CASE UNCHANGED vars
  BY <1>11 DEF vars, Executing, Current, activity, store
<1> QED
  BY <1>1, <1>2, <1>3, <1>4, <1>5, <1>6, <1>7, <1>8, <1>9, <1>10, <1>11 DEF Next, Attempts, Server

(* A write leaves a document of a real attempt, never a later one than     *)
(* Temporal knows of.                                                      *)
LEMMA IndexedStored ==
  ASSUME TypeOK, Stored, NEW i \in Target, NEW n \in 1..MaxAttempts, n <= act[i].attempt,
         NEW docs, Indexes(i, n, docs)
  PROVE  /\ \A j \in Target, o \in Object : index[j][o] # 0 => index'[j][o] # 0
         /\ \A j \in Target, o \in Object : index'[j][o] <= act[j].attempt
         /\ \A o \in Object \cap docs : index'[i][o] # 0
<1>1. index \in [Target -> [Object -> 0..MaxAttempts]]
  BY DEF TypeOK
<1>2. \A j \in Target, o \in Object :
        index'[j][o] = IF j = i /\ o \in docs THEN n ELSE index[j][o]
  BY <1>1 DEF Indexes
<1> QED
  BY <1>2, AccountScrapeAssumption DEF Stored

LEMMA StoredStep ==
  ASSUME TypeOK, Scheduled, Executing, Stored, [Next]_vars
  PROVE  Stored'
<1>0. /\ act \in [Target -> Activity] /\ \A i \in Target : act[i].attempt \in 0..MaxAttempts
      /\ index \in [Target -> [Object -> 0..MaxAttempts]]
      /\ \A b \in bodies : /\ b.target \in Target /\ b.attempt \in 1..MaxAttempts
                           /\ b.listed \subseteq Object
  BY BodyType DEF TypeOK, Activity, Body
<1>1. CASE Begin
  <2>1. \A i \in Target : act[i].st = "none" /\ act[i].attempt = 0
    BY <1>0, <1>1 DEF Begin, Scheduled
  <2>2. \A i \in Target : act'[i].st = "scheduled" /\ act'[i].attempt = 1
    BY <1>1 DEF Begin, Untried
  <2> QED
    BY <1>0, <1>1, <2>1, <2>2 DEF Begin, Stored, store
<1>2. CASE Await \/ Finish \/ Replay
  BY <1>2 DEF Await, Finish, Replay, Stored, activity, store
<1>3. ASSUME NEW b \in bodies, Completes(b) PROVE Stored'
  <2>1. /\ bodies' = bodies \ {b} /\ UNCHANGED index
        /\ \A o \in b.listed : index[b.target][o] # 0
    BY <1>3 DEF Completes, Stored, store
  <2>2. CASE ~Current(b)
    <3>1. act' = act
      BY <1>3, <2>2 DEF Completes
    <3> QED
      BY <2>1, <3>1 DEF Stored
  <2>3. CASE Current(b)
    <3>1. /\ \A i \in Target : i # b.target => act'[i] = act[i]
          /\ act'[b.target].attempt = act[b.target].attempt
          /\ act'[b.target].listed = b.listed
      BY <1>0, <1>3, <2>3 DEF Completes, Activity
    <3> QED
      BY <1>0, <2>1, <3>1 DEF Stored
  <2> QED
    BY <2>2, <2>3
<1>4. ASSUME NEW b \in bodies, NEW docs \in SUBSET b.todo,
             NEW cause, NEW late, Fails(b, cause, docs, late)
      PROVE  Stored'
  <2>1. bodies' = bodies \ {b} /\ Indexes(b.target, b.attempt, docs)
    BY <1>4 DEF Fails
  <2>2. \A i \in Target : /\ act'[i].attempt = act[i].attempt
                          /\ act'[i].st = "completed" => act'[i] = act[i]
    BY <1>0, <1>4 DEF Fails, AfterFailure, Activity
  <2>3. /\ \A i \in Target, o \in Object : index[i][o] # 0 => index'[i][o] # 0
        /\ \A i \in Target, o \in Object : index'[i][o] <= act[i].attempt
    BY <1>0, <2>1, IndexedStored DEF Executing
  <2>4. \A i \in Target : act[i].listed \subseteq Object
    BY <1>0 DEF Activity
  <2> QED
    BY <1>0, <2>1, <2>2, <2>3, <2>4 DEF Stored
<1>5. ASSUME NEW b \in bodies, NEW late, Lost(b, late) PROVE Stored'
  BY <1>5 DEF Lost, Stored, activity
<1>6. ASSUME NEW b \in bodies, NEW docs \in SUBSET b.todo, WriteBatch(b, docs) PROVE Stored'
  <2> DEFINE d == [b EXCEPT !.todo = @ \ docs]
  <2>1. d.target = b.target /\ d.listed = b.listed /\ d.todo = b.todo \ docs
    BY BodyType DEF Body
  <2>2. /\ bodies' = (bodies \ {b}) \cup {d} /\ UNCHANGED act
        /\ Indexes(b.target, b.attempt, docs)
    BY <1>6 DEF WriteBatch, activity
  <2> HIDE DEF d
  <2>3. /\ \A i \in Target, o \in Object : index[i][o] # 0 => index'[i][o] # 0
        /\ \A i \in Target, o \in Object : index'[i][o] <= act[i].attempt
        /\ \A o \in Object \cap docs : index'[b.target][o] # 0
    BY <1>0, <2>2, IndexedStored DEF Executing
  <2>4. \A i \in Target : act[i].listed \subseteq Object
    BY <1>0 DEF Activity
  <2>5. \A o \in d.listed \ d.todo : index'[d.target][o] # 0
    BY <1>0, <2>1, <2>3 DEF Stored
  <2>6. \A c \in bodies : \A o \in c.listed \ c.todo : index'[c.target][o] # 0
    BY <1>0, <2>3 DEF Stored
  <2> QED
    BY <2>2, <2>3, <2>4, <2>5, <2>6 DEF Stored
<1>7. ASSUME NEW i \in Target, StartAttempt(i) PROVE Stored'
  <2>1. \A j \in Target : /\ act'[j].attempt = act[j].attempt
                          /\ act'[j].st = "completed" => act'[j] = act[j]
    BY <1>0, <1>7 DEF StartAttempt, Activity
  <2>2. \A c \in bodies' : c \in bodies \/ c.listed = c.todo
    BY <1>7 DEF StartAttempt
  <2> QED
    BY <1>7, <2>1, <2>2 DEF StartAttempt, Stored, store
<1>8. ASSUME NEW i \in Target, TimesOut(i) \/ Retry(i) \/ Expires(i) PROVE Stored'
  <2>1. \A j \in Target : /\ act'[j].attempt \in {act[j].attempt, act[j].attempt + 1}
                          /\ act'[j].st = "completed" => act'[j] = act[j]
    BY <1>0, <1>8 DEF TimesOut, Retry, Expires, Activity
  <2>2. UNCHANGED <<bodies, index>>
    BY <1>8 DEF TimesOut, Retry, Expires, store
  <2>3. \A j \in Target, o \in Object : index[j][o] <= act'[j].attempt
    BY <1>0, <2>1 DEF Stored
  <2> QED
    BY <2>1, <2>2, <2>3 DEF Stored
<1>9. ASSUME NEW i \in Target, NEW o \in Object, EstateChanges(i, o) PROVE Stored'
  BY <1>9 DEF EstateChanges, Stored, activity, store
<1>10. ASSUME NEW m \in inflight, NEW docs, Lands(m, docs) PROVE Stored'
  <2>1. m.target \in Target /\ m.attempt \in 1..MaxAttempts /\ m.attempt <= act[m.target].attempt
    BY DEF TypeOK, Request, Executing
  <2>2. Indexes(m.target, m.attempt, docs) /\ UNCHANGED <<bodies, act>>
    BY <1>10 DEF Lands, activity
  <2>3. /\ \A j \in Target, o \in Object : index[j][o] # 0 => index'[j][o] # 0
        /\ \A j \in Target, o \in Object : index'[j][o] <= act[j].attempt
    BY <2>1, <2>2, IndexedStored
  <2>4. \A i \in Target : act[i].listed \subseteq Object
    BY <1>0 DEF Activity
  <2> QED
    BY <1>0, <2>2, <2>3, <2>4 DEF Stored
<1>11. CASE UNCHANGED vars
  BY <1>11 DEF vars, Stored, activity, store
<1> QED
  BY <1>1, <1>2, <1>3, <1>4, <1>5, <1>6, <1>7, <1>8, <1>9, <1>10, <1>11
  DEF Next, Attempts, Elasticsearch, Server

-----------------------------------------------------------------------------
LEMMA Invariance == Spec => []RunInv
<1>1. Init => RunInv
  BY InitInv
<1>2. RunInv /\ [Next]_vars => RunInv'
  BY TypeStep, ScheduledStep, ExecutingStep, AwaitedStep, StoredStep, GatheredStep, DenialStep
  DEF RunInv
<1> QED
  BY <1>1, <1>2, PTL DEF Spec

(* The variables of a run keep their types, however many attempts there    *)
(* are and however often the workflow is replayed.                         *)
THEOREM TypeCorrect == Spec => []TypeOK
<1>1. RunInv => TypeOK
  BY DEF RunInv
<1> QED
  BY <1>1, Invariance, PTL

(* A permission error of the attempt Temporal waits for ends its target at *)
(* once; nothing else does, but the end of its hour, however many attempts *)
(* that were written off still run and whatever they return.               *)
THEOREM DenialsDecide == Spec => []DenialDecides
<1>1. RunInv => DenialDecides
  BY DEF RunInv
<1> QED
  BY <1>1, Invariance, PTL

(* The documents of every count the workflow reports are in the store,     *)
(* whatever attempts that had been written off did to the index.           *)
THEOREM CountsAreStored == Spec => []ReportedMeansStored
<1>1. RunInv => ReportedMeansStored
  <2> SUFFICES ASSUME RunInv, NEW i \in DOMAIN wf.results, wf.results[i].ok,
                      NEW o \in act[i].listed
      PROVE  index[i][o] # 0
    BY DEF ReportedMeansStored
  <2>1. i \in Target /\ act[i].st = "completed"
    <3>1. wf.results \in Seq([ok : BOOLEAN, count : Nat]) /\ Len(wf.results) \in 0..N
      BY AccountScrapeAssumption DEF RunInv, TypeOK, Run
    <3>2. i \in 1..N
      BY <3>1, AccountScrapeAssumption
    <3> QED
      BY <3>2, Zenon DEF RunInv, Gathered, Target
  <2> QED
    BY <2>1 DEF RunInv, Stored
<1> QED
  BY <1>1, Invariance, PTL

(* A document goes back to an earlier attempt only by one that Temporal    *)
(* wrote off while it was running, or by a request whose answer was lost.  *)
THEOREM StaleWritesExplained == Spec => StaleWriteHasCause
<1>1. ASSUME RunInv, [Next]_vars, NEW i \in Target, NEW o \in Object, index'[i][o] < index[i][o]
      PROVE  \/ index'[i][o] \in timedOut[i]
             \/ \E m \in inflight : m.target = i /\ m.attempt = index'[i][o] /\ o \in m.docs
  <2>0. /\ index \in [Target -> [Object -> 0..MaxAttempts]]
        /\ index[i][o] \in Nat /\ index[i][o] <= act[i].attempt
    BY <1>1, AccountScrapeAssumption DEF RunInv, TypeOK, Stored
  <2>1. ASSUME NEW j \in Target, NEW n, NEW docs, Indexes(j, n, docs)
        PROVE  j = i /\ n = index'[i][o] /\ o \in docs
    BY <1>1, <2>0, <2>1 DEF Indexes
  <2>2. ASSUME NEW b \in bodies, NEW docs, Indexes(b.target, b.attempt, docs)
        PROVE  index'[i][o] \in timedOut[i]
    <3>1. b.target = i /\ b.attempt = index'[i][o] /\ b.attempt \in Nat /\ act[i].attempt \in Nat
      BY <1>1, <2>1, <2>2, BodyType, AccountScrapeAssumption DEF RunInv, Activity
    <3>2. b.attempt # act[b.target].attempt
      BY <1>1, <2>0, <3>1
    <3> QED
      BY <1>1, <3>1, <3>2 DEF RunInv, Executing, Current
  <2>3. ASSUME NEW m \in inflight, NEW docs \in SUBSET m.docs, Indexes(m.target, m.attempt, docs)
        PROVE  m.target = i /\ m.attempt = index'[i][o] /\ o \in m.docs
    <3>1. m.target \in Target
      BY <1>1 DEF RunInv, TypeOK, Request
    <3> QED
      BY <2>1, <2>3, <3>1
  <2>4. \/ \E b \in bodies : \E docs : Indexes(b.target, b.attempt, docs)
        \/ \E m \in inflight : \E docs \in SUBSET m.docs : Indexes(m.target, m.attempt, docs)
        \/ index' = index
    BY <1>1
    DEF Next, vars, store, Begin, Await, Finish, Replay, Attempts, Completes, Lost, WriteBatch,
        Fails, Elasticsearch, Lands, Server, StartAttempt, TimesOut, Retry, Expires, EstateChanges
  <2>5. index' # index
    BY <1>1, <2>0
  <2> QED
    BY <2>2, <2>3, <2>4, <2>5
<1>2. RunInv /\ [Next]_vars =>
        [\A i \in Target, o \in Object : index'[i][o] < index[i][o] =>
           \/ index'[i][o] \in timedOut[i]
           \/ \E m \in inflight : m.target = i /\ m.attempt = index'[i][o] /\ o \in m.docs]_vars
  BY <1>1
<1> QED
  BY <1>2, Invariance, PTL DEF Spec, StaleWriteHasCause

-----------------------------------------------------------------------------
(* The answer of the workflow.  The number of failures is that of the      *)
(* targets whose future gave an error, which decides how the run ends.     *)
FailedSoFar == {i \in DOMAIN wf.results : act[i].st = "failed"}

Tally ==
  /\ wf.failed = Cardinality(FailedSoFar)
  /\ wf.status = "new" => wf.results = <<>>
  /\ wf.status \in Closed => Len(wf.results) = N
  /\ ResultIsFaithful

LEMMA Indices ==
  ASSUME TypeOK
  PROVE  /\ wf.results \in Seq([ok : BOOLEAN, count : Nat])
         /\ DOMAIN wf.results = 1 .. Len(wf.results) /\ Len(wf.results) \in 0..N
         /\ DOMAIN wf.results \subseteq Target
         /\ IsFiniteSet(DOMAIN wf.results) /\ Cardinality(DOMAIN wf.results) = Len(wf.results)
<1>1. /\ wf.results \in Seq([ok : BOOLEAN, count : Nat])
      /\ DOMAIN wf.results = 1 .. Len(wf.results) /\ Len(wf.results) \in 0..N
  BY AccountScrapeAssumption DEF TypeOK, Run
<1>2. DOMAIN wf.results \subseteq Target
  BY <1>1, AccountScrapeAssumption DEF Target
<1>3. /\ IsFiniteSet(1 .. Len(wf.results))
      /\ Cardinality(1 .. Len(wf.results)) = Len(wf.results)
  BY <1>1, FS_Interval
<1> QED
  BY <1>1, <1>2, <1>3

LEMMA CountsAreNat ==
  ASSUME TypeOK
  PROVE  \A i \in Target : Counts[i] = Count(i) /\ Counts[i] \in Nat
  BY CountIsNat DEF Counts, Count

LEMMA TargetFinite == IsFiniteSet(Target) /\ Cardinality(Target) = N
  BY AccountScrapeAssumption, FS_Interval DEF Target

(* Nothing about a target that has been recorded changes any more.         *)
LEMMA TallyKept ==
  ASSUME TypeOK, TypeOK', Tally, UNCHANGED wf,
         \A i \in Target : act[i].st \in Closed => act'[i] = act[i]
  PROVE  Tally'
<1>1. \A i \in DOMAIN wf.results : act'[i] = act[i]
  BY Indices DEF Tally, ResultIsFaithful
<1>2. FailedSoFar' = FailedSoFar
  BY <1>1 DEF FailedSoFar
<1>3. \A i \in DOMAIN wf.results : Counts[i] \in Nat /\ Counts'[i] = Counts[i]
  BY <1>1, Indices, CountsAreNat DEF Counts, Count
<1>4. SumFunctionOnSet(Counts', DOMAIN wf.results) = SumFunctionOnSet(Counts, DOMAIN wf.results)
  BY <1>3, Indices, SumOfSame
<1>5. \A i \in DOMAIN wf.results : Verdict(i)' = Verdict(i)
  BY <1>1 DEF Verdict, Count
<1>6. DOMAIN wf.results = Target =>
        ((\A i \in Target : act[i].st = "failed") <=> (\A i \in Target : act'[i].st = "failed"))
  BY <1>1
<1> QED
  BY <1>1, <1>2, <1>4, <1>5, <1>6 DEF Tally, ResultIsFaithful

(* Nothing is recorded: before the workflow begins, and after a replay.    *)
LEMMA TallyOfNone ==
  ASSUME wf.results = <<>>, wf.count = 0, wf.failed = 0, wf.status \in {"new", "running"}
  PROVE  Tally
<1>1. DOMAIN wf.results = {}
  OBVIOUS
<1>2. FailedSoFar = {}
  BY <1>1 DEF FailedSoFar
<1>3. Cardinality(FailedSoFar) = 0
  BY <1>2, FS_EmptySet
<1>4. SumFunctionOnSet(Counts, DOMAIN wf.results) = 0
  BY <1>1, SumOfNone
<1> QED
  BY <1>1, <1>3, <1>4 DEF Tally, ResultIsFaithful, Closed

(* A future that has been awaited.                                         *)
LEMMA TallyOfOneMore ==
  ASSUME TypeOK, Tally, Await
  PROVE  Tally'
<1> DEFINE k == Len(wf.results) + 1
           old == DOMAIN wf.results
<1>1. /\ wf.status = "running" /\ wf'.status = "running" /\ act' = act
      /\ k \in Target /\ act[k].st \in Closed
      /\ wf'.results = Append(wf.results, Verdict(k))
      /\ wf'.count = wf.count + Count(k)
      /\ wf'.failed = IF act[k].st = "completed" THEN wf.failed ELSE wf.failed + 1
  BY DEF Await, Next_, Verdict, Count, activity
<1>2. old = 1 .. Len(wf.results) /\ Len(wf.results) \in Nat /\ IsFiniteSet(old) /\ old \subseteq Target
  BY Indices, AccountScrapeAssumption
<1>3. /\ DOMAIN wf'.results = old \cup {k} /\ k \notin old
      /\ wf'.results[k] = Verdict(k)
      /\ \A i \in old : wf'.results[i] = wf.results[i]
  BY <1>1, <1>2, Indices
<1> HIDE DEF k, old
<1>4. wf'.count = SumFunctionOnSet(Counts, old \cup {k})
  <2>1. SumFunctionOnSet(Counts, old \cup {k}) = SumFunctionOnSet(Counts, old) + Counts[k]
    <3>1. \A i \in old : Counts[i] \in Nat
      BY <1>2, CountsAreNat
    <3>2. k \notin old /\ Counts[k] \in Nat
      BY <1>1, <1>3, CountsAreNat
    <3> QED
      BY <1>2, <3>1, <3>2, SumOfOneMore
  <2>2. Counts[k] = Count(k)
    BY <1>1, CountsAreNat
  <2>3. wf.count = SumFunctionOnSet(Counts, old)
    BY DEF Tally, ResultIsFaithful, old
  <2> QED
    BY <1>1, <2>1, <2>2, <2>3
<1>5. wf'.failed = Cardinality(FailedSoFar')
  <2>1. IsFiniteSet(FailedSoFar) /\ k \notin FailedSoFar
    BY <1>2, <1>3, FS_Subset DEF FailedSoFar, old
  <2>2. FailedSoFar' = IF act[k].st = "completed" THEN FailedSoFar ELSE FailedSoFar \cup {k}
    BY <1>1, <1>3 DEF FailedSoFar, old, Closed
  <2>3. Cardinality(FailedSoFar \cup {k}) = Cardinality(FailedSoFar) + 1
    BY <2>1, FS_AddElement
  <2> QED
    BY <1>1, <2>2, <2>3 DEF Tally
<1>6. Counts' = Counts /\ \A i \in Target : Verdict(i)' = Verdict(i)
  BY <1>1 DEF Counts, Verdict, Count
<1>7. \A i \in DOMAIN wf'.results : act'[i].st \in Closed /\ wf'.results[i] = Verdict(i)'
  <2>1. \A i \in old : act[i].st \in Closed /\ wf.results[i] = Verdict(i)
    BY DEF Tally, ResultIsFaithful, old
  <2> QED
    BY <1>1, <1>2, <1>3, <1>6, <2>1
<1> QED
  BY <1>1, <1>3, <1>4, <1>5, <1>6, <1>7 DEF Tally, ResultIsFaithful, Closed

(* The end of the run.                                                     *)
LEMMA TallyClosed ==
  ASSUME TypeOK, Scheduled, Tally, Finish
  PROVE  Tally'
<1>1. /\ wf \in Run /\ wf' = [wf EXCEPT !.status = Outcome] /\ act' = act
      /\ Len(wf.results) = N
  BY DEF Finish, TypeOK, activity
<1>2. /\ wf'.status = Outcome /\ wf'.results = wf.results
      /\ wf'.count = wf.count /\ wf'.failed = wf.failed
  BY <1>1 DEF Run
<1>3. DOMAIN wf.results = Target
  BY <1>1, Indices DEF Target
<1>4. wf.failed = N <=> \A i \in Target : act[i].st = "failed"
  <2>1. FailedSoFar \in SUBSET Target
    BY <1>3 DEF FailedSoFar
  <2>2. Cardinality(FailedSoFar) = N <=> FailedSoFar = Target
    BY <2>1, TargetFinite, FS_Subset
  <2>3. FailedSoFar = Target <=> \A i \in Target : act[i].st = "failed"
    BY <1>3 DEF FailedSoFar
  <2> QED
    BY <2>2, <2>3 DEF Tally
<1>5. Outcome \in Closed /\ (Outcome = "failed" <=> N > 0 /\ \A i \in Target : act[i].st = "failed")
  BY <1>4, AccountScrapeAssumption DEF Outcome, Closed
<1>6. /\ FailedSoFar' = FailedSoFar /\ Counts' = Counts
      /\ \A i \in Target : Verdict(i)' = Verdict(i)
  BY <1>1, <1>2 DEF FailedSoFar, Counts, Verdict, Count
<1>7. ResultIsFaithful'
  BY <1>1, <1>2, <1>3, <1>5, <1>6 DEF Tally, ResultIsFaithful
<1> QED
  BY <1>1, <1>2, <1>5, <1>6, <1>7 DEF Tally, Closed

(* After Begin and after Replay nothing is recorded yet.                   *)
LEMMA TallyReset ==
  ASSUME Begin \/ Replay
  PROVE  Tally'
<1>1. wf'.results = <<>> /\ wf'.count = 0 /\ wf'.failed = 0 /\ wf'.status = "running"
  BY DEF Begin, Replay, Fresh
<1>2. DOMAIN wf'.results = {}
  BY <1>1
<1>3. FailedSoFar' = {}
  BY <1>2 DEF FailedSoFar
<1>4. Cardinality(FailedSoFar') = 0
  BY <1>3, FS_EmptySet
<1>5. SumFunctionOnSet(Counts', DOMAIN wf'.results) = 0
  BY <1>2, SumOfNone
<1> QED
  BY <1>1, <1>2, <1>4, <1>5 DEF Tally, ResultIsFaithful, Closed

LEMMA TallyStep ==
  ASSUME RunInv, RunInv', Tally, [Next]_vars
  PROVE  Tally'
<1>0. TypeOK /\ TypeOK' /\ Scheduled
  BY DEF RunInv
<1>1. CASE Begin \/ Replay
  BY <1>1, TallyReset
<1>2. CASE Await
  BY <1>0, <1>2, TallyOfOneMore
<1>3. CASE Finish
  BY <1>0, <1>3, TallyClosed
<1>4. CASE Attempts \/ Server
  BY <1>0, <1>4, ClosedStays, TallyKept
<1>5. ASSUME UNCHANGED <<wf, act>> PROVE Tally'
  BY <1>0, <1>5, TallyKept
<1>6. CASE Elasticsearch \/ UNCHANGED vars
  BY <1>5, <1>6 DEF Elasticsearch, Lands, vars, activity
<1>7. ASSUME NEW i \in Target, NEW o \in Object, EstateChanges(i, o) PROVE Tally'
  BY <1>5, <1>7 DEF EstateChanges, activity
<1> QED
  BY <1>1, <1>2, <1>3, <1>4, <1>6, <1>7 DEF Next

LEMMA TallyInvariance == Spec => []Tally
<1>1. Init => Tally
  BY TallyOfNone DEF Init, Fresh
<1>2. RunInv /\ RunInv' /\ Tally /\ [Next]_vars => Tally'
  BY TallyStep
<1> QED
  BY <1>1, <1>2, Invariance, PTL DEF Spec

(* However the attempts of an account interleave and however often its     *)
(* workflow is replayed, result k is what became of target k, the total is *)
(* the sum of the counts, and the run fails only when every target did.    *)
THEOREM AnswerIsFaithful == Spec => []ResultIsFaithful
<1>1. Tally => ResultIsFaithful
  BY DEF Tally
<1> QED
  BY <1>1, TallyInvariance, PTL

-----------------------------------------------------------------------------
(* A run as RunContract sees it: the fate of each target, and the answer.  *)
Fate == [i \in Target |-> IF act[i].st \in Closed THEN {Verdict(i)} ELSE {}]
Answer == IF wf.status \in Closed THEN {[count |-> wf.count, failed |-> wf.failed]} ELSE {}

(* The contract counts and sums as the run does.                           *)
LEMMA SameCardinality ==
  ASSUME NEW S
  PROVE  Contract!Cardinality(S) = Cardinality(S)
  BY DEF Contract!Cardinality, Cardinality

LEMMA SameSum ==
  ASSUME NEW f, NEW S
  PROVE  Contract!SumFunctionOnSet(f, S) = SumFunctionOnSet(f, S)
  BY DEF Contract!SumFunctionOnSet, Contract!FoldFunctionOnSet, Contract!MapThenFoldSet,
         SumFunctionOnSet, FoldFunctionOnSet, MapThenFoldSet

(* A step of an attempt or of the server concerns one activity.            *)
LEMMA OneActivity ==
  ASSUME TypeOK, Attempts \/ Server
  PROVE  \E i \in Target : \A j \in Target \ {i} : act'[j] = act[j]
<1>0. act \in [Target -> Activity]
  BY DEF TypeOK
<1>1. ASSUME NEW b \in bodies,
             \/ Completes(b) \/ \E late : Lost(b, late)
             \/ \E docs : WriteBatch(b, docs)
             \/ \E cause, docs, late : Fails(b, cause, docs, late)
      PROVE  b.target \in Target /\ \A j \in Target \ {b.target} : act'[j] = act[j]
  BY <1>0, <1>1, BodyType DEF Completes, Lost, WriteBatch, Fails, activity
<1>2. ASSUME NEW i \in Target, StartAttempt(i) \/ TimesOut(i) \/ Retry(i) \/ Expires(i)
      PROVE  \A j \in Target \ {i} : act'[j] = act[j]
  BY <1>0, <1>2 DEF StartAttempt, TimesOut, Retry, Expires
<1> QED
  BY <1>1, <1>2 DEF Attempts, Server

(* They happen while the workflow waits.                                   *)
LEMMA OnlyWhileRunning ==
  ASSUME TypeOK, Scheduled, Attempts \/ Server
  PROVE  wf.status # "new"
<1>1. ASSUME NEW i \in Target, StartAttempt(i) \/ TimesOut(i) \/ Retry(i) \/ Expires(i)
      PROVE  wf.status # "new"
  BY <1>1 DEF StartAttempt, TimesOut, Retry, Expires, Scheduled
<1>2. ASSUME NEW b \in bodies PROVE wf.status # "new"
  BY <1>2 DEF Scheduled
<1> QED
  BY <1>1, <1>2 DEF Attempts, Server

(* What is recorded of an activity is a verdict of the contract.           *)
LEMMA VerdictType ==
  ASSUME NEW a \in Activity, NEW count,
         count = IF a.st = "completed" THEN Cardinality(a.listed) ELSE 0
  PROVE  [ok |-> a.st = "completed", count |-> count] \in Contract!Verdict
<1>1. CASE a.st = "completed"
  <2>1. a.listed \in SUBSET Object
    BY DEF Activity
  <2>2. /\ Cardinality(a.listed) \in Nat /\ Cardinality(Object) \in Nat
        /\ Cardinality(a.listed) <= Cardinality(Object)
    BY <2>1, AccountScrapeAssumption, FS_Subset, FS_CardinalityType
  <2>3. (a.st = "completed") = TRUE /\ count \in 0..Cardinality(Object)
    BY <1>1, <2>2
  <2> QED
    BY <2>3, SameCardinality DEF Contract!Verdict
<1>2. CASE a.st # "completed"
  <2>1. (a.st = "completed") = FALSE /\ count = 0
    BY <1>2
  <2> QED
    BY <2>1 DEF Contract!Verdict
<1> QED
  BY <1>1, <1>2

LEMMA ContractInit == Init => Contract!Init
<1> SUFFICES ASSUME Init PROVE Contract!Init
  OBVIOUS
<1>1. \A i \in Target : act[i].st = "none"
  BY DEF Init, Untried
<1>2. wf.status = "new"
  BY DEF Init, Fresh
<1> QED
  BY <1>1, <1>2 DEF Contract!Init, Closed

LEMMA DecideStep ==
  ASSUME RunInv, RunInv', Tally, Attempts \/ Server
  PROVE  (\E i \in Target : Contract!Decide(i)) \/ UNCHANGED Contract!vars
<1>0. TypeOK /\ TypeOK' /\ Scheduled
  BY DEF RunInv
<1>1. UNCHANGED wf /\ \A j \in Target : act[j].st \in Closed => act'[j] = act[j]
  BY <1>0, ClosedStays
<1>2. PICK i \in Target : \A j \in Target \ {i} : act'[j] = act[j]
  BY <1>0, OneActivity
<1>3. \A j \in Target : act'[j] = act[j] => Fate'[j] = Fate[j]
  BY DEF Fate, Verdict, Count
<1>4. UNCHANGED Answer
  BY <1>1 DEF Answer
<1>5. CASE act[i].st \notin Closed /\ act'[i].st \in Closed
  <2>1. wf.status = "running"
    <3>1. wf.status \notin Closed
      <4>1. SUFFICES ASSUME wf.status \in Closed PROVE FALSE
        OBVIOUS
      <4>2. DOMAIN wf.results = Target /\ act[i].st \in Closed
        BY <4>1 DEF Tally, ResultIsFaithful, Closed
      <4> QED
        BY <1>5, <4>2
    <3> QED
      BY <1>0, <3>1, OnlyWhileRunning DEF TypeOK, Run
  <2>2. Fate[i] = {} /\ Fate'[i] = {Verdict(i)'}
    BY <1>5 DEF Fate
  <2>3. Verdict(i)' \in Contract!Verdict
    <3>1. act'[i] \in Activity
      BY <1>0 DEF TypeOK
    <3> QED
      BY <3>1, VerdictType DEF Verdict, Count
  <2>4. Fate' = [Fate EXCEPT ![i] = {Verdict(i)'}]
    BY <1>2, <1>3, <2>2 DEF Fate
  <2>5. Contract!Decide(i)
    BY <1>1, <1>4, <2>1, <2>2, <2>3, <2>4 DEF Contract!Decide, Fate, Answer
  <2> QED
    BY <2>5
<1>6. CASE ~(act[i].st \notin Closed /\ act'[i].st \in Closed)
  <2>1. Fate'[i] = Fate[i]
    BY <1>1, <1>3, <1>6 DEF Fate
  <2>2. Fate' = Fate
    BY <1>2, <1>3, <2>1 DEF Fate
  <2> QED
    BY <1>1, <1>4, <2>2 DEF Contract!vars, Fate, Answer
<1> QED
  BY <1>5, <1>6

LEMMA CloseStep ==
  ASSUME RunInv, RunInv', Tally, Tally', Finish
  PROVE  Contract!Close
<1>0. TypeOK /\ TypeOK'
  BY DEF RunInv
<1>1. /\ wf.status = "running" /\ wf'.status \in Closed /\ act' = act
      /\ wf'.count = wf.count /\ wf'.failed = wf.failed /\ wf'.results = wf.results
  BY <1>0 DEF Finish, Outcome, Closed, TypeOK, Run, activity
<1>2. DOMAIN wf.results = Target
  BY <1>1 DEF Tally, ResultIsFaithful, Closed
<1>3. \A i \in Target : act[i].st \in Closed
  BY <1>2 DEF Tally, ResultIsFaithful
<1>4. Fate' = Fate /\ Fate = [i \in Target |-> {Verdict(i)}]
  BY <1>1, <1>3 DEF Fate, Verdict, Count
<1>5. Contract!Failed = {i \in Target : act[i].st = "failed"}
  <2>1. \A i \in Target : Verdict(i).ok = (act[i].st = "completed")
    BY EntryFields DEF Verdict
  <2>2. \A i \in Target : ~Verdict(i).ok <=> act[i].st = "failed"
    BY <1>3, <2>1 DEF Closed
  <2>3. Contract!Failed = {i \in Target : \E v \in Fate[i] : ~v.ok}
    BY DEF Contract!Failed, Fate
  <2> QED
    BY <1>4, <2>2, <2>3
<1>6. Contract!Given = [i \in Target |-> Count(i)]
  <2>1. \A i \in Target : Verdict(i).count = Count(i)
    BY EntryFields DEF Verdict
  <2>2. Contract!Given = [i \in Target |-> (CHOOSE v \in Fate[i] : TRUE).count]
    BY DEF Contract!Given, Fate
  <2> QED
    BY <1>4, <2>1, <2>2
<1>7. wf.count = SumFunctionOnSet(Contract!Given, Target)
  BY <1>2, <1>6 DEF Tally, ResultIsFaithful, Counts
<1>8. wf.failed = Cardinality(Contract!Failed)
  BY <1>2, <1>5 DEF Tally, FailedSoFar
<1>9. wf'.status = IF Contract!Failed = Target /\ Target # {} THEN "failed" ELSE "completed"
  <2>1. wf'.status = "failed" <=> N > 0 /\ \A i \in Target : act[i].st = "failed"
    BY <1>1 DEF Tally, ResultIsFaithful, Closed
  <2>2. N > 0 <=> Target # {}
    BY AccountScrapeAssumption DEF Target
  <2> QED
    BY <1>1, <1>5, <2>1, <2>2 DEF Closed
<1>10. Answer' = {[count |-> SumFunctionOnSet(Contract!Given, Target),
                   failed |-> Cardinality(Contract!Failed)]}
  BY <1>1, <1>7, <1>8 DEF Answer, Closed
<1>11. \A i \in Target : Fate[i] # {}
  BY <1>4
<1> QED
  BY <1>1, <1>4, <1>9, <1>10, <1>11, SameSum, SameCardinality DEF Contract!Close, Fate, Answer

LEMMA ContractStep ==
  ASSUME RunInv, RunInv', Tally, Tally', [Next]_vars
  PROVE  [Contract!Next]_(Contract!vars)
<1>1. CASE Begin
  <2>1. /\ wf.status = "new" /\ wf'.status = "running"
        /\ \A i \in Target : act[i].st \notin Closed /\ act'[i].st \notin Closed
    BY <1>1 DEF Begin, Fresh, Untried, RunInv, Scheduled, Closed
  <2> QED
    BY <2>1 DEF Contract!Next, Contract!Start, Closed
<1>2. ASSUME UNCHANGED act, wf'.status = wf.status, wf.status \in Closed => UNCHANGED wf
      PROVE  UNCHANGED Contract!vars
  <2>1. Fate' = Fate /\ Answer' = Answer
    BY <1>2 DEF Fate, Answer, Verdict, Count
  <2> QED
    BY <1>2, <2>1 DEF Contract!vars, Fate, Answer
<1>3. CASE Await \/ Replay
  BY <1>2, <1>3 DEF Await, Replay, Fresh, Closed, activity
<1>4. CASE Finish
  BY <1>4, CloseStep DEF Contract!Next
<1>5. CASE Attempts \/ Server
  BY <1>5, DecideStep DEF Contract!Next
<1>6. ASSUME NEW i \in Target, NEW o \in Object, EstateChanges(i, o)
      PROVE  UNCHANGED Contract!vars
  BY <1>2, <1>6 DEF EstateChanges, activity
<1>7. CASE Elasticsearch \/ UNCHANGED vars
  BY <1>2, <1>7 DEF Elasticsearch, Lands, vars, activity
<1> QED
  BY <1>1, <1>3, <1>4, <1>5, <1>6, <1>7 DEF Next

(* The run implements its contract: retries, written-off attempts and      *)
(* replays never change a verdict, and the answer is given once.           *)
THEOREM RunKeepsContract == Spec => KeepsContract
<1>1. Init => Contract!Init
  BY ContractInit
<1>2. RunInv /\ RunInv' /\ Tally /\ Tally' /\ [Next]_vars => [Contract!Next]_(Contract!vars)
  BY ContractStep
<1> QED
  BY <1>1, <1>2, Invariance, TallyInvariance, PTL DEF Spec, KeepsContract, Contract!Spec
=============================================================================
