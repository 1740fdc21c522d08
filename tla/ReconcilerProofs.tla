-------------------------- MODULE ReconcilerProofs --------------------------
(***************************************************************************)
(* What the reconciler guarantees for every set of replicas, accounts and  *)
(* configurations, every content of the namespace and any number of        *)
(* faults.                                                                 *)
(***************************************************************************)
EXTENDS Reconciler, TLAPS

(* Apply only asks for schedules under its prefixes, and what it puts into *)
(* them are settings of the configuration.                                 *)
LEMMA DesiredOwned ==
  ASSUME NEW c \in Config
  PROVE  /\ Desired(c) \subseteq Owned
         /\ \A id \in Owned : Input(c, id) \in Rev
<1>1. Desired(c) \subseteq Owned
  BY ReconcilerAssumption DEF Desired, Owned
<1>2. ASSUME NEW id \in Owned PROVE Input(c, id) \in Rev
  <2>1. PICK a \in Account : id = ID(a) \/ id = BillingID(a)
    BY <1>2 DEF Owned
  <2>2. id[2] = a
    BY <2>1 DEF ID, BillingID
  <2>3. c.settings \in [Account -> Rev]
    BY ReconcilerAssumption
  <2> QED
    BY <2>2, <2>3 DEF Input
<1> QED
  BY <1>1, <1>2

LEMMA ScheduleFields ==
  ASSUME NEW x \in Schedule
  PROVE  /\ x.rev \in Rev \cup {None} /\ x.paused \in BOOLEAN
         /\ x.rev = None => x = Absent
<1>1. CASE x \in [rev : Rev, paused : BOOLEAN]
  BY <1>1, ReconcilerAssumption
<1>2. CASE x = Absent
  BY <1>2 DEF Absent
<1> QED
  BY <1>1, <1>2 DEF Schedule

LEMMA OwnedIsId == Owned \subseteq Id
  BY DEF Id

-----------------------------------------------------------------------------
(* Typing.                                                                 *)

LEMMA InitInv == Init => ApplyInv
<1> SUFFICES ASSUME Init PROVE ApplyInv
  OBVIOUS
<1>1. TypeOK
  BY ReconcilerAssumption DEF Init, TypeOK, Existing
<1>2. Loops /\ clean = {}
  BY DEF Init, Loops
<1> QED
  BY <1>1, <1>2 DEF ApplyInv

(* Loops is needed for the schedule an update describes to be one that is. *)
LEMMA TypeStep == TypeOK /\ Loops /\ [Next]_vars => TypeOK'
<1> SUFFICES ASSUME TypeOK, Loops, [Next]_vars PROVE TypeOK'
  OBVIOUS
<1> USE DesiredOwned, OwnedIsId
<1>1. ASSUME NEW r \in Replica, NEW c \in Config, Apply(r, c) PROVE TypeOK'
  <2>1. cfg' \in [Replica -> Config] /\ cfg'[r] = c
    BY <1>1 DEF Apply, TypeOK
  <2>2. existing' \in [Replica -> SUBSET Owned]
    BY <1>1 DEF Apply, List, TypeOK
  <2>3. todo' \in [Replica -> SUBSET Owned]
    BY <1>1, <2>1 DEF Apply, List, TypeOK
  <2> QED
    BY <1>1, <2>1, <2>2, <2>3 DEF Apply, List, TypeOK
<1>2. ASSUME NEW r \in Replica, NEW id \in todo[r], Create(r, id) PROVE TypeOK'
  BY <1>2 DEF Create, Upserted, StillClean, TypeOK, Schedule
<1>3. ASSUME NEW r \in Replica, NEW id \in todo[r], AlreadyRunning(r, id) PROVE TypeOK'
  BY <1>3 DEF AlreadyRunning, TypeOK
<1>4. ASSUME NEW r \in Replica, NEW id \in todo[r], Delete(r, id) PROVE TypeOK'
  BY <1>4 DEF Delete, StillClean, TypeOK, Schedule
<1>5. ASSUME NEW r \in Replica, Describe(r) PROVE TypeOK'
  <2>1. at[r] \in Id
    BY <1>5 DEF Describe, Loops, TypeOK
  <2>2. sched[at[r]] \in Schedule
    BY <2>1 DEF TypeOK
  <2>3. sched[at[r]].paused \in BOOLEAN
    BY <2>2, ScheduleFields
  <2> QED
    BY <1>5, <2>3 DEF Describe, TypeOK
<1>6. ASSUME NEW r \in Replica, Update(r) PROVE TypeOK'
  <2>1. at[r] \in Owned
    BY <1>6 DEF Update, Loops, TypeOK
  <2>2. sched' \in [Id -> Schedule]
    BY <1>6, <2>1 DEF Update, Upserted, TypeOK, Schedule
  <2> QED
    BY <1>6, <2>2 DEF Update, Upserted, StillClean, TypeOK
<1>7. ASSUME NEW r \in Replica, UpsertsEnd(r) PROVE TypeOK'
  BY <1>7 DEF UpsertsEnd, Orphans, TypeOK
<1>8. ASSUME NEW r \in Replica, Done(r) PROVE TypeOK'
  BY <1>8 DEF Done, Returns, TypeOK
<1>9. ASSUME NEW r \in Replica, NotFound(r) PROVE TypeOK'
  BY <1>9 DEF NotFound, Returns, TypeOK
<1>10. ASSUME NEW r \in Replica, Restart(r) PROVE TypeOK'
  BY <1>10 DEF Restart, TypeOK
<1>11. ASSUME NEW r \in Replica, Fault(r) PROVE TypeOK'
  BY <1>11 DEF Fault, Returns, TypeOK
<1>12. ASSUME NEW a \in Account, NEW p \in BOOLEAN, SetPaused(a, p) PROVE TypeOK'
  <2>1. ID(a) \in Owned /\ sched[ID(a)].rev \in Rev
    BY <1>12 DEF SetPaused, TypeOK, Schedule, Present, Absent, Owned
  <2> QED
    BY <1>12, <2>1 DEF SetPaused, TypeOK, Schedule, locals
<1>13. CASE CatchUp
  BY <1>13 DEF CatchUp, TypeOK, locals, Existing
<1>14. CASE UNCHANGED vars
  BY <1>14 DEF vars, TypeOK
<1> QED
  BY <1>1, <1>2, <1>3, <1>4, <1>5, <1>6, <1>7, <1>8, <1>9, <1>10, <1>11,
     <1>12, <1>13, <1>14 DEF Next, Step, Pause, Resume

-----------------------------------------------------------------------------
(* The loops of a replica that does not move are not disturbed: a step of  *)
(* another one changes nothing that is local to it.                        *)

LEMMA LoopsStep == TypeOK /\ Loops /\ [Next]_vars => Loops'
<1> SUFFICES ASSUME TypeOK, Loops, [Next]_vars, NEW q \in Replica
             PROVE  /\ pc'[q] \in {"upsert", "describe", "write"} => todo'[q] \subseteq Desired(cfg'[q])
                    /\ pc'[q] \in {"describe", "write"} => at'[q] \in todo'[q]
                    /\ pc'[q] = "delete" => todo'[q] \subseteq existing'[q] \ Desired(cfg'[q])
  BY DEF Loops, Orphans
<1> DEFINE Goal ==
      /\ pc'[q] \in {"upsert", "describe", "write"} => todo'[q] \subseteq Desired(cfg'[q])
      /\ pc'[q] \in {"describe", "write"} => at'[q] \in todo'[q]
      /\ pc'[q] = "delete" => todo'[q] \subseteq existing'[q] \ Desired(cfg'[q])
<1>1. ASSUME NEW r \in Replica, NEW c \in Config, Apply(r, c) PROVE Goal
  BY <1>1 DEF Apply, List, TypeOK, Loops, Orphans
<1>2. ASSUME NEW r \in Replica, NEW id \in todo[r], Create(r, id) PROVE Goal
  BY <1>2 DEF Create, Upserted, TypeOK, Loops, Orphans
<1>3. ASSUME NEW r \in Replica, NEW id \in todo[r], AlreadyRunning(r, id) PROVE Goal
  BY <1>3 DEF AlreadyRunning, TypeOK, Loops, Orphans
<1>4. ASSUME NEW r \in Replica, NEW id \in todo[r], Delete(r, id) PROVE Goal
  BY <1>4 DEF Delete, TypeOK, Loops, Orphans
<1>5. ASSUME NEW r \in Replica, Describe(r) PROVE Goal
  BY <1>5 DEF Describe, TypeOK, Loops, Orphans
<1>6. ASSUME NEW r \in Replica, Update(r) PROVE Goal
  BY <1>6 DEF Update, Upserted, TypeOK, Loops, Orphans
<1>7. ASSUME NEW r \in Replica, UpsertsEnd(r) PROVE Goal
  BY <1>7 DEF UpsertsEnd, TypeOK, Loops, Orphans
<1>8. ASSUME NEW r \in Replica, Done(r) \/ NotFound(r) \/ Fault(r) PROVE Goal
  BY <1>8 DEF Done, NotFound, Fault, Returns, TypeOK, Loops, Orphans
<1>9. ASSUME NEW r \in Replica, Restart(r) PROVE Goal
  BY <1>9 DEF Restart, TypeOK, Loops, Orphans
<1>10. ASSUME NEW a \in Account, NEW p \in BOOLEAN, SetPaused(a, p) PROVE Goal
  BY <1>10 DEF SetPaused, locals, Loops, Orphans
<1>11. CASE CatchUp
  BY <1>11 DEF CatchUp, locals, Loops, Orphans
<1>12. CASE UNCHANGED vars
  BY <1>12 DEF vars, Loops, Orphans
<1> QED
  BY <1>1, <1>2, <1>3, <1>4, <1>5, <1>6, <1>7, <1>8, <1>9, <1>10, <1>11,
     <1>12 DEF Next, Step, Pause, Resume

-----------------------------------------------------------------------------
(* What a clean replica has behind it stays as its configuration wants it. *)
(* The steps that write a schedule are treated first: whichever replica    *)
(* takes one, the replicas that are still clean have its configuration.    *)

(* An upsert leaves the schedule as the configuration of its replica wants *)
(* it, and so of every replica that is still clean.                        *)
LEMMA UpsertMatches ==
  ASSUME TypeOK, NEW s \in Replica, NEW id \in Desired(cfg[s]), NEW p,
         sched' = [sched EXCEPT ![id] = [rev |-> Input(cfg[s], id), paused |-> p]]
  PROVE  /\ sched'[id].rev = Input(cfg[s], id) /\ sched'[id].rev # None
         /\ \A i \in Owned \ {id} : sched'[i] = sched[i]
<1>1. cfg[s] \in Config /\ id \in Owned /\ id \in Id
  BY DesiredOwned, OwnedIsId DEF TypeOK
<1>2. sched'[id] = [rev |-> Input(cfg[s], id), paused |-> p]
  BY <1>1 DEF TypeOK
<1>3. Input(cfg[s], id) \in Rev
  BY <1>1, DesiredOwned
<1> QED
  BY <1>1, <1>2, <1>3, OwnedIsId, ReconcilerAssumption DEF TypeOK

(* A replica's own step or another's: q keeps what it has behind it when   *)
(* an id it wants is written as it wants it ...                            *)
LEMMA KeptByUpsert ==
  ASSUME TypeOK, NEW q \in Replica, Kept(q), NEW id \in Desired(cfg[q]),
         sched'[id].rev = Input(cfg[q], id), sched'[id].rev # None,
         \A i \in Owned \ {id} : sched'[i] = sched[i],
         cfg'[q] = cfg[q], existing'[q] = existing[q],
         \/ pc'[q] = pc[q] /\ todo'[q] \in {todo[q], todo[q] \ {id}} /\ pc[q] # "delete"
         \/ pc'[q] = pc[q] /\ todo'[q] = todo[q]
         \/ pc[q] = "write" /\ pc'[q] = "upsert" /\ todo'[q] = todo[q] \ {id}
  PROVE  Kept(q)'
<1>1. cfg[q] \in Config /\ Desired(cfg[q]) \subseteq Owned /\ id \in Owned
  BY DesiredOwned DEF TypeOK
<1>2. \A i \in Owned : Matches(cfg[q], i) => Matches(cfg[q], i)'
  BY <1>1 DEF Matches, Present
<1>3. Matches(cfg[q], id)'
  BY <1>1 DEF Matches, Present
<1>4. Listed(q) => Listed(q)'
  BY <1>1 DEF Listed, Present
<1> QED
  BY <1>1, <1>2, <1>3, <1>4 DEF Kept

(* ... when an id it does not want disappears ...                          *)
LEMMA KeptByDelete ==
  ASSUME TypeOK, NEW q \in Replica, Kept(q), NEW id \in Owned \ Desired(cfg[q]),
         sched' = [sched EXCEPT ![id] = Absent],
         cfg'[q] = cfg[q], existing'[q] = existing[q], pc'[q] = pc[q],
         \/ todo'[q] = todo[q]
         \/ pc[q] = "delete" /\ todo'[q] = todo[q] \ {id}
  PROVE  Kept(q)'
<1>1. cfg[q] \in Config /\ Desired(cfg[q]) \subseteq Owned /\ id \in Id
  BY DesiredOwned, OwnedIsId DEF TypeOK
<1>2. sched'[id].rev = None /\ \A i \in Owned \ {id} : sched'[i] = sched[i]
  BY <1>1, OwnedIsId DEF TypeOK, Absent
<1>3. \A i \in Owned : Matches(cfg[q], i) => Matches(cfg[q], i)'
  BY <1>1, <1>2 DEF Matches, Present
<1>4. Matches(cfg[q], id)'
  BY <1>1, <1>2 DEF Matches, Present
<1>5. Listed(q) => Listed(q)'
  BY <1>2 DEF Listed, Present
<1> QED
  BY <1>1, <1>3, <1>4, <1>5 DEF Kept

(* ... and when no schedule is written, or only its pause flag.            *)
LEMMA KeptByOthers ==
  ASSUME TypeOK, NEW q \in Replica, Kept(q),
         \A i \in Owned : sched'[i].rev = sched[i].rev,
         cfg'[q] = cfg[q], existing'[q] = existing[q], todo'[q] = todo[q],
         \/ pc'[q] = pc[q]
         \/ pc[q] \in {"upsert", "describe"} /\ pc'[q] \in {"describe", "write"}
         \/ pc'[q] \in {"idle", "failed"}
  PROVE  Kept(q)'
<1>1. Desired(cfg[q]) \subseteq Owned
  BY DesiredOwned DEF TypeOK
<1>2. \A i \in Owned : Matches(cfg[q], i) => Matches(cfg[q], i)'
  BY DEF Matches, Present
<1>3. Listed(q) => Listed(q)'
  BY DEF Listed, Present
<1> QED
  BY <1>1, <1>2, <1>3 DEF Kept

LEMMA KeptStep ==
  TypeOK /\ Loops /\ (\A q \in clean : Kept(q)) /\ [Next]_vars => (\A q \in clean : Kept(q))'
<1> SUFFICES ASSUME TypeOK, Loops, \A q \in clean : Kept(q), [Next]_vars,
                    NEW q \in clean'
             PROVE  Kept(q)'
  OBVIOUS
<1> USE OwnedIsId
<1>1. ASSUME NEW r \in Replica, NEW c \in Config, Apply(r, c) PROVE Kept(q)'
  <2>1. CASE q = r
    <3>1. pc'[q] = "upsert" /\ todo'[q] = Desired(cfg'[q]) /\ existing'[q] = visible \cap Owned
      BY <1>1, <2>1 DEF Apply, List, TypeOK
    <3>2. visible \cap Owned = Existing \cap Owned
      BY <1>1, <2>1 DEF Apply, List
    <3>3. Listed(q)'
      BY <1>1, <3>1, <3>2 DEF Apply, List, Listed, Existing, Present
    <3> QED
      BY <3>1, <3>3 DEF Kept
  <2>2. CASE q # r
    <3>1. q \in clean /\ q \in Replica
      BY <1>1, <2>2 DEF Apply, List, TypeOK
    <3> QED
      BY <1>1, <2>2, <3>1, KeptByOthers DEF Apply, List, TypeOK
  <2> QED
    BY <2>1, <2>2
<1>2. ASSUME NEW r \in Replica, NEW id \in todo[r], Create(r, id) PROVE Kept(q)'
  <2>1. q \in clean /\ q \in Replica /\ cfg[q] = cfg[r]
    BY <1>2 DEF Create, Upserted, StillClean, TypeOK
  <2>2. id \in Desired(cfg[q])
    BY <1>2, <2>1 DEF Create, Loops
  <2>3. /\ sched'[id].rev = Input(cfg[q], id) /\ sched'[id].rev # None
        /\ \A i \in Owned \ {id} : sched'[i] = sched[i]
    BY <1>2, <2>1, <2>2, UpsertMatches DEF Create, Upserted
  <2>4. /\ cfg'[q] = cfg[q] /\ existing'[q] = existing[q] /\ pc'[q] = pc[q]
        /\ todo'[q] = todo[q] \/ (q = r /\ todo'[q] = todo[q] \ {id} /\ pc[q] = "upsert")
    BY <1>2, <2>1 DEF Create, Upserted, TypeOK
  <2> QED
    BY <2>1, <2>2, <2>3, <2>4, KeptByUpsert
<1>3. ASSUME NEW r \in Replica, NEW id \in todo[r], AlreadyRunning(r, id) PROVE Kept(q)'
  BY <1>3, KeptByOthers DEF AlreadyRunning, TypeOK
<1>4. ASSUME NEW r \in Replica, NEW id \in todo[r], Delete(r, id) PROVE Kept(q)'
  <2>1. q \in clean /\ q \in Replica /\ cfg[q] = cfg[r]
    BY <1>4 DEF Delete, StillClean, TypeOK
  <2>2. id \in Owned \ Desired(cfg[q])
    BY <1>4, <2>1 DEF Delete, Loops, Orphans, TypeOK
  <2>3. /\ cfg'[q] = cfg[q] /\ existing'[q] = existing[q] /\ pc'[q] = pc[q]
        /\ todo'[q] = todo[q] \/ (pc[q] = "delete" /\ todo'[q] = todo[q] \ {id})
    BY <1>4, <2>1 DEF Delete, TypeOK
  <2> QED
    BY <1>4, <2>1, <2>2, <2>3, KeptByDelete DEF Delete
<1>5. ASSUME NEW r \in Replica, Describe(r) PROVE Kept(q)'
  BY <1>5, KeptByOthers DEF Describe, TypeOK
<1>6. ASSUME NEW r \in Replica, Update(r) PROVE Kept(q)'
  <2>1. q \in clean /\ q \in Replica /\ cfg[q] = cfg[r]
    BY <1>6 DEF Update, Upserted, StillClean, TypeOK
  <2>2. at[r] \in Desired(cfg[q])
    BY <1>6, <2>1 DEF Update, Loops
  <2>3. /\ sched'[at[r]].rev = Input(cfg[q], at[r]) /\ sched'[at[r]].rev # None
        /\ \A i \in Owned \ {at[r]} : sched'[i] = sched[i]
    BY <1>6, <2>1, <2>2, UpsertMatches DEF Update, Upserted
  <2>4. /\ cfg'[q] = cfg[q] /\ existing'[q] = existing[q]
        /\ \/ pc'[q] = pc[q] /\ todo'[q] = todo[q]
           \/ pc[q] = "write" /\ pc'[q] = "upsert" /\ todo'[q] = todo[q] \ {at[r]}
    BY <1>6, <2>1 DEF Update, Upserted, TypeOK
  <2> QED
    BY <2>1, <2>2, <2>3, <2>4, KeptByUpsert
<1>7. ASSUME NEW r \in Replica, UpsertsEnd(r) PROVE Kept(q)'
  <2>1. CASE q = r
    <3>1. /\ \A id \in Desired(cfg[q]) : Matches(cfg[q], id)
          /\ Listed(q)
      BY <1>7, <2>1 DEF UpsertsEnd, Kept
    <3>2. \A id \in Owned \ Orphans(q) : Matches(cfg[q], id)
      BY <3>1 DEF Listed, Orphans, Matches
    <3>3. pc'[q] = "delete" /\ todo'[q] = Orphans(q)
      BY <1>7, <2>1 DEF UpsertsEnd, TypeOK
    <3>4. \A id \in Owned \ todo'[q] : Matches(cfg[q], id)'
      BY <1>7, <3>2, <3>3 DEF UpsertsEnd, Matches, Present
    <3> QED
      BY <3>3, <3>4 DEF Kept
  <2>2. CASE q # r
    BY <1>7, <2>2, KeptByOthers DEF UpsertsEnd, TypeOK
  <2> QED
    BY <2>1, <2>2
<1>8. ASSUME NEW r \in Replica, Done(r) PROVE Kept(q)'
  <2>1. CASE q = r
    <3>1. \A id \in Owned : Matches(cfg[q], id)
      BY <1>8, <2>1 DEF Done, Kept
    <3>2. pc'[q] = "done"
      BY <1>8, <2>1 DEF Done, Returns, TypeOK
    <3>3. \A id \in Owned : Matches(cfg[q], id)'
      BY <1>8, <3>1 DEF Done, Matches, Present
    <3> QED
      BY <3>2, <3>3 DEF Kept
  <2>2. CASE q # r
    BY <1>8, <2>2, KeptByOthers DEF Done, Returns, TypeOK
  <2> QED
    BY <2>1, <2>2
<1>9. ASSUME NEW r \in Replica, NotFound(r) \/ Fault(r) PROVE Kept(q)'
  BY <1>9, KeptByOthers DEF NotFound, Fault, Returns, TypeOK
<1>10. ASSUME NEW r \in Replica, Restart(r) PROVE Kept(q)'
  BY <1>10, KeptByOthers DEF Restart, TypeOK
<1>11. ASSUME NEW a \in Account, NEW p \in BOOLEAN, SetPaused(a, p) PROVE Kept(q)'
  <2>1. \A i \in Owned : sched'[i].rev = sched[i].rev
    BY <1>11 DEF SetPaused, TypeOK
  <2> QED
    BY <1>11, <2>1, KeptByOthers DEF SetPaused, locals, TypeOK
<1>12. CASE CatchUp
  BY <1>12, KeptByOthers DEF CatchUp, locals, TypeOK
<1>13. CASE UNCHANGED vars
  BY <1>13, KeptByOthers DEF vars, TypeOK
<1> QED
  BY <1>1, <1>2, <1>3, <1>4, <1>5, <1>6, <1>7, <1>8, <1>9, <1>10, <1>11,
     <1>12, <1>13 DEF Next, Step, Pause, Resume

-----------------------------------------------------------------------------
(* What the loops of Apply have left to do always covers what keeps the    *)
(* namespace from matching: the invariant of Apply and upsert is inductive *)
(* and holds from the start on.                                            *)
THEOREM Invariance == Spec => []ApplyInv
<1>1. Init => ApplyInv
  BY InitInv
<1>2. ApplyInv /\ [Next]_vars => ApplyInv'
  <2> SUFFICES ASSUME ApplyInv, [Next]_vars PROVE ApplyInv'
    OBVIOUS
  <2>1. TypeOK' /\ Loops'
    BY TypeStep, LoopsStep DEF ApplyInv
  <2>2. (\A r \in clean : Kept(r))'
    BY KeptStep DEF ApplyInv
  <2> QED
    BY <2>1, <2>2 DEF ApplyInv
<1> QED
  BY <1>1, <1>2, PTL DEF Spec

(* Every variable of the reconciler's model keeps its type.                *)
THEOREM TypeCorrect == Spec => []TypeOK
<1>1. ApplyInv => TypeOK
  BY DEF ApplyInv
<1> QED
  BY <1>1, Invariance, PTL

(* "Apply makes the namespace's schedules match cfg", for any number of    *)
(* replicas that run it at the same time with the same configuration.      *)
THEOREM ApplyMakesMatch == Spec => []DoneMeansMatch
<1>1. ApplyInv => DoneMeansMatch
  BY DEF ApplyInv, DoneMeansMatch, Kept
<1> QED
  BY <1>1, Invariance, PTL

(* No schedule without the exporter's prefixes is ever created, updated,   *)
(* paused or deleted, however the steps interleave.                        *)
THEOREM ForeignSafe == Spec => ForeignUntouched
<1> DEFINE Untouched == \A id \in Id \ Owned : sched'[id] = sched[id]
<1>1. ApplyInv /\ [Next]_vars => [Untouched]_vars
  <2> SUFFICES ASSUME ApplyInv, [Next]_vars, NEW x \in Id \ Owned
               PROVE  sched'[x] = sched[x]
    OBVIOUS
  <2> USE DEF ApplyInv
  <2>1. ASSUME NEW r \in Replica, NEW id \in todo[r], Create(r, id) \/ Delete(r, id)
        PROVE  sched'[x] = sched[x]
    <3>1. id \in Owned
      BY DEF TypeOK
    <3> QED
      BY <2>1, <3>1 DEF Create, Upserted, Delete, TypeOK
  <2>2. ASSUME NEW r \in Replica, Update(r) PROVE sched'[x] = sched[x]
    <3>1. at[r] \in Owned
      BY <2>2 DEF Update, Loops, TypeOK
    <3> QED
      BY <2>2, <3>1 DEF Update, Upserted, TypeOK
  <2>3. ASSUME NEW a \in Account, NEW p \in BOOLEAN, SetPaused(a, p)
        PROVE  sched'[x] = sched[x]
    <3>1. ID(a) \in Owned
      BY DEF Owned
    <3> QED
      BY <2>3, <3>1 DEF SetPaused, TypeOK
  <2>4. CASE UNCHANGED sched
    BY <2>4
  <2> QED
    BY <2>1, <2>2, <2>3, <2>4 DEF Next, Step, Pause, Resume, Apply, List, AlreadyRunning,
       Describe, UpsertsEnd, Done, NotFound, Restart, Fault, CatchUp, vars
<1> QED
  BY <1>1, Invariance, PTL DEF Spec, ForeignUntouched

(* A schedule is deleted only by a replica that listed it and whose        *)
(* configuration has no use for it.                                        *)
THEOREM ConfiguredStays == Spec => KeepsConfigured
<1> DEFINE Removed == \A id \in Id : Present(id) /\ ~Present(id)' =>
      \E r \in Replica : id \in existing[r] \ Desired(cfg[r])
<1>1. ApplyInv /\ [Next]_vars => [Removed]_vars
  <2> SUFFICES ASSUME ApplyInv, [Next]_vars, NEW id \in Id, Present(id), ~Present(id)'
               PROVE  \E r \in Replica : id \in existing[r] \ Desired(cfg[r])
    OBVIOUS
  <2> USE OwnedIsId DEF ApplyInv
  <2>1. ASSUME NEW r \in Replica, NEW x \in todo[r], Delete(r, x)
        PROVE  id \in existing[r] \ Desired(cfg[r])
    <3>1. id = x
      BY <2>1 DEF Delete, TypeOK, Present
    <3> QED
      BY <2>1, <3>1 DEF Delete, Loops, Orphans
  <2>2. ASSUME NEW r \in Replica, NEW x \in todo[r], Create(r, x) PROVE FALSE
    <3>1. x \in Desired(cfg[r])
      BY <2>2 DEF Create, Loops
    <3> QED
      BY <2>2, <3>1, UpsertMatches DEF Create, Upserted, Present, TypeOK
  <2>3. ASSUME NEW r \in Replica, Update(r) PROVE FALSE
    <3>1. at[r] \in Desired(cfg[r])
      BY <2>3 DEF Update, Loops
    <3> QED
      BY <2>3, <3>1, UpsertMatches DEF Update, Upserted, Present, TypeOK
  <2>4. ASSUME NEW a \in Account, NEW p \in BOOLEAN, SetPaused(a, p) PROVE FALSE
    BY <2>4 DEF SetPaused, TypeOK, Present
  <2>5. CASE UNCHANGED sched
    BY <2>5 DEF Present
  <2> QED
    BY <2>1, <2>2, <2>3, <2>4, <2>5 DEF Next, Step, Pause, Resume, Apply, List,
       AlreadyRunning, Describe, UpsertsEnd, Done, NotFound, Restart, Fault, CatchUp, vars
<1> QED
  BY <1>1, Invariance, PTL DEF Spec, KeepsConfigured

(* A paused schedule that stays in place starts again only by `resume' or  *)
(* by an update that described it before the pause.                        *)
THEOREM PauseSafe == Spec => PauseIsKept
<1> DEFINE Kind(id) ==
      \/ \E a \in Account : id = ID(a) /\ Resume(a)
      \/ \E r \in Replica : pc[r] = "write" /\ at[r] = id /\ ~paused[r]
<1>1. ApplyInv /\ [Next]_vars =>
        [\A id \in Owned : sched[id].paused /\ Present(id)' /\ ~sched'[id].paused =>
           \/ \E a \in Account : id = ID(a) /\ Resume(a)
           \/ \E r \in Replica : pc[r] = "write" /\ at[r] = id /\ ~paused[r]]_vars
  <2> SUFFICES ASSUME ApplyInv, [Next]_vars, NEW id \in Owned,
                      sched[id].paused, Present(id)', ~sched'[id].paused
               PROVE  Kind(id)
    OBVIOUS
  <2> USE OwnedIsId DEF ApplyInv
  <2>1. ASSUME NEW r \in Replica, NEW x \in todo[r], Create(r, x) PROVE FALSE
    <3>1. x \in Owned /\ ~Present(x)
      BY <2>1 DEF Create, TypeOK
    <3>2. sched[x] = Absent
      BY <3>1, ScheduleFields DEF TypeOK, Present
    <3>3. x # id
      BY <3>2 DEF Absent
    <3> QED
      BY <2>1, <3>1, <3>3 DEF Create, Upserted, TypeOK
  <2>2. ASSUME NEW r \in Replica, NEW x \in todo[r], Delete(r, x) PROVE FALSE
    BY <2>2 DEF Delete, TypeOK, Present, Absent
  <2>3. ASSUME NEW r \in Replica, Update(r) PROVE Kind(id)
    <3>1. at[r] \in Owned
      BY <2>3 DEF Update, Loops, TypeOK
    <3>2. at[r] = id
      BY <2>3, <3>1 DEF Update, Upserted, TypeOK
    <3>3. sched'[id] = [rev |-> Input(cfg[r], id), paused |-> paused[r]]
      BY <2>3, <3>1, <3>2 DEF Update, Upserted, TypeOK
    <3>4. ~paused[r]
      BY <3>3
    <3> QED
      BY <2>3, <3>2, <3>4 DEF Update
  <2>4. ASSUME NEW a \in Account, Pause(a) PROVE FALSE
    <3>1. ID(a) \in Owned
      BY DEF Owned
    <3> QED
      BY <2>4, <3>1 DEF Pause, SetPaused, TypeOK
  <2>5. ASSUME NEW a \in Account, Resume(a) PROVE Kind(id)
    <3>1. ID(a) \in Owned
      BY DEF Owned
    <3>2. ID(a) = id
      BY <2>5, <3>1 DEF Resume, SetPaused, TypeOK
    <3> QED
      BY <2>5, <3>2
  <2>6. CASE UNCHANGED sched
    BY <2>6
  <2> QED
    BY <2>1, <2>2, <2>3, <2>4, <2>5, <2>6 DEF Next, Step, Apply, List,
       AlreadyRunning, Describe, UpsertsEnd, Done, NotFound, Restart, Fault, CatchUp, vars
<1> QED
  BY <1>1, Invariance, PTL DEF Spec, PauseIsKept

-----------------------------------------------------------------------------
(* The refinement mapping, by name.                                        *)
Applying == [r \in Replica |-> IF pc[r] \in {"idle", "done", "failed"} THEN {} ELSE {cfg[r]}]
Seen == [r \in Replica |-> IF pc[r] = "write" THEN {<<at[r], paused[r]>>} ELSE {}]

AtWork(r) == pc[r] \in {"upsert", "describe", "write", "delete"}

LEMMA PresentIsThere ==
  ASSUME TypeOK, NEW id \in Id
  PROVE  Present(id) <=> sched[id] # Absent
BY ReconcilerAssumption DEF Present, Absent, TypeOK, Schedule

(* What a replica that updates works on, as the contract sees it.          *)
LEMMA UpdatesDesired ==
  ASSUME ApplyInv, NEW r \in Replica, pc[r] \in {"describe", "write"}
  PROVE  /\ at[r] \in Desired(cfg[r]) /\ at[r] \in Owned /\ at[r] \in Id
         /\ paused[r] \in BOOLEAN /\ Applying[r] = {cfg[r]}
BY OwnedIsId DEF ApplyInv, Loops, TypeOK, Applying

LEMMA ContractStep ==
  ApplyInv /\ [Next]_vars => [Contract!Next]_(Contract!vars)
<1> SUFFICES ASSUME ApplyInv, [Next]_vars
    PROVE  Contract!Next \/ (UNCHANGED sched /\ UNCHANGED Applying /\ UNCHANGED Seen)
  BY DEF Contract!vars, Applying, Seen
<1> USE DEF ApplyInv
<1> DEFINE Goal == Contract!Next \/ (UNCHANGED sched /\ UNCHANGED Applying /\ UNCHANGED Seen)
<1>1. ASSUME NEW r \in Replica, NEW c \in Config, Apply(r, c) PROVE Goal
  <2>1. Applying[r] = {} /\ UNCHANGED sched
    BY <1>1 DEF Apply, List, Applying
  <2>2. Applying' = [Applying EXCEPT ![r] = {c}] /\ UNCHANGED Seen
    BY <1>1 DEF Apply, List, Applying, Seen, TypeOK
  <2>3. Contract!Start(r, c)
    BY <2>1, <2>2 DEF Contract!Start, Applying, Seen
  <2> QED BY <2>3 DEF Contract!Next
<1>2. ASSUME NEW r \in Replica, NEW id \in todo[r], Create(r, id) PROVE Goal
  <2>1. id \in Desired(cfg[r]) /\ id \in Owned /\ id \in Id
    BY <1>2, OwnedIsId DEF Create, Loops, TypeOK
  <2>2. UNCHANGED Applying /\ UNCHANGED Seen /\ cfg[r] \in Applying[r]
    BY <1>2 DEF Create, Applying, Seen
  <2>3. sched[id] = Absent
    BY <1>2, <2>1, PresentIsThere DEF Create
  <2>4. Contract!Make(r, id)
    BY <1>2, <2>1, <2>2, <2>3 DEF Contract!Make, Create, Upserted, Applying, Seen
  <2> QED BY <2>1, <2>4 DEF Contract!Next
<1>3. ASSUME NEW r \in Replica, Describe(r) PROVE Goal
  <2>1. PICK id \in Owned : /\ id = at[r] /\ id \in Desired(cfg[r])
                            /\ Applying[r] = {cfg[r]} /\ sched[id] # Absent
    BY <1>3, UpdatesDesired, PresentIsThere DEF Describe
  <2>2. UNCHANGED sched /\ UNCHANGED Applying
    BY <1>3 DEF Describe, Applying, TypeOK
  <2>3. Seen' = [Seen EXCEPT ![r] = {<<id, sched[id].paused>>}]
    BY <1>3, <2>1 DEF Describe, Seen, TypeOK
  <2>4. Contract!Look(r, id)
    BY <2>1, <2>2, <2>3 DEF Contract!Look, Contract!Asks, Applying, Seen
  <2> QED BY <2>1, <2>4 DEF Contract!Next
<1>4. ASSUME NEW r \in Replica, Update(r) PROVE Goal
  <2>1. PICK id \in Owned : /\ id = at[r] /\ id \in Desired(cfg[r]) /\ paused[r] \in BOOLEAN
                            /\ cfg[r] \in Applying[r] /\ sched[id] # Absent
    BY <1>4, UpdatesDesired, PresentIsThere DEF Update
  <2>2. UNCHANGED Applying
    BY <1>4 DEF Update, Applying, TypeOK
  <2>3. <<id, paused[r]>> \in Seen[r] /\ Seen' = [Seen EXCEPT ![r] = {}]
    BY <1>4, <2>1 DEF Update, Seen, TypeOK
  <2>4. sched' = [sched EXCEPT ![id] = [rev |-> Input(cfg[r], id), paused |-> paused[r]]]
    BY <1>4, <2>1 DEF Update, Upserted
  <2>5. Contract!Renew(r, id)
    BY <2>1, <2>2, <2>3, <2>4 DEF Contract!Renew, Applying, Seen
  <2> QED BY <2>1, <2>5 DEF Contract!Next
<1>5. ASSUME NEW r \in Replica, NEW id \in todo[r], Delete(r, id) PROVE Goal
  <2>1. id \in Owned \ Desired(cfg[r]) /\ id \in Id
    BY <1>5, OwnedIsId DEF Delete, Loops, Orphans, TypeOK
  <2>2. sched[id] # Absent
    BY <1>5, <2>1, PresentIsThere DEF Delete
  <2>3. UNCHANGED Applying /\ UNCHANGED Seen /\ cfg[r] \in Applying[r]
    BY <1>5 DEF Delete, Applying, Seen
  <2>4. Contract!Remove(r, id)
    BY <1>5, <2>1, <2>2, <2>3 DEF Contract!Remove, Delete, Applying, Seen
  <2> QED BY <2>1, <2>4 DEF Contract!Next
<1>6. ASSUME NEW r \in Replica, Done(r) \/ NotFound(r) \/ Fault(r) PROVE Goal
  <2>1. /\ AtWork(r) /\ UNCHANGED <<sched, cfg>>
        /\ pc' = [pc EXCEPT ![r] = "done"] \/ pc' = [pc EXCEPT ![r] = "failed"]
        /\ \A s \in Replica : s # r => at'[s] = at[s] /\ paused'[s] = paused[s]
    BY <1>6 DEF Done, NotFound, Fault, Returns, AtWork, TypeOK
  <2>2. Applying[r] # {} /\ Applying' = [Applying EXCEPT ![r] = {}]
    BY <2>1 DEF AtWork, Applying, TypeOK
  <2>3. Seen' = [Seen EXCEPT ![r] = {}]
    BY <2>1 DEF Seen, TypeOK
  <2>4. Contract!Return(r)
    BY <2>1, <2>2, <2>3 DEF Contract!Return, Applying, Seen
  <2> QED BY <2>4 DEF Contract!Next
<1>7. ASSUME NEW a \in Account, NEW p \in BOOLEAN, SetPaused(a, p) PROVE Goal
  <2>1. ID(a) \in Owned /\ ID(a) \in Id
    BY OwnedIsId DEF Owned
  <2>2. sched[ID(a)] # Absent /\ sched[ID(a)] \in Schedule
    BY <1>7, <2>1, PresentIsThere DEF SetPaused, TypeOK
  <2>3. [rev |-> sched[ID(a)].rev, paused |-> p] = [sched[ID(a)] EXCEPT !.paused = p]
    BY <2>2 DEF Schedule, Absent
  <2>4. UNCHANGED Applying /\ UNCHANGED Seen
    BY <1>7 DEF SetPaused, locals, Applying, Seen
  <2>5. Contract!SetPaused(ID(a))
    BY <1>7, <2>2, <2>3, <2>4 DEF Contract!SetPaused, SetPaused, Applying, Seen
  <2> QED BY <2>5 DEF Contract!Next
<1>8. ASSUME NEW r \in Replica, NEW id \in todo[r], AlreadyRunning(r, id) PROVE Goal
  BY <1>8 DEF AlreadyRunning, Applying, Seen, TypeOK
<1>9. ASSUME NEW r \in Replica, UpsertsEnd(r) \/ Restart(r) PROVE Goal
  BY <1>9 DEF UpsertsEnd, Restart, Applying, Seen, TypeOK
<1>10. CASE CatchUp \/ UNCHANGED vars
  BY <1>10 DEF CatchUp, vars, locals, Applying, Seen
<1> QED
  BY <1>1, <1>2, <1>3, <1>4, <1>5, <1>6, <1>7, <1>8, <1>9, <1>10 DEF Next, Step, Pause, Resume

(* Any number of replicas and commands change the namespace only as        *)
(* ScheduleContract allows: in particular no replica pauses a schedule, or *)
(* lets it run, but by writing back what it saw.                           *)
THEOREM NamespaceKeepsContract == Spec => KeepsContract
<1>1. Init => Contract!Init
  BY DEF Init, Contract!Init
<1>2. ApplyInv /\ [Next]_vars => [Contract!Next]_(Contract!vars)
  BY ContractStep
<1> QED BY <1>1, <1>2, Invariance, PTL DEF Spec, KeepsContract, Contract!Spec
=============================================================================
