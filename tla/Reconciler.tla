----------------------------- MODULE Reconciler -----------------------------
(***************************************************************************)
(* Reconciler.Apply, run by every worker when it starts and by `schedule   *)
(* apply', against the schedules of one Temporal namespace that other      *)
(* replicas and the `schedule pause' and `resume' commands change too.     *)
(*                                                                         *)
(* Temporal executes each request atomically.  List reads its visibility   *)
(* store, which follows the schedules with a delay; Update is a describe   *)
(* and a write the SDK sends without a conflict token.                     *)
(***************************************************************************)
EXTENDS Naturals, FiniteSets

CONSTANTS Replica,          \* processes that run Apply
          Account,          \* account names, of any configuration
          Foreign,          \* schedule ids without the exporter's prefixes
          Rev,              \* the settings an account can have
          None,             \* not in Rev: no such schedule, nothing described
          Config,           \* configurations the replicas are deployed with
          Initial,          \* what the namespace may hold at first
          MaxFaults         \* bound: failed requests and crashes

(* ID, BillingID, and what list keeps of the ids it is given.              *)
ID(a) == <<"ame-acct-", a>>
BillingID(a) == <<"ame-billing-", a>>
Owned == {ID(a) : a \in Account} \cup {BillingID(a) : a \in Account}
Id == Owned \cup {<<"other", x>> : x \in Foreign}

(* The schedules a configuration asks for, and what each should run.       *)
Desired(c) == {ID(a) : a \in c.accounts} \cup
              {BillingID(a) : a \in c.accounts \cap c.billing}
Input(c, id) == c.settings[id[2]]

Absent == [rev |-> None, paused |-> FALSE]
Schedule == [rev : Rev, paused : BOOLEAN] \cup {Absent}

ASSUME ReconcilerAssumption ==
  /\ None \notin Rev /\ MaxFaults \in Nat
  /\ Config \subseteq [accounts : SUBSET Account, billing : SUBSET Account,
                       settings : [Account -> Rev]]
  /\ Initial \subseteq [Id -> Schedule]

VARIABLES
  sched,       \* the namespace: every id's schedule, or Absent
  visible,     \* the ids ListSchedules reports
  pc, cfg,     \* per replica: where Apply is, and its configuration
  todo,        \* the ids its current loop has still to visit
  existing,    \* what its list returned
  at, paused,  \* the schedule Update described and whether it was paused
  clean,       \* history: replicas whose list was up to date and whose work
               \* no differently configured replica has touched since
  faults

vars == <<sched, visible, pc, cfg, todo, existing, at, paused, clean, faults>>
locals == <<pc, cfg, todo, existing, at, paused>>

Present(id) == sched[id].rev # None
Existing == {id \in Id : Present(id)}

Init ==
  /\ sched \in Initial
  /\ visible = Existing
  /\ pc = [r \in Replica |-> "idle"]
  /\ cfg \in [Replica -> Config]
  /\ todo = [r \in Replica |-> {}] /\ existing = [r \in Replica |-> {}]
  /\ at \in [Replica -> {None}] /\ paused = [r \in Replica |-> FALSE]
  /\ clean = {} /\ faults = 0

-----------------------------------------------------------------------------
(* The replicas that stay clean when r writes a schedule.                  *)
StillClean(r) == {s \in clean : cfg[s] = cfg[r]}

(* Mutant of List: the ids are not filtered.                               *)
ListAll(r) ==
  /\ existing' = [existing EXCEPT ![r] = visible]
  /\ todo' = [todo EXCEPT ![r] = Desired(cfg'[r])]
  /\ pc' = [pc EXCEPT ![r] = "upsert"]
  /\ clean' = IF visible \cap Owned = Existing \cap Owned
              THEN clean \cup {r} ELSE clean \ {r}
  /\ UNCHANGED <<sched, visible, at, paused, faults>>

(* Mutant of List: the ids of billing schedules are filtered out.          *)
ListAccounts(r) ==
  /\ existing' = [existing EXCEPT ![r] = visible \cap {ID(a) : a \in Account}]
  /\ todo' = [todo EXCEPT ![r] = Desired(cfg'[r])]
  /\ pc' = [pc EXCEPT ![r] = "upsert"]
  /\ clean' = IF visible \cap Owned = Existing \cap Owned
              THEN clean \cup {r} ELSE clean \ {r}
  /\ UNCHANGED <<sched, visible, at, paused, faults>>

(* The namespace's answer to a list request is in, filtered by prefix.     *)
List(r) ==
  /\ existing' = [existing EXCEPT ![r] = visible \cap Owned]
  /\ todo' = [todo EXCEPT ![r] = Desired(cfg'[r])]
  /\ pc' = [pc EXCEPT ![r] = "upsert"]
  /\ clean' = IF visible \cap Owned = Existing \cap Owned
              THEN clean \cup {r} ELSE clean \ {r}
  /\ UNCHANGED <<sched, visible, at, paused, faults>>

(* A process starts, or starts again after it exited, perhaps deployed     *)
(* with another configuration, and Apply lists what there is.              *)
Apply(r, c) ==
  /\ pc[r] \in {"idle", "failed"}
  /\ cfg' = [cfg EXCEPT ![r] = c]
  /\ List(r)

Restart(r) ==
  /\ pc[r] = "done"
  /\ pc' = [pc EXCEPT ![r] = "idle"]
  /\ clean' = clean \ {r}
  /\ UNCHANGED <<sched, visible, cfg, todo, existing, at, paused, faults>>

-----------------------------------------------------------------------------
(* upsert, for the desired ids in the order of a Go map.                   *)

(* Mutant of Upserted: a schedule that is made anew is made paused.        *)
MadePaused(r, id, p) ==
  /\ sched' = [sched EXCEPT ![id] = [rev |-> Input(cfg[r], id), paused |-> p \/ ~Present(id)]]
  /\ todo' = [todo EXCEPT ![r] = @ \ {id}]
  /\ clean' = StillClean(r)

Upserted(r, id, p) ==
  /\ sched' = [sched EXCEPT ![id] = [rev |-> Input(cfg[r], id), paused |-> p]]
  /\ todo' = [todo EXCEPT ![r] = @ \ {id}]
  /\ clean' = StillClean(r)

Create(r, id) ==
  /\ pc[r] = "upsert" /\ id \in todo[r] /\ ~Present(id)
  /\ Upserted(r, id, FALSE)
  /\ UNCHANGED <<visible, pc, cfg, existing, at, paused, faults>>

(* Mutant of AlreadyRunning: a schedule that is there is good enough.      *)
KeepRunning(r, id) ==
  /\ pc[r] = "upsert" /\ id \in todo[r] /\ Present(id)
  /\ todo' = [todo EXCEPT ![r] = @ \ {id}]
  /\ UNCHANGED <<sched, visible, pc, cfg, existing, at, paused, clean, faults>>

(* ErrScheduleAlreadyRunning is not an error but a reason to update.       *)
AlreadyRunning(r, id) ==
  /\ pc[r] = "upsert" /\ id \in todo[r] /\ Present(id)
  /\ pc' = [pc EXCEPT ![r] = "describe"]
  /\ at' = [at EXCEPT ![r] = id]
  /\ UNCHANGED <<sched, visible, cfg, todo, existing, paused, clean, faults>>

(* DoUpdate replaces the spec, the action and the policy of the            *)
(* description it is given, and leaves the state as it was described.      *)
Describe(r) ==
  /\ pc[r] = "describe" /\ Present(at[r])
  /\ pc' = [pc EXCEPT ![r] = "write"]
  /\ paused' = [paused EXCEPT ![r] = sched[at[r]].paused]
  /\ UNCHANGED <<sched, visible, cfg, todo, existing, at, clean, faults>>

(* Mutant of Update: the schedule is replaced as a whole.                  *)
Replace(r) ==
  /\ pc[r] = "write" /\ Present(at[r])
  /\ Upserted(r, at[r], FALSE)
  /\ pc' = [pc EXCEPT ![r] = "upsert"]
  /\ at' = [at EXCEPT ![r] = None] /\ paused' = [paused EXCEPT ![r] = FALSE]
  /\ UNCHANGED <<visible, cfg, existing, faults>>

Update(r) ==
  /\ pc[r] = "write" /\ Present(at[r])
  /\ Upserted(r, at[r], paused[r])
  /\ pc' = [pc EXCEPT ![r] = "upsert"]
  /\ at' = [at EXCEPT ![r] = None] /\ paused' = [paused EXCEPT ![r] = FALSE]
  /\ UNCHANGED <<visible, cfg, existing, faults>>

-----------------------------------------------------------------------------
(* The loop over what was listed.                                          *)

(* Mutant of Orphans: whatever was listed is deleted.                      *)
EverythingListed(r) == existing[r]

Orphans(r) == existing[r] \ Desired(cfg[r])

UpsertsEnd(r) ==
  /\ pc[r] = "upsert" /\ todo[r] = {}
  /\ pc' = [pc EXCEPT ![r] = "delete"]
  /\ todo' = [todo EXCEPT ![r] = Orphans(r)]
  /\ UNCHANGED <<sched, visible, cfg, existing, at, paused, clean, faults>>

Delete(r, id) ==
  /\ pc[r] = "delete" /\ id \in todo[r] /\ Present(id)
  /\ sched' = [sched EXCEPT ![id] = Absent]
  /\ todo' = [todo EXCEPT ![r] = @ \ {id}]
  /\ clean' = StillClean(r)
  /\ UNCHANGED <<visible, pc, cfg, existing, at, paused, faults>>

(* Apply is over: its local variables are gone.                            *)
Returns(r, how) ==
  /\ pc' = [pc EXCEPT ![r] = how]
  /\ todo' = [todo EXCEPT ![r] = {}] /\ existing' = [existing EXCEPT ![r] = {}]
  /\ at' = [at EXCEPT ![r] = None] /\ paused' = [paused EXCEPT ![r] = FALSE]

Done(r) ==
  /\ pc[r] = "delete" /\ todo[r] = {}
  /\ Returns(r, "done")
  /\ UNCHANGED <<sched, visible, cfg, clean, faults>>

(* Describe, update and delete answer an absent schedule with an error,    *)
(* and Apply returns it: the worker exits.                                 *)
NotFound(r) ==
  /\ \/ pc[r] \in {"describe", "write"} /\ ~Present(at[r])
     \/ pc[r] = "delete" /\ \E id \in todo[r] : ~Present(id)
  /\ Returns(r, "failed")
  /\ clean' = clean \ {r}
  /\ UNCHANGED <<sched, visible, cfg, faults>>

(* A request fails in some other way, or the process dies.  One that was   *)
(* carried out before its answer was lost is that request, then this.      *)
Fault(r) ==
  /\ pc[r] \in {"upsert", "describe", "write", "delete"} /\ faults < MaxFaults
  /\ Returns(r, "failed")
  /\ clean' = clean \ {r}
  /\ faults' = faults + 1
  /\ UNCHANGED <<sched, visible, cfg>>

-----------------------------------------------------------------------------
(* `schedule pause' and `schedule resume' know the account schedule only.  *)
SetPaused(a, p) ==
  /\ Present(ID(a)) /\ sched[ID(a)].paused # p
  /\ sched' = [sched EXCEPT ![ID(a)] = [rev |-> @.rev, paused |-> p]]
  /\ UNCHANGED <<visible, locals, clean, faults>>

Pause(a) == SetPaused(a, TRUE)
Resume(a) == SetPaused(a, FALSE)

(* The visibility store catches up with the schedules.                     *)
CatchUp ==
  /\ visible # Existing
  /\ visible' = Existing
  /\ UNCHANGED <<sched, locals, clean, faults>>

Step(r) ==
  \/ \E c \in Config : Apply(r, c)
  \/ \E id \in todo[r] : Create(r, id) \/ AlreadyRunning(r, id) \/ Delete(r, id)
  \/ Describe(r) \/ Update(r)
  \/ UpsertsEnd(r) \/ Done(r)
  \/ NotFound(r)

Next ==
  \/ \E r \in Replica : Step(r) \/ Restart(r) \/ Fault(r)
  \/ \E a \in Account : Pause(a) \/ Resume(a)
  \/ CatchUp

Spec == Init /\ [][Next]_vars

(* Replicas run, and one that exits is started again; visibility is        *)
(* eventually consistent.                                                  *)
Fairness == WF_vars(CatchUp) /\ \A r \in Replica : WF_vars(Step(r))

FairSpec == Spec /\ Fairness
-----------------------------------------------------------------------------
TypeOK ==
  /\ sched \in [Id -> Schedule]
  /\ visible \in SUBSET Id
  /\ pc \in [Replica -> {"idle", "upsert", "describe", "write", "delete", "done", "failed"}]
  /\ cfg \in [Replica -> Config]
  /\ todo \in [Replica -> SUBSET Owned]
  /\ existing \in [Replica -> SUBSET Owned]
  /\ at \in [Replica -> Owned \cup {None}]
  /\ paused \in [Replica -> BOOLEAN]
  /\ clean \in SUBSET Replica
  /\ faults \in Nat

(* id is as configuration c wants it: there with its settings, or absent.  *)
Matches(c, id) ==
  /\ Present(id) <=> id \in Desired(c)
  /\ Present(id) => sched[id].rev = Input(c, id)

(* "Apply makes the namespace's schedules match cfg": when Apply has       *)
(* returned without an error, every schedule under the exporter's prefixes *)
(* is as the configuration asks and no orphan is left, whatever replicas   *)
(* of the same configuration did in between, as long as the list Apply     *)
(* worked from was up to date and no replica of another configuration has  *)
(* written since.                                                          *)
DoneMeansMatch ==
  \A r \in clean : pc[r] = "done" => \A id \in Owned : Matches(cfg[r], id)

(* The inductive invariant behind DoneMeansMatch.  Each loop of Apply only  *)
(* has ids of its own kind ahead of it, and for a clean replica the ids it  *)
(* has left behind stay as its configuration wants them, while an orphan    *)
(* that exists is one it has listed.                                        *)
Loops ==
  \A r \in Replica :
    /\ pc[r] \in {"upsert", "describe", "write"} => todo[r] \subseteq Desired(cfg[r])
    /\ pc[r] \in {"describe", "write"} => at[r] \in todo[r]
    /\ pc[r] = "delete" => todo[r] \subseteq Orphans(r)

Listed(r) == \A id \in Owned \ Desired(cfg[r]) : Present(id) => id \in existing[r]

Kept(r) ==
  /\ pc[r] \in {"upsert", "describe", "write"} =>
       Listed(r) /\ \A id \in Desired(cfg[r]) \ todo[r] : Matches(cfg[r], id)
  /\ pc[r] = "delete" => \A id \in Owned \ todo[r] : Matches(cfg[r], id)
  /\ pc[r] = "done" => \A id \in Owned : Matches(cfg[r], id)

ApplyInv == TypeOK /\ Loops /\ \A r \in clean : Kept(r)

(* "anything else in the namespace is left alone": no step of a replica or *)
(* of the commands touches a schedule without the exporter's prefixes.     *)
ForeignUntouched == [][\A id \in Id \ Owned : sched'[id] = sched[id]]_vars

(* A schedule only disappears at the hands of a replica whose              *)
(* configuration does not ask for it: what every replica is deployed with  *)
(* is never deleted and made again, which would lose its pause and let a   *)
(* second run of the account start beside the first.                       *)
KeepsConfigured ==
  [][\A id \in Id : Present(id) /\ ~Present(id)' =>
       \E r \in Replica : id \in existing[r] \ Desired(cfg[r])]_vars

(* A paused schedule that stays in place starts again only by `schedule    *)
(* resume', or by an update that described it before it was paused, the    *)
(* one lost write the SDK's update allows.                                 *)
PauseIsKept ==
  [][\A id \in Owned : sched[id].paused /\ Present(id)' /\ ~sched'[id].paused =>
       \/ \E a \in Account : id = ID(a) /\ Resume(a)
       \/ \E r \in Replica : pc[r] = "write" /\ at[r] = id /\ ~paused[r]]_vars

(* What the others who use the namespace see of any number of replicas,   *)
(* whatever lists they work from and wherever they fail, is what           *)
(* ScheduleContract promises them: writes towards the configuration of a   *)
(* replica that is applying it, which pause or start nothing but what a    *)
(* command has paused or started between the replica's look and its write. *)
Contract ==
  INSTANCE ScheduleContract WITH
    Pausable <- {ID(a) : a \in Account},
    applying <- [r \in Replica |-> IF pc[r] \in {"idle", "done", "failed"} THEN {} ELSE {cfg[r]}],
    seen <- [r \in Replica |-> IF pc[r] = "write" THEN {<<at[r], paused[r]>>} ELSE {}]
KeepsContract == Contract!Spec

(* With one configuration, however many replicas start together, fail on   *)
(* each other's deletions or crash, the namespace comes to match it, with  *)
(* stale lists and pauses in between, and stays so.                        *)
Converges == <>[](\A r \in Replica, id \in Owned : Matches(cfg[r], id))

(* "It is idempotent so several replicas can run it concurrently": where   *)
(* no request fails and no process dies, Apply returns no error.           *)
NeverFails == \A r \in Replica : faults = 0 => pc[r] # "failed"

(* `schedule list': "List the schedules owned by this exporter".  What     *)
(* Apply has made, and visibility knows of, is among them.                 *)
ListCommand == {id \in visible : \E a \in Account : id = ID(a)}
ListShowsApplied ==
  \A r \in Replica : pc[r] = "done" => Desired(cfg[r]) \cap visible \subseteq ListCommand
=============================================================================
