-------------------------- MODULE ScheduleContract --------------------------
(***************************************************************************)
(* What Reconciler.Apply and the schedule commands promise to the others   *)
(* who use the namespace, with the lists, the loops and the failures left  *)
(* out.  A replica puts the schedules its configuration asks for, as it    *)
(* asks for them, removes exporter's schedules it does not ask for, and    *)
(* only between the start of its Apply and its end.  A schedule it makes   *)
(* runs; one that is there is left paused or running as the replica saw it *)
(* when it looked, so that a pause or a resume by the commands since then  *)
(* is undone.  Nothing else pauses a schedule or lets it run.              *)
(***************************************************************************)
CONSTANTS Replica, Config, Id,
          Owned,            \* ids with the exporter's prefixes
          Pausable,         \* those the commands reach
          Desired(_),       \* the ids a configuration asks for
          Input(_, _),      \* and what they should run
          Absent            \* no schedule

VARIABLES sched,            \* the namespace
          applying,         \* per replica, the configurations it is applying
          seen              \* per replica, the schedule it has looked at, and
                            \* whether that was paused

vars == <<sched, applying, seen>>

Init ==
  /\ applying = [r \in Replica |-> {}]
  /\ seen = [r \in Replica |-> {}]

Start(r, c) ==
  /\ applying[r] = {}
  /\ applying' = [applying EXCEPT ![r] = {c}]
  /\ UNCHANGED <<sched, seen>>

Asks(r, id) == \E c \in applying[r] : id \in Desired(c)

Make(r, id) ==
  /\ sched[id] = Absent
  /\ \E c \in applying[r] :
       /\ id \in Desired(c)
       /\ sched' = [sched EXCEPT ![id] = [rev |-> Input(c, id), paused |-> FALSE]]
  /\ UNCHANGED <<applying, seen>>

Look(r, id) ==
  /\ Asks(r, id) /\ sched[id] # Absent
  /\ seen' = [seen EXCEPT ![r] = {<<id, sched[id].paused>>}]
  /\ UNCHANGED <<sched, applying>>

Renew(r, id) ==
  /\ sched[id] # Absent
  /\ \E c \in applying[r], p \in BOOLEAN :
       /\ id \in Desired(c) /\ <<id, p>> \in seen[r]
       /\ sched' = [sched EXCEPT ![id] = [rev |-> Input(c, id), paused |-> p]]
  /\ seen' = [seen EXCEPT ![r] = {}]
  /\ UNCHANGED applying

Remove(r, id) ==
  /\ \E c \in applying[r] : id \in Owned \ Desired(c)
  /\ sched[id] # Absent
  /\ sched' = [sched EXCEPT ![id] = Absent]
  /\ UNCHANGED <<applying, seen>>

Return(r) ==
  /\ applying[r] # {}
  /\ applying' = [applying EXCEPT ![r] = {}]
  /\ seen' = [seen EXCEPT ![r] = {}]
  /\ UNCHANGED sched

SetPaused(id) ==
  /\ sched[id] # Absent
  /\ \E p \in BOOLEAN : sched' = [sched EXCEPT ![id].paused = p]
  /\ UNCHANGED <<applying, seen>>

Next ==
  \/ \E r \in Replica :
       \/ \E c \in Config : Start(r, c)
       \/ \E id \in Owned : Make(r, id) \/ Look(r, id) \/ Renew(r, id) \/ Remove(r, id)
       \/ Return(r)
  \/ \E id \in Pausable : SetPaused(id)

Spec == Init /\ [][Next]_vars
=============================================================================
