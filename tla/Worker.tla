------------------------------- MODULE Worker -------------------------------
(***************************************************************************)
(* The life of a worker process, again and again: it opens its resources,  *)
(* polls for tasks, applies the schedules, probes its health and serves    *)
(* the result until a signal, and closes what it has opened, while the     *)
(* tasks it has accepted run on goroutines of their own.                   *)
(* Apply is one step here; Reconciler has what it does.                    *)
(***************************************************************************)
EXTENDS Naturals, Sequences

CONSTANTS Task,             \* activity tasks on the worker's task queue
          Interval, Horizon, \* of the prober
          MaxFaults         \* bound: failed calls, crashes, signals and such

ASSUME WorkerAssumption ==
  Interval \in Nat \ {0} /\ Horizon \in Nat /\ MaxFaults \in Nat

VARIABLES
  phase,       \* the main goroutine; "down": there is no process
  opened,      \* what the deferred calls will close, the first opened first
  applied,     \* history: this process has applied the schedules
  signalled,   \* the context of the command is done
  server,      \* the health server: "off" | "new" | "listening" | "failed" | "closed"
  connected,   \* Shutdown waits for a client of the health server
  task,        \* Temporal's view of each task
  faults,
  up, since, run, at, prompt, spent, next, tick, ready, failures, lastErr

P == INSTANCE Prober

prober == <<up, since, run, at, prompt, spent, next, tick, ready, failures, lastErr>>
main == <<phase, opened, applied>>
vars == <<main, signalled, server, connected, task, faults, prober>>

Resources == <<"runtime", "store", "client", "poller">>
Opened(r) == \E i \in DOMAIN opened : opened[i] = r

Init ==
  /\ phase = "down" /\ opened = <<>> /\ applied = FALSE
  /\ signalled = FALSE /\ server = "off" /\ connected = FALSE
  /\ task = [t \in Task |-> "queued"] /\ faults = 0
  /\ P!Init

Faulty == faults < MaxFaults /\ faults' = faults + 1

-----------------------------------------------------------------------------
(* The command, up to the wait for its context.                            *)

(* Whoever supervises the process starts it whenever it has ended.         *)
Boot ==
  /\ phase = "down" /\ phase' = "opening"
  /\ UNCHANGED <<opened, applied, signalled, server, connected, task, faults, prober>>

Open ==
  /\ phase = "opening" /\ Len(opened) + 1 < Len(Resources)
  /\ opened' = Append(opened, Resources[Len(opened) + 1])
  /\ UNCHANGED <<phase, applied, signalled, server, connected, task, faults, prober>>

(* Mutant of StartPolling: the prober and the server are started with it.  *)
ServesEarly ==
  /\ phase = "opening" /\ Len(opened) + 1 = Len(Resources)
  /\ opened' = Append(opened, "poller")
  /\ phase' = "applying" /\ server' = "new"
  /\ P!Start
  /\ UNCHANGED <<applied, signalled, connected, task, faults>>

(* The worker polls as soon as it is started.                              *)
StartPolling ==
  /\ phase = "opening" /\ Len(opened) + 1 = Len(Resources)
  /\ opened' = Append(opened, "poller")
  /\ phase' = "applying"
  /\ UNCHANGED <<applied, signalled, server, connected, task, faults, prober>>

(* An error of any of these, of the store, the client, NewFactory or       *)
(* w.Start is returned.                                                    *)
OpenFails ==
  /\ phase = "opening" /\ Faulty
  /\ phase' = "closing"
  /\ UNCHANGED <<opened, applied, signalled, server, connected, task, prober>>

(* Mutant of Applied: nobody runs the prober.                              *)
NoProber ==
  /\ phase = "applying" /\ ~signalled
  /\ applied' = TRUE /\ phase' = "serving" /\ server' = "new"
  /\ UNCHANGED <<opened, signalled, connected, task, faults, prober>>

(* Apply returns; its requests fail once the context is done.              *)
Applied ==
  /\ phase = "applying" /\ ~signalled
  /\ applied' = TRUE /\ phase' = "serving" /\ server' = "new"
  /\ P!Start
  /\ UNCHANGED <<opened, signalled, connected, task, faults>>

ApplyFails ==
  /\ phase = "applying"
  /\ \/ signalled /\ UNCHANGED faults
     \/ Faulty
  /\ phase' = "closing"
  /\ UNCHANGED <<opened, applied, signalled, server, connected, task, prober>>

-----------------------------------------------------------------------------
(* The health server.                                                      *)

Listen ==
  /\ server = "new" /\ server' = "listening"
  /\ UNCHANGED <<main, signalled, connected, task, faults, prober>>

(* The error of ListenAndServe is logged and the worker goes on.           *)
ListenFails ==
  /\ server = "new" /\ Faulty
  /\ server' = "failed"
  /\ UNCHANGED <<main, signalled, connected, task, prober>>

(* GET /readyz: the prober's answer as the server gives it.                *)
ReadyzOK == server = "listening" /\ ready

-----------------------------------------------------------------------------
(* The end of the process.                                                 *)

Signal ==
  /\ phase # "down" /\ ~signalled /\ Faulty
  /\ signalled' = TRUE
  /\ IF run = "on" THEN P!Cancel ELSE UNCHANGED prober
  /\ UNCHANGED <<main, server, connected, task>>

(* <-ctx.Done(), and Shutdown closes the listener, but not the connection  *)
(* of a client that is in the middle of a request.                         *)
BeginShutdown ==
  /\ phase = "serving" /\ signalled
  /\ phase' = "shutdown" /\ server' = IF server = "failed" THEN "failed" ELSE "closed"
  /\ connected' \in IF server = "listening" THEN BOOLEAN ELSE {FALSE}
  /\ UNCHANGED <<opened, applied, signalled, task, faults, prober>>

Disconnect ==
  /\ connected /\ connected' = FALSE
  /\ UNCHANGED <<main, signalled, server, task, faults, prober>>

(* Mutant of ShutdownEnds: the context of Shutdown has no deadline.        *)
WaitsForClients ==
  /\ phase = "shutdown" /\ ~connected
  /\ phase' = "closing"
  /\ UNCHANGED <<opened, applied, signalled, server, connected, task, faults, prober>>

(* Shutdown returns when no client is connected, or after five seconds.    *)
ShutdownEnds ==
  /\ phase = "shutdown"
  /\ phase' = "closing"
  /\ UNCHANGED <<opened, applied, signalled, server, connected, task, faults, prober>>

(* Mutant of Close: the deferred calls run in the order they were made.    *)
FirstFirst ==
  /\ phase = "closing" /\ opened # <<>>
  /\ opened' = Tail(opened)
  /\ UNCHANGED <<phase, applied, signalled, server, connected, task, faults, prober>>

(* A deferred call: the last opened is closed first.                       *)
Close ==
  /\ phase = "closing" /\ opened # <<>>
  /\ opened' = SubSeq(opened, 1, Len(opened) - 1)
  /\ UNCHANGED <<phase, applied, signalled, server, connected, task, faults, prober>>

(* The process is gone, with its goroutines and what they had accepted.    *)
Gone ==
  /\ phase' = "down" /\ opened' = <<>> /\ applied' = FALSE
  /\ signalled' = FALSE /\ server' = "off" /\ connected' = FALSE
  /\ task' = [t \in Task |-> IF task[t] = "running" THEN "lost" ELSE task[t]]
  /\ P!Off /\ UNCHANGED up

Exit ==
  /\ phase = "closing" /\ opened = <<>>
  /\ Gone /\ UNCHANGED faults

Crash == phase # "down" /\ Faulty /\ Gone

-----------------------------------------------------------------------------
(* Tasks.                                                                  *)

Move(t, from, to) ==
  /\ task[t] = from
  /\ task' = [task EXCEPT ![t] = to]
  /\ UNCHANGED <<main, signalled, server, connected, prober>>

Take(t) == Opened("poller") /\ Move(t, "queued", "running") /\ UNCHANGED faults

(* The goroutine of a task reports through the client, also after w.Stop.  *)
Finish(t) == Opened("client") /\ Move(t, "running", "done") /\ UNCHANGED faults

(* An attempt fails, or hangs beyond its timeouts, and the retry policy    *)
(* queues another.                                                         *)
Retry(t) == Move(t, "running", "queued") /\ Faulty

(* AWS denies the attempt: the error it reports is not retryable.          *)
Denied(t) == Opened("client") /\ Move(t, "running", "failed") /\ Faulty

(* Mutant of TimesOut: the activity has no timeouts.                       *)
NeverTimesOut(t) == FALSE /\ UNCHANGED vars

(* Of a task that died with its worker Temporal hears no heartbeat, and    *)
(* another attempt is queued.                                              *)
TimesOut(t) == Move(t, "lost", "queued") /\ UNCHANGED faults

(* ScheduleToCloseTimeout: the task is closed undone.                      *)
Expires(t) ==
  /\ \E from \in {"queued", "running", "lost"} : Move(t, from, "failed")
  /\ UNCHANGED faults

-----------------------------------------------------------------------------
Probing ==
  /\ P!Steps
  /\ UNCHANGED <<main, signalled, server, connected, task, faults>>

Time ==
  /\ P!TimePasses /\ server # "new"
  /\ UNCHANGED <<main, signalled, server, connected, task, faults>>

ServiceChanges(s) ==
  /\ P!Changes(s)
  /\ UNCHANGED <<main, signalled, server, connected, task, faults>>

Main ==
  \/ Boot \/ Open \/ StartPolling
  \/ Applied \/ (signalled /\ ApplyFails)
  \/ BeginShutdown \/ ShutdownEnds \/ Close \/ Exit

Next ==
  \/ Main \/ OpenFails \/ ApplyFails
  \/ Listen \/ ListenFails \/ Disconnect
  \/ Signal \/ Crash
  \/ \E t \in Task : \/ Take(t) \/ Finish(t) \/ Retry(t)
                    \/ Denied(t) \/ TimesOut(t) \/ Expires(t)
  \/ Probing \/ Time
  \/ \E s \in P!Service : ServiceChanges(s)

(* The process is scheduled, Temporal has its heartbeat timer, and time    *)
(* goes on.  The end of a task's hour is not counted on.                   *)
Fairness ==
  /\ WF_vars(Main) /\ WF_vars(Listen) /\ WF_vars(Probing) /\ WF_vars(Time)
  /\ \A t \in Task : WF_vars(Take(t)) /\ WF_vars(Finish(t)) /\ WF_vars(TimesOut(t))

Spec == Init /\ [][Next]_vars /\ Fairness
-----------------------------------------------------------------------------
TypeOK ==
  /\ phase \in {"down", "opening", "applying", "serving", "shutdown", "closing"}
  /\ opened = SubSeq(Resources, 1, Len(opened))
  /\ applied \in BOOLEAN /\ signalled \in BOOLEAN /\ connected \in BOOLEAN
  /\ server \in {"off", "new", "listening", "failed", "closed"}
  /\ task \in [Task -> {"queued", "running", "lost", "done", "failed"}]
  /\ faults \in 0..MaxFaults
  /\ P!TypeOK

(* The worker is in rotation only after it has applied the schedules and   *)
(* while it polls for tasks, never before Apply has returned or when it    *)
(* closes what it has opened; and it polls only as long as the store and   *)
(* the client its tasks need are open.                                     *)
ReadyMeansWorking ==
  /\ ReadyzOK => applied /\ Opened("poller")
  /\ Opened("poller") => Opened("store") /\ Opened("client")

(* Whatever fails, and whenever the process is stopped or dies, no task is *)
(* stranded, those included that it had accepted before its Apply failed   *)
(* or while it was shutting down: each is done in the end, unless AWS has  *)
(* denied it or its hour is over, and without waiting for that hour.       *)
NoTaskIsStranded == \A t \in Task : <>[](task[t] \in {"done", "failed"})

(* A worker that is told to stop is gone in the end, even if a client of   *)
(* the health server never lets go of its connection.                      *)
SignalEnds == signalled ~> phase = "down"

(* Once both services stay up the worker gets into rotation to stay, or    *)
(* had no port to say so on, which it only logs.                           *)
BecomesReady ==
  <>[](\A s \in P!Service : up[s]) => <>[](ReadyzOK \/ server = "failed")

(* What the prober promises holds of every process in turn: a service that *)
(* stays down is noticed within three intervals.                           *)
DetectsInTime == P!DetectsInTime

(* The prober of a worker that serves reports ready an interval after its  *)
(* services came to be well, also if it started while they were down.      *)
HealthyIsReady == P!HealthyIsReady

(* No single failed probe takes a worker out of rotation.                  *)
BlipTolerated == P!BlipTolerated
=============================================================================
