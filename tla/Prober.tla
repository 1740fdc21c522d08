------------------------------- MODULE Prober -------------------------------
(***************************************************************************)
(* The readiness of a worker: a goroutine that calls the health checks one *)
(* after the other at every tick, all of them under one deadline, and what *)
(* its probes make of `ready'.  Time passes in units of which an interval  *)
(* has several; a healthy service answers, and the goroutine is scheduled, *)
(* in no time, so that a probe takes time only by hanging.                 *)
(***************************************************************************)
EXTENDS Naturals, Sequences

CONSTANTS Interval,         \* probe_interval, in units of time, positive
          Horizon           \* bound: how far back the history of a service goes

Checks == <<"storage", "temporal">>
Service == {"storage", "temporal"}
None == "none"

failureThreshold == 2

VARIABLES
  up, since,   \* per service: does it answer, and for how long it has been so
  run,         \* the goroutine: "off" | "on" | "cancelled" | "returned"
  at,          \* the check that is being called, 0 while waiting for a tick
  prompt,      \* that call has met a healthy service only
  spent,       \* time since the probe began
  next, tick,  \* time to the next tick, and whether one is in the channel
  ready, failures, lastErr

probe == <<at, prompt, spent>>
ticker == <<next, tick>>
result == <<ready, failures, lastErr>>
services == <<up, since>>
vars == <<services, run, probe, ticker, result>>

(* The process is gone: what the next one makes is a prober of its own,    *)
(* with nothing on record of the services.                                 *)
Off ==
  /\ since' = [s \in Service |-> 0]
  /\ run' = "off" /\ at' = 0 /\ prompt' = FALSE /\ spent' = 0
  /\ next' = Interval /\ tick' = FALSE
  /\ ready' = FALSE /\ failures' = 0 /\ lastErr' = None

Init ==
  /\ up \in [Service -> BOOLEAN] /\ since = [s \in Service |-> 0]
  /\ run = "off" /\ at = 0 /\ prompt = FALSE /\ spent = 0
  /\ next = Interval /\ tick = FALSE
  /\ ready = FALSE /\ failures = 0 /\ lastErr = None

-----------------------------------------------------------------------------
(* Prober.Run                                                              *)

Calls(i) == at' = i /\ prompt' = up[Checks[i]]

(* The ticker is made and the first probe begins at once.                  *)
Start ==
  /\ run = "off" /\ run' = "on"
  /\ Calls(1) /\ spent' = 0
  /\ UNCHANGED <<services, ticker, result>>

(* select: a tick, also when the context is done as well.                  *)
Begin ==
  /\ run \in {"on", "cancelled"} /\ at = 0 /\ tick
  /\ tick' = FALSE
  /\ Calls(1) /\ spent' = 0
  /\ UNCHANGED <<services, run, next, result>>

Cancel ==
  /\ run = "on" /\ run' = "cancelled"
  /\ UNCHANGED <<services, probe, ticker, result>>

(* select: the context is done, and Run returns.  The ticker is stopped;   *)
(* what the last probe made of `ready' stays what the health server tells. *)
Return ==
  /\ run = "cancelled" /\ at = 0 /\ run' = "returned"
  /\ next' = Interval /\ tick' = FALSE
  /\ since' = [s \in Service |-> 0]
  /\ UNCHANGED <<up, probe, result>>

-----------------------------------------------------------------------------
(* Prober.Probe                                                            *)

Waits == at' = 0 /\ prompt' = FALSE /\ spent' = 0

(* Mutant of Succeeds: a success does not end the series of failures.      *)
KeepsFailures == ready' = TRUE /\ lastErr' = None /\ UNCHANGED failures

(* Mutant of Succeeds: every failure takes a success to make up for.       *)
CountsDown ==
  /\ failures' = IF failures > 0 THEN failures - 1 ELSE 0
  /\ ready' = (failures' = 0) /\ lastErr' = None

Succeeds == ready' = TRUE /\ failures' = 0 /\ lastErr' = None

(* Mutant of Fails: the counter is compared before it is incremented.      *)
FailsLate(check) ==
  /\ failures' = IF failures < failureThreshold THEN failures + 1 ELSE failures
  /\ ready' = (ready /\ failures < failureThreshold)
  /\ lastErr' = check

(* The counter is of interest up to the threshold only.                    *)
Fails(check) ==
  /\ failures' = IF failures < failureThreshold THEN failures + 1 ELSE failures
  /\ ready' = (ready /\ failures' < failureThreshold)
  /\ lastErr' = check

(* A check answers within the deadline.  The first may do so at the last   *)
(* moment and leave nothing of it to the second.                           *)
Answers ==
  /\ at # 0 /\ run = "on" /\ up[Checks[at]]
  /\ \/ /\ at < Len(Checks)
        /\ Calls(at + 1)
        /\ UNCHANGED <<spent, result>>
     \/ /\ at = Len(Checks) /\ spent < Interval
        /\ Waits /\ Succeeds
  /\ UNCHANGED <<services, run, ticker>>

(* It is refused, or the deadline or the end of the context is reached.    *)
Errs ==
  /\ at # 0
  /\ ~up[Checks[at]] \/ spent = Interval \/ run = "cancelled"
  /\ Waits /\ Fails(Checks[at])
  /\ UNCHANGED <<services, run, ticker>>

-----------------------------------------------------------------------------
(* Nothing but a call of a service that is, or was, down takes time.       *)
Idle ==
  /\ run = "on"
  /\ IF at = 0 THEN ~tick ELSE ~prompt /\ spent < Interval

(* A unit of time passes; the channel of the ticker holds one tick.        *)
TimePasses ==
  /\ Idle
  /\ since' = [s \in Service |-> IF since[s] < Horizon THEN since[s] + 1 ELSE Horizon]
  /\ next' = IF next = 1 THEN Interval ELSE next - 1
  /\ tick' = (tick \/ next = 1)
  /\ spent' = IF at = 0 THEN 0 ELSE spent + 1
  /\ UNCHANGED <<up, run, at, prompt, result>>

(* A service goes down, or comes back.                                     *)
Changes(s) ==
  /\ up' = [up EXCEPT ![s] = ~@] /\ since' = [since EXCEPT ![s] = 0]
  /\ prompt' = (prompt /\ Checks[at] # s)
  /\ UNCHANGED <<run, at, spent, ticker, result>>

Steps == Begin \/ Return \/ Answers \/ Errs

Next ==
  \/ Start \/ Cancel
  \/ Steps \/ TimePasses
  \/ \E s \in Service : Changes(s)

Spec == Init /\ [][Next]_vars /\ WF_vars(Steps) /\ WF_vars(TimePasses)
-----------------------------------------------------------------------------
TypeOK ==
  /\ up \in [Service -> BOOLEAN] /\ since \in [Service -> 0..Horizon]
  /\ run \in {"off", "on", "cancelled", "returned"}
  /\ at \in 0..Len(Checks) /\ prompt \in BOOLEAN /\ spent \in 0..Interval
  /\ next \in 1..Interval /\ tick \in BOOLEAN
  /\ ready \in BOOLEAN /\ failures \in 0..failureThreshold
  /\ lastErr \in Service \cup {None}

(* A service that stays down makes the prober report not ready after three *)
(* intervals at the latest: one until the next probe and two for probes    *)
(* that hang up to their deadline, whatever the other service does.        *)
DetectsInTime ==
  run = "on" => \A s \in Service : ~up[s] /\ since[s] > 3 * Interval => ~ready

(* Once both services have been well for an interval the prober reports    *)
(* ready and no error, whatever it went through before: the probe that     *)
(* hung on one of them, and blamed one or the other, is over by then.      *)
HealthyIsReady ==
  run = "on" /\ (\A s \in Service : up[s] /\ since[s] > Interval)
    => ready /\ lastErr = None

(* README: "503 once two consecutive probes [...] fail".  A running prober  *)
(* goes from ready to not ready only when the probe before failed as well. *)
BlipTolerated ==
  [][ready /\ ~ready' /\ run' # "off" => lastErr # None /\ lastErr' # None]_vars
=============================================================================
