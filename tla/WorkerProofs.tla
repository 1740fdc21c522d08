---------------------------- MODULE WorkerProofs ----------------------------
(***************************************************************************)
(* What holds of a worker in all its lives, for any interval of its prober *)
(* and any number of tasks and faults: readiness follows the services in   *)
(* time, and is never reported by a worker that does not work.             *)
(***************************************************************************)
EXTENDS Worker, SequenceTheorems, TLAPS

(* Ticks come at whole intervals since the prober was started, and a probe *)
(* takes an interval at most, so every probe begins at a tick: what has    *)
(* passed since the last one began is read off the ticker.                 *)
Elapsed == IF tick THEN Interval ELSE Interval - next

Rhythm ==
  /\ run = "off" => /\ at = 0 /\ ~ready /\ failures = 0 /\ lastErr = P!None
                    /\ next = Interval /\ ~tick
                    /\ \A s \in P!Service : since[s] = 0
  /\ run = "on" => /\ tick => next = Interval
                   /\ at # 0 => spent = Elapsed

Series ==
  /\ failures = P!failureThreshold => ~ready
  /\ failures > 0 => lastErr # P!None

(* A service that was down before a probe began has failed that probe, if  *)
(* it is over, and the one before it if it was down by then already.       *)
MissedBy(s, n) ==
  /\ since[s] > Elapsed + n => failures >= 1
  /\ since[s] > Elapsed + n + Interval => failures >= 2

Noticed ==
  run = "on" => \A s \in P!Service : ~up[s] =>
    /\ at = 0 => MissedBy(s, 0)
    /\ at # 0 => MissedBy(s, Interval)
    /\ at = 2 /\ s = "storage" => since[s] <= Elapsed

(* A probe that began when both services were well hangs on neither.       *)
WellFor(n) == \A s \in P!Service : up[s] /\ since[s] > n

Recovered ==
  run = "on" =>
    /\ at = 0 /\ WellFor(Elapsed) => ready /\ lastErr = P!None
    /\ at # 0 /\ WellFor(Elapsed + Interval) => ready /\ lastErr = P!None
    /\ at # 0 /\ WellFor(Elapsed) => prompt /\ spent = 0

ProberInv == P!TypeOK /\ Rhythm /\ Series /\ Noticed /\ Recovered

-----------------------------------------------------------------------------
(* The prober, as any step of the worker moves it.                         *)
ProberStep ==
  \/ P!Start \/ P!Cancel \/ P!Return \/ P!Begin \/ P!Answers \/ P!Errs \/ P!TimePasses
  \/ \E s \in P!Service : P!Changes(s)
  \/ P!Off /\ UNCHANGED up
  \/ UNCHANGED prober

LEMMA StepsProber == [Next]_vars => ProberStep
<1> USE DEF ProberStep
<1>1. CASE Main
  BY <1>1 DEF Main, Boot, Open, StartPolling, Applied, ApplyFails, BeginShutdown, ShutdownEnds,
              Close, Exit, Gone
<1>2. CASE OpenFails \/ ApplyFails \/ Listen \/ ListenFails \/ Disconnect
  BY <1>2 DEF OpenFails, ApplyFails, Listen, ListenFails, Disconnect
<1>3. CASE Signal \/ Crash
  BY <1>3 DEF Signal, Crash, Gone
<1>4. ASSUME NEW t \in Task, \/ Take(t) \/ Finish(t) \/ Retry(t)
                              \/ Denied(t) \/ TimesOut(t) \/ Expires(t)
      PROVE  ProberStep
  BY <1>4 DEF Take, Finish, Retry, Denied, TimesOut, Expires, Move
<1>5. CASE Probing \/ Time
  BY <1>5 DEF Probing, Time, P!Steps
<1>6. ASSUME NEW s \in P!Service, ServiceChanges(s) PROVE ProberStep
  BY <1>6 DEF ServiceChanges
<1>7. CASE UNCHANGED vars
  BY <1>7 DEF vars
<1> QED
  BY <1>1, <1>2, <1>3, <1>4, <1>5, <1>6, <1>7 DEF Next

LEMMA ProberInit == P!Init => ProberInv
<1> SUFFICES ASSUME P!Init PROVE ProberInv
  OBVIOUS
<1> USE WorkerAssumption DEF P!Init, P!None, P!failureThreshold
<1>1. P!TypeOK
  <2>1. up \in [P!Service -> BOOLEAN] /\ since \in [P!Service -> 0..Horizon]
    OBVIOUS
  <2>2. /\ run \in {"off", "on", "cancelled", "returned"} /\ at \in 0..Len(P!Checks)
        /\ spent \in 0..Interval /\ next \in 1..Interval
    BY DEF P!Checks
  <2>3. prompt \in BOOLEAN /\ tick \in BOOLEAN /\ ready \in BOOLEAN
    OBVIOUS
  <2>4. failures \in 0..P!failureThreshold /\ lastErr \in P!Service \cup {P!None}
    OBVIOUS
  <2> QED
    BY <2>1, <2>2, <2>3, <2>4, Zenon DEF P!TypeOK
<1>2. Rhythm /\ Series
  BY DEF Rhythm, Series
<1>3. Noticed /\ Recovered
  BY DEF Noticed, Recovered
<1> QED
  BY <1>1, <1>2, <1>3 DEF ProberInv

(* What an answer means at each of the two checks.                         *)
FirstAnswers ==
  /\ at = 1 /\ up["storage"] /\ at' = 2 /\ prompt' = up["temporal"]
  /\ UNCHANGED <<spent, ready, failures, lastErr>>

SecondAnswers ==
  /\ at = 2 /\ up["temporal"] /\ spent < Interval
  /\ at' = 0 /\ prompt' = FALSE /\ spent' = 0
  /\ ready' = TRUE /\ failures' = 0 /\ lastErr' = P!None

LEMMA AnswersCases ==
  ASSUME P!TypeOK, P!Answers
  PROVE  /\ run = "on" /\ UNCHANGED <<up, since, run, next, tick>>
         /\ FirstAnswers \/ SecondAnswers
<1>1. run = "on" /\ UNCHANGED <<up, since, run, next, tick>>
  BY DEF P!Answers, P!services, P!ticker
<1>2. at \in 0..2 /\ Len(P!Checks) = 2 /\ P!Checks[1] = "storage" /\ P!Checks[2] = "temporal"
  BY DEF P!TypeOK, P!Checks
<1>3. CASE at < Len(P!Checks) /\ P!Calls(at + 1) /\ UNCHANGED <<spent, P!result>>
  <2>1. at = 1 /\ up["storage"]
    BY <1>2, <1>3 DEF P!Answers
  <2>2. at' = 2 /\ prompt' = up["temporal"]
    BY <1>2, <1>3, <2>1 DEF P!Calls
  <2> QED
    BY <1>1, <1>3, <2>1, <2>2 DEF P!result, FirstAnswers
<1>4. CASE at = Len(P!Checks) /\ spent < Interval /\ P!Waits /\ P!Succeeds
  <2>1. at = 2 /\ up["temporal"]
    BY <1>2, <1>4 DEF P!Answers
  <2> QED
    BY <1>1, <1>4, <2>1 DEF P!Waits, P!Succeeds, SecondAnswers
<1> QED
  BY <1>1, <1>3, <1>4 DEF P!Answers

LEMMA ProberType ==
  ASSUME P!TypeOK, ProberStep
  PROVE  P!TypeOK'
<1> USE WorkerAssumption DEF P!TypeOK, P!Checks, P!Service, P!failureThreshold
<1>1. CASE P!Start
  BY <1>1 DEF P!Start, P!Calls, P!services, P!ticker, P!result
<1>2. CASE P!Cancel \/ P!Return
  <2>1. CASE P!Cancel
    BY <2>1 DEF P!Cancel, P!services, P!probe, P!ticker, P!result
  <2>2. CASE P!Return
    <3>1. /\ UNCHANGED <<up, at, prompt, spent, ready, failures, lastErr>>
          /\ run' = "returned" /\ next' = Interval /\ tick' = FALSE
          /\ since' = [s \in P!Service |-> 0]
      BY <2>2 DEF P!Return, P!probe, P!result
    <3>2. since' \in [P!Service -> 0..Horizon] /\ next' \in 1..Interval
      BY <3>1
    <3> QED
      BY <3>1, <3>2
  <2> QED
    BY <1>2, <2>1, <2>2
<1>3. CASE P!Begin
  <2>1. up' \in [P!Service -> BOOLEAN] /\ since' \in [P!Service -> 0..Horizon]
    BY <1>3 DEF P!Begin, P!Calls, P!services, P!result
  <2>2. /\ run' \in {"off", "on", "cancelled", "returned"} /\ at' \in 0..Len(P!Checks)
        /\ spent' \in 0..Interval /\ next' \in 1..Interval
    BY <1>3 DEF P!Begin, P!Calls, P!services, P!result
  <2>3. prompt' \in BOOLEAN /\ tick' \in BOOLEAN /\ ready' \in BOOLEAN
    BY <1>3 DEF P!Begin, P!Calls, P!services, P!result
  <2>4. failures' \in 0..P!failureThreshold /\ lastErr' \in P!Service \cup {P!None}
    BY <1>3 DEF P!Begin, P!Calls, P!services, P!result
  <2> QED
    BY <2>1, <2>2, <2>3, <2>4, Zenon DEF P!TypeOK
<1>4. CASE P!Answers
  <2>0. UNCHANGED <<up, since, run, next, tick>>
    BY <1>4, AnswersCases
  <2>1. CASE FirstAnswers
    BY <2>0, <2>1 DEF FirstAnswers
  <2>2. CASE SecondAnswers
    <3>1. prompt' \in BOOLEAN /\ tick' \in BOOLEAN /\ ready' \in BOOLEAN
      BY <2>0, <2>2 DEF SecondAnswers
    <3>2. failures' \in 0..P!failureThreshold /\ lastErr' \in P!Service \cup {P!None}
      BY <2>2 DEF SecondAnswers
    <3>3. at' \in 0..Len(P!Checks) /\ spent' \in 0..Interval
      BY <2>2 DEF SecondAnswers
    <3> QED
      BY <2>0, <3>1, <3>2, <3>3
  <2> QED
    BY <1>4, <2>1, <2>2, AnswersCases
<1>5. CASE P!Errs
  <2>1. up' \in [P!Service -> BOOLEAN] /\ since' \in [P!Service -> 0..Horizon]
    BY <1>5 DEF P!Errs, P!Waits, P!Fails, P!services, P!ticker
  <2>2. /\ run' \in {"off", "on", "cancelled", "returned"} /\ at' \in 0..Len(P!Checks)
        /\ spent' \in 0..Interval /\ next' \in 1..Interval
    BY <1>5 DEF P!Errs, P!Waits, P!Fails, P!services, P!ticker
  <2>3. prompt' \in BOOLEAN /\ tick' \in BOOLEAN /\ ready' \in BOOLEAN
    BY <1>5 DEF P!Errs, P!Waits, P!Fails, P!services, P!ticker
  <2>4. failures' \in 0..P!failureThreshold /\ lastErr' \in P!Service \cup {P!None}
    BY <1>5 DEF P!Errs, P!Waits, P!Fails, P!services, P!ticker
  <2> QED
    BY <2>1, <2>2, <2>3, <2>4, Zenon DEF P!TypeOK
<1>6. CASE P!TimePasses
  BY <1>6 DEF P!TimePasses, P!Idle, P!result
<1>7. ASSUME NEW s \in P!Service, P!Changes(s) PROVE P!TypeOK'
  BY <1>7 DEF P!Changes, P!ticker, P!result
<1>8. CASE P!Off /\ UNCHANGED up
  <2>1. up' \in [P!Service -> BOOLEAN] /\ since' \in [P!Service -> 0..Horizon]
    BY <1>8 DEF P!Off, P!None
  <2>2. /\ run' \in {"off", "on", "cancelled", "returned"} /\ at' \in 0..Len(P!Checks)
        /\ spent' \in 0..Interval /\ next' \in 1..Interval
    BY <1>8 DEF P!Off, P!None
  <2>3. prompt' \in BOOLEAN /\ tick' \in BOOLEAN /\ ready' \in BOOLEAN
    BY <1>8 DEF P!Off, P!None
  <2>4. failures' \in 0..P!failureThreshold /\ lastErr' \in P!Service \cup {P!None}
    BY <1>8 DEF P!Off, P!None
  <2> QED
    BY <2>1, <2>2, <2>3, <2>4, Zenon DEF P!TypeOK
<1>9. CASE UNCHANGED prober
  BY <1>9 DEF prober
<1> QED
  BY <1>1, <1>2, <1>3, <1>4, <1>5, <1>6, <1>7, <1>8, <1>9 DEF ProberStep

LEMMA RhythmStep ==
  ASSUME P!TypeOK, Rhythm, ProberStep
  PROVE  Rhythm'
<1> USE WorkerAssumption DEF P!TypeOK, Rhythm, Elapsed
<1>1. CASE P!Start
  BY <1>1 DEF P!Start, P!Calls, P!services, P!ticker, P!result
<1>2. CASE P!Cancel \/ P!Return
  BY <1>2 DEF P!Cancel, P!Return, P!services, P!probe, P!ticker, P!result
<1>3. CASE P!Begin
  BY <1>3 DEF P!Begin, P!Calls, P!services, P!result
<1>4. CASE P!Answers
  BY <1>4 DEF P!Answers, P!Calls, P!Waits, P!Succeeds, P!services, P!ticker, P!result, P!Checks
<1>5. CASE P!Errs
  BY <1>5 DEF P!Errs, P!Waits, P!Fails, P!services, P!ticker
<1>6. CASE P!TimePasses
  <2>1. /\ run = "on" /\ run' = "on" /\ at' = at
        /\ next' = IF next = 1 THEN Interval ELSE next - 1
        /\ tick' = (tick \/ next = 1)
        /\ spent' = IF at = 0 THEN 0 ELSE spent + 1
        /\ at = 0 => ~tick
        /\ at # 0 => spent < Interval
    BY <1>6 DEF P!TimePasses, P!Idle
  <2>2. ~tick
    BY <2>1
  <2>3. tick' <=> next = 1
    BY <2>1, <2>2
  <2> QED
    BY <2>1, <2>2, <2>3
<1>7. ASSUME NEW s \in P!Service, P!Changes(s) PROVE Rhythm'
  BY <1>7 DEF P!Changes, P!ticker, P!result
<1>8. CASE P!Off /\ UNCHANGED up
  BY <1>8 DEF P!Off
<1>9. CASE UNCHANGED prober
  BY <1>9 DEF prober
<1> QED
  BY <1>1, <1>2, <1>3, <1>4, <1>5, <1>6, <1>7, <1>8, <1>9 DEF ProberStep

LEMMA SeriesStep ==
  ASSUME P!TypeOK, Series, ProberStep
  PROVE  Series'
<1> USE DEF Series, P!failureThreshold
<1>1. CASE P!Start \/ P!Cancel \/ P!Return \/ P!Begin \/ P!TimePasses
  BY <1>1 DEF P!Start, P!Cancel, P!Return, P!Begin, P!TimePasses, P!result
<1>2. CASE P!Answers
  BY <1>2 DEF P!Answers, P!Succeeds, P!result
<1>3. CASE P!Errs
  <2>1. /\ ready' = (ready /\ failures' < 2) /\ lastErr' = P!Checks[at]
        /\ failures' \in 0..2
    BY <1>3 DEF P!Errs, P!Fails, P!TypeOK
  <2>2. lastErr' # P!None
    BY <1>3, <2>1 DEF P!Errs, P!Checks, P!TypeOK, P!None
  <2>3. failures' = 2 => ready' = (ready /\ FALSE)
    BY <2>1
  <2> QED
    BY <2>2, <2>3
<1>4. ASSUME NEW s \in P!Service, P!Changes(s) PROVE Series'
  BY <1>4 DEF P!Changes, P!result
<1>5. CASE P!Off /\ UNCHANGED up
  BY <1>5 DEF P!Off
<1>6. CASE UNCHANGED prober
  BY <1>6 DEF prober
<1> QED
  BY <1>1, <1>2, <1>3, <1>4, <1>5, <1>6 DEF ProberStep

(* The call that fails is one of a service that is down, or takes too long. *)
LEMMA ErrsCases ==
  ASSUME P!TypeOK, P!Errs
  PROVE  /\ UNCHANGED <<up, since, run, next, tick>>
         /\ at \in {1, 2} /\ at' = 0 /\ spent' = 0
         /\ failures < 2 => failures' = failures + 1
         /\ failures = 2 => failures' = 2
         /\ run = "on" => \/ at = 1 /\ ~up["storage"]
                          \/ at = 2 /\ ~up["temporal"]
                          \/ spent = Interval
<1> USE DEF P!TypeOK, P!Checks, P!failureThreshold
<1>1. UNCHANGED <<up, since, run, next, tick>>
  BY DEF P!Errs, P!services, P!ticker
<1>2. at \in {1, 2} /\ at' = 0 /\ spent' = 0
  BY DEF P!Errs, P!Waits
<1>3. failures' = IF failures < 2 THEN failures + 1 ELSE failures
  BY DEF P!Errs, P!Fails
<1>4. run = "on" => ~up[P!Checks[at]] \/ spent = Interval
  BY DEF P!Errs
<1>5. run = "on" => \/ at = 1 /\ ~up["storage"]
                    \/ at = 2 /\ ~up["temporal"]
                    \/ spent = Interval
  BY <1>2, <1>4
<1> HIDE DEF P!TypeOK
<1> QED
  BY <1>1, <1>2, <1>3, <1>5

(* A unit of time, which passes only between ticks.                        *)
LEMMA TimeCases ==
  ASSUME P!TypeOK, Rhythm, P!TimePasses
  PROVE  /\ run = "on" /\ ~tick
         /\ UNCHANGED <<up, run, at, prompt, ready, failures, lastErr>>
         /\ Elapsed' = Elapsed + 1
         /\ \A s \in P!Service : since'[s] <= since[s] + 1
         /\ at # 0 => ~prompt
<1> USE WorkerAssumption DEF P!TypeOK
<1>1. /\ run = "on" /\ UNCHANGED <<up, run, at, prompt, ready, failures, lastErr>>
      /\ next' = IF next = 1 THEN Interval ELSE next - 1
      /\ tick' = (tick \/ next = 1)
      /\ at = 0 => ~tick
      /\ at # 0 => ~prompt /\ spent < Interval
  BY DEF P!TimePasses, P!Idle, P!result
<1>2. ~tick
  BY <1>1 DEF Rhythm, Elapsed
<1>3. tick' <=> next = 1
  BY <1>1, <1>2
<1>4. Elapsed' = Elapsed + 1
  BY <1>1, <1>2, <1>3 DEF Elapsed
<1>5. \A s \in P!Service : since'[s] <= since[s] + 1
  BY DEF P!TimePasses
<1> QED
  BY <1>1, <1>2, <1>4, <1>5

LEMMA Remainder ==
  ASSUME NEW n \in 1..Interval
  PROVE  Interval - n \in 0..Interval /\ Interval \in 0..Interval
  BY WorkerAssumption

LEMMA ElapsedType ==
  ASSUME P!TypeOK, P!TypeOK'
  PROVE  Elapsed \in 0..Interval /\ Elapsed' \in 0..Interval
<1>1. next \in 1..Interval /\ next' \in 1..Interval
  BY DEF P!TypeOK
<1>2. /\ Elapsed = Interval \/ Elapsed = Interval - next
      /\ Elapsed' = Interval \/ Elapsed' = Interval - next'
  BY Zenon DEF Elapsed
<1> QED
  BY <1>1, <1>2, Remainder

(* Up to the end of a probe, and from then to the end of the next one.     *)
LEMMA NoticedStep ==
  ASSUME P!TypeOK, P!TypeOK', Rhythm, Rhythm', Noticed, ProberStep, run' = "on"
  PROVE  Noticed'
<1> SUFFICES ASSUME NEW s \in P!Service, ~up'[s]
    PROVE  /\ at' = 0 => MissedBy(s, 0)'
           /\ at' # 0 => MissedBy(s, Interval)'
           /\ at' = 2 /\ s = "storage" => since'[s] <= Elapsed'
  BY DEF Noticed
<1>0. /\ Interval \in Nat \ {0} /\ Elapsed \in 0..Interval /\ Elapsed' \in 0..Interval
      /\ since[s] \in Nat /\ since'[s] \in Nat /\ s \in {"storage", "temporal"}
      /\ failures \in 0..2 /\ failures' \in 0..2 /\ at \in 0..2 /\ at' \in 0..2
  <2>1. Interval \in Nat \ {0} /\ s \in {"storage", "temporal"}
    BY WorkerAssumption DEF P!Service
  <2>2. Elapsed \in 0..Interval /\ Elapsed' \in 0..Interval
    BY ElapsedType
  <2>3. since[s] \in Nat /\ since'[s] \in Nat
    BY WorkerAssumption DEF P!TypeOK
  <2>4. failures \in 0..2 /\ failures' \in 0..2 /\ at \in 0..2 /\ at' \in 0..2
    BY DEF P!TypeOK, P!Checks, P!failureThreshold
  <2> QED
    BY <2>1, <2>2, <2>3, <2>4
<1> USE DEF MissedBy
<1>1. CASE P!Start
  <2>1. since[s] = 0 /\ since' = since /\ at' = 1
    BY <1>1 DEF Rhythm, P!Start, P!Calls, P!services
  <2> QED
    BY <1>0, <2>1
<1>2. CASE P!Cancel \/ P!Return
  BY <1>2 DEF P!Cancel, P!Return
<1>3. CASE P!Begin
  <2>1. /\ run = "on" /\ tick /\ ~tick' /\ next' = next /\ at = 0 /\ at' = 1
        /\ UNCHANGED <<up, since, failures>>
    BY <1>3 DEF P!Begin, P!Calls, P!services, P!result
  <2>2. Elapsed = Interval /\ Elapsed' = 0
    BY <2>1, <1>0 DEF Rhythm, Elapsed
  <2> QED
    BY <1>0, <2>1, <2>2 DEF Noticed
<1>4. CASE P!Answers
  <2>1. run = "on" /\ UNCHANGED <<up, since, Elapsed>>
    BY <1>4, AnswersCases DEF Elapsed
  <2>2. CASE FirstAnswers
    <3>1. at = 1 /\ up["storage"] /\ at' = 2 /\ failures' = failures
      BY <2>2 DEF FirstAnswers
    <3> QED
      BY <1>0, <2>1, <3>1 DEF Noticed
  <2>3. CASE SecondAnswers
    <3>1. at = 2 /\ up["temporal"] /\ at' = 0
      BY <2>3 DEF SecondAnswers
    <3>2. s = "storage" /\ since[s] <= Elapsed
      BY <1>0, <2>1, <3>1 DEF Noticed
    <3> QED
      BY <1>0, <2>1, <3>1, <3>2
  <2> QED
    BY <1>4, <2>2, <2>3, AnswersCases
<1>5. CASE P!Errs
  <2>1. /\ UNCHANGED <<up, since, run, Elapsed>> /\ at # 0 /\ at' = 0
        /\ failures < 2 => failures' = failures + 1
        /\ failures = 2 => failures' = 2
    BY <1>5, ErrsCases DEF Elapsed
  <2> QED
    BY <1>0, <2>1 DEF Noticed
<1>6. CASE P!TimePasses
  BY <1>0, <1>6, TimeCases DEF Noticed
<1>7. ASSUME NEW r \in P!Service, P!Changes(r)
      PROVE  /\ at' = 0 => MissedBy(s, 0)'
             /\ at' # 0 => MissedBy(s, Interval)'
             /\ at' = 2 /\ s = "storage" => since'[s] <= Elapsed'
  <2>1. UNCHANGED <<run, at, failures, Elapsed>>
    BY <1>7 DEF P!Changes, P!ticker, P!result, Elapsed
  <2>2. CASE r = s
    <3>1. since'[s] = 0
      BY <1>7, <2>2 DEF P!Changes, P!TypeOK
    <3> QED
      BY <1>0, <2>1, <3>1
  <2>3. CASE r # s
    <3>1. UNCHANGED <<up[s], since[s]>>
      BY <1>7, <2>3 DEF P!Changes, P!TypeOK
    <3> QED
      BY <1>0, <2>1, <3>1 DEF Noticed
  <2> QED
    BY <2>2, <2>3
<1>8. CASE P!Off
  BY <1>8 DEF P!Off
<1>9. CASE UNCHANGED prober
  <2>1. UNCHANGED <<up, since, run, at, failures, Elapsed>>
    BY <1>9 DEF prober, Elapsed
  <2> QED
    BY <1>0, <2>1 DEF Noticed
<1> QED
  BY <1>1, <1>2, <1>3, <1>4, <1>5, <1>6, <1>7, <1>8, <1>9 DEF ProberStep

(* A probe that began when both services were well is over in no time.     *)
LEMMA RecoveredStep ==
  ASSUME P!TypeOK, P!TypeOK', Rhythm, Rhythm', Recovered, ProberStep, run' = "on"
  PROVE  Recovered'
<1> SUFFICES /\ at' = 0 /\ WellFor(Elapsed)' => ready' /\ lastErr' = P!None
             /\ at' # 0 /\ WellFor(Elapsed + Interval)' => ready' /\ lastErr' = P!None
             /\ at' # 0 /\ WellFor(Elapsed)' => prompt' /\ spent' = 0
  BY DEF Recovered
<1>0. /\ Interval \in Nat \ {0} /\ Elapsed \in 0..Interval /\ Elapsed' \in 0..Interval
      /\ \A s \in P!Service : since[s] \in Nat /\ since'[s] \in Nat
      /\ "storage" \in P!Service /\ "temporal" \in P!Service
  <2>1. Interval \in Nat \ {0} /\ "storage" \in P!Service /\ "temporal" \in P!Service
    BY WorkerAssumption DEF P!Service
  <2>2. \A s \in P!Service : since[s] \in Nat /\ since'[s] \in Nat
    BY WorkerAssumption DEF P!TypeOK
  <2> QED
    BY <2>1, <2>2, ElapsedType
<1> USE DEF WellFor
<1>1. CASE P!Start \/ P!Off
  <2>1. since'["storage"] = 0
    BY <1>0, <1>1 DEF Rhythm, P!Start, P!services, P!Off
  <2> QED
    BY <1>0, <2>1
<1>2. CASE P!Cancel \/ P!Return
  BY <1>2 DEF P!Cancel, P!Return
<1>3. CASE P!Begin
  <2>1. /\ run = "on" /\ tick /\ ~tick' /\ next' = next /\ at = 0 /\ at' = 1
        /\ prompt' = up["storage"] /\ spent' = 0
        /\ UNCHANGED <<up, since, ready, lastErr>>
    BY <1>3 DEF P!Begin, P!Calls, P!services, P!result, P!Checks
  <2>2. Elapsed = Interval /\ Elapsed' = 0
    BY <2>1, <1>0 DEF Rhythm, Elapsed
  <2> QED
    BY <1>0, <2>1, <2>2 DEF Recovered
<1>4. CASE P!Answers
  <2>1. run = "on" /\ UNCHANGED <<up, since, Elapsed>>
    BY <1>4, AnswersCases DEF Elapsed
  <2>2. CASE FirstAnswers
    BY <1>0, <2>1, <2>2 DEF FirstAnswers, Recovered
  <2>3. CASE SecondAnswers
    BY <2>3 DEF SecondAnswers
  <2> QED
    BY <1>4, <2>2, <2>3, AnswersCases
<1>5. CASE P!Errs
  <2>1. /\ run = "on" /\ UNCHANGED <<up, since, Elapsed>> /\ at # 0 /\ at' = 0
        /\ ~up["storage"] \/ ~up["temporal"] \/ spent = Interval
    BY <1>5, ErrsCases DEF Elapsed
  <2>2. ~ WellFor(Elapsed)
    BY <1>0, <2>1 DEF Recovered
  <2>3. ~ WellFor(Elapsed)'
    BY <2>1, <2>2
  <2> QED
    BY <2>1, <2>3
<1>6. CASE P!TimePasses
  <2>1. /\ run = "on" /\ UNCHANGED <<up, at, ready, lastErr>>
        /\ Elapsed' = Elapsed + 1
        /\ at # 0 => ~prompt
        /\ \A s \in P!Service : since'[s] <= since[s] + 1
    BY <1>6, TimeCases
  <2>2. ASSUME NEW s \in P!Service, up'[s], since'[s] > Elapsed'
        PROVE  up[s] /\ since[s] > Elapsed
    <3>1. up[s]
      BY <2>1, <2>2, Zenon
    <3>2. since[s] > Elapsed
      BY <1>0, <2>1, <2>2
    <3> QED
      BY <3>1, <3>2
  <2>3. WellFor(Elapsed)' => WellFor(Elapsed)
    BY <2>2
  <2>4. at # 0 => ~ WellFor(Elapsed)
    <3> HIDE DEF WellFor
    <3> QED
      BY <2>1, Zenon DEF Recovered
  <2>5. WellFor(Elapsed + Interval)' => WellFor(Elapsed)'
    BY <1>0
  <2> QED
    BY <2>1, <2>3, <2>4, <2>5 DEF Recovered
<1>7. ASSUME NEW s \in P!Service, P!Changes(s)
      PROVE  ~ WellFor(Elapsed)' /\ ~ WellFor(Elapsed + Interval)'
  <2>1. since'[s] = 0
    BY <1>7 DEF P!Changes, P!TypeOK
  <2> QED
    BY <1>0, <2>1
<1>8. CASE UNCHANGED prober
  <2>1. UNCHANGED <<up, since, run, at, prompt, spent, ready, lastErr, Elapsed>>
    BY <1>8 DEF prober, Elapsed
  <2> QED
    BY <2>1 DEF Recovered
<1> QED
  BY <1>1, <1>2, <1>3, <1>4, <1>5, <1>6, <1>7, <1>8 DEF ProberStep

LEMMA ProberInvStep ==
  ASSUME ProberInv, [Next]_vars
  PROVE  ProberInv'
<1>1. ProberStep
  BY StepsProber
<1>2. P!TypeOK' /\ Rhythm' /\ Series'
  BY <1>1, ProberType, RhythmStep, SeriesStep DEF ProberInv
<1>3. Noticed' /\ Recovered'
  <2>1. CASE run' = "on"
    BY <1>1, <1>2, <2>1, NoticedStep, RecoveredStep DEF ProberInv
  <2>2. CASE run' # "on"
    BY <2>2 DEF Noticed, Recovered
  <2> QED
    BY <2>1, <2>2
<1> QED
  BY <1>2, <1>3 DEF ProberInv

LEMMA ProberInvariance == Spec => []ProberInv
<1>1. Init => ProberInv
  BY ProberInit DEF Init
<1>2. ProberInv /\ [Next]_vars => ProberInv'
  BY ProberInvStep
<1> QED
  BY <1>1, <1>2, PTL DEF Spec

(* Whatever the other service does, one that is down for more than three   *)
(* intervals has taken the worker out of rotation.                         *)
THEOREM NoticesInTime == Spec => []DetectsInTime
<1>1. ProberInv => DetectsInTime
  <2> SUFFICES ASSUME ProberInv, run = "on", NEW s \in P!Service, ~up[s],
                      since[s] > 3 * Interval
      PROVE  ~ready
    BY DEF DetectsInTime, P!DetectsInTime
  <2>1. /\ Interval \in Nat /\ since[s] \in Nat /\ failures \in 0..2
        /\ Elapsed \in Nat /\ Elapsed <= Interval
    <3>1. Interval \in Nat /\ since[s] \in Nat /\ next \in 1..Interval
      BY WorkerAssumption DEF ProberInv, P!TypeOK
    <3>2. failures \in 0..2
      BY DEF ProberInv, P!TypeOK, P!failureThreshold
    <3>3. Elapsed = Interval \/ Elapsed = Interval - next
      BY Zenon DEF Elapsed
    <3> QED
      BY <3>1, <3>2, <3>3, Remainder
  <2>2. failures >= 2
    BY <2>1 DEF ProberInv, Noticed, MissedBy
  <2> QED
    BY <2>1, <2>2 DEF ProberInv, Series, P!failureThreshold
<1> QED
  BY <1>1, ProberInvariance, PTL

(* An interval after the last of its services came to be well the worker   *)
(* is in rotation and reports no error.                                    *)
THEOREM ReadyInTime == Spec => []HealthyIsReady
<1>1. ProberInv => HealthyIsReady
  <2> SUFFICES ASSUME ProberInv, run = "on", \A s \in P!Service : up[s] /\ since[s] > Interval
      PROVE  ready /\ lastErr = P!None
    BY DEF HealthyIsReady, P!HealthyIsReady
  <2>1. /\ Interval \in Nat \ {0} /\ \A s \in P!Service : since[s] \in Nat
        /\ next \in 1..Interval /\ at \in Nat
    BY WorkerAssumption DEF ProberInv, P!TypeOK, P!Checks
  <2>2. Elapsed \in 0..Interval
    <3>1. Elapsed = Interval \/ Elapsed = Interval - next
      BY Zenon DEF Elapsed
    <3> QED
      BY <2>1, <3>1, Remainder
  <2>3. WellFor(Elapsed)
    BY <2>1, <2>2 DEF WellFor
  <2>4. at # 0 => WellFor(Elapsed + Interval)
    <3>1. at # 0 => spent = 0 /\ spent = Elapsed
      BY <2>3 DEF ProberInv, Recovered, Rhythm
    <3> QED
      BY <2>1, <3>1 DEF WellFor
  <2> QED
    BY <2>3, <2>4 DEF ProberInv, Recovered
<1> QED
  BY <1>1, ProberInvariance, PTL

(* Only a second failure in a row takes a worker out of rotation.          *)
THEOREM ToleratesBlips == Spec => BlipTolerated
<1>1. ProberInv /\ [Next]_vars =>
        [ready /\ ~ready' /\ run' # "off" => lastErr # P!None /\ lastErr' # P!None]_(P!vars)
  <2> SUFFICES ASSUME ProberInv, [Next]_vars, ready, ~ready', run' # "off"
      PROVE  lastErr # P!None /\ lastErr' # P!None
    OBVIOUS
  <2>1. P!Errs
    <3>1. ProberStep
      BY StepsProber
    <3>2. CASE P!Answers
      <4>1. FirstAnswers \/ SecondAnswers
        BY <3>2, AnswersCases DEF ProberInv
      <4> QED
        BY <4>1 DEF FirstAnswers, SecondAnswers
    <3>3. ASSUME NEW s \in P!Service, P!Changes(s) PROVE FALSE
      BY <3>3 DEF P!Changes, P!result
    <3> QED
      BY <3>1, <3>2, <3>3 DEF ProberStep, P!Start, P!Cancel, P!Return, P!Begin, P!TimePasses, P!Off,
         P!result, prober
  <2>2. /\ failures \in 0..2 /\ ready' = (ready /\ failures' < 2) /\ lastErr' = P!Checks[at]
        /\ failures' = IF failures < 2 THEN failures + 1 ELSE failures
    BY <2>1 DEF P!Errs, P!Fails, P!failureThreshold, ProberInv, P!TypeOK
  <2>3. failures > 0
    <3>1. ~ (failures' < 2)
      BY <2>2, Zenon
    <3> QED
      BY <2>2, <3>1
  <2>4. lastErr' # P!None
    BY <2>1, <2>2 DEF P!Errs, P!Checks, ProberInv, P!TypeOK, P!None
  <2> QED
    BY <2>3, <2>4 DEF ProberInv, Series
<1> QED
  BY <1>1, ProberInvariance, PTL DEF Spec, BlipTolerated, P!BlipTolerated

-----------------------------------------------------------------------------
(* The main goroutine.  What is open is always a beginning of the list of  *)
(* resources, all of it from the first poll to the first deferred call.    *)
Resource == {"runtime", "store", "client", "poller"}

InOrder ==
  /\ opened \in Seq(Resource) /\ Len(opened) <= 4
  /\ \A i \in 1..Len(opened) : opened[i] = Resources[i]

Kinds ==
  /\ phase \in {"down", "opening", "applying", "serving", "shutdown", "closing"}
  /\ server \in {"off", "new", "listening", "failed", "closed"}
  /\ task \in [Task -> {"queued", "running", "lost", "done", "failed"}]
  /\ faults \in 0..MaxFaults

Flags == applied \in BOOLEAN /\ signalled \in BOOLEAN /\ connected \in BOOLEAN

Stages ==
  /\ phase \in {"applying", "serving", "shutdown"} => Len(opened) = 4
  /\ phase = "serving" => applied
  /\ server \in {"new", "listening"} => phase = "serving"

MainInv == Kinds /\ Flags /\ InOrder /\ Stages

LEMMA FourResources ==
  /\ Len(Resources) = 4 /\ Resources \in Seq(Resource)
  /\ Resources[1] = "runtime" /\ Resources[2] = "store"
  /\ Resources[3] = "client" /\ Resources[4] = "poller"
  BY DEF Resources, Resource

LEMMA Lengths ==
  ASSUME InOrder
  PROVE  opened \in Seq(Resource) /\ Len(opened) \in 0..4 /\ DOMAIN opened = 1..Len(opened)
<1>1. opened \in Seq(Resource) /\ Len(opened) <= 4
  BY DEF InOrder
<1>2. Len(opened) \in Nat /\ DOMAIN opened = 1..Len(opened)
  BY <1>1, LenProperties, Zenon
<1> QED
  BY <1>1, <1>2

LEMMA OneMore ==
  ASSUME InOrder, Len(opened) < 4, NEW r, r = Resources[Len(opened) + 1], opened' = Append(opened, r)
  PROVE  InOrder' /\ Len(opened') = Len(opened) + 1
<1>1. opened \in Seq(Resource) /\ Len(opened) \in 0..3
  BY Lengths
<1>2. r \in Resource
  BY <1>1, FourResources
<1>3. /\ opened' \in Seq(Resource) /\ Len(opened') = Len(opened) + 1
      /\ opened'[Len(opened) + 1] = r
      /\ \A i \in 1..Len(opened) : opened'[i] = opened[i]
  BY <1>1, <1>2
<1> QED
  BY <1>1, <1>3 DEF InOrder

LEMMA Shorter ==
  ASSUME NEW S, NEW s \in Seq(S), NEW n \in Nat, Len(s) = n + 1
  PROVE  /\ SubSeq(s, 1, n) \in Seq(S) /\ Len(SubSeq(s, 1, n)) = n
         /\ \A i \in 1..n : SubSeq(s, 1, n)[i] = s[i]
<1>1. \A i \in 1..n : s[i] \in S
  BY ElementOfSeq
<1>2. /\ SubSeq(s, 1, n) \in Seq(S)
      /\ Len(SubSeq(s, 1, n)) = IF 1 <= n THEN n - 1 + 1 ELSE 0
      /\ \A i \in 1 .. n - 1 + 1 : SubSeq(s, 1, n)[i] = s[1 + i - 1]
  BY <1>1, SubSeqProperties
<1>3. n - 1 + 1 = n /\ (~ (1 <= n) => n = 0) /\ \A i \in 1..n : 1 + i - 1 = i
  OBVIOUS
<1> QED
  BY <1>2, <1>3

LEMMA OneLess ==
  ASSUME InOrder, opened # <<>>, opened' = SubSeq(opened, 1, Len(opened) - 1)
  PROVE  InOrder'
<1>1. opened \in Seq(Resource) /\ Len(opened) \in 1..4
  BY Lengths, EmptySeq
<1>2. PICK n \in Nat : Len(opened) = n + 1 /\ Len(opened) - 1 = n /\ n <= 4
  <2>1. \A l \in 1..4 : \E n \in Nat : l = n + 1 /\ l - 1 = n /\ n <= 4
    OBVIOUS
  <2> QED
    BY <1>1, <2>1
<1>3. opened' = SubSeq(opened, 1, n)
  BY <1>2
<1>4. opened' \in Seq(Resource) /\ Len(opened') = n /\ \A i \in 1..n : opened'[i] = opened[i]
  BY <1>1, <1>2, <1>3, Shorter
<1> QED
  BY <1>1, <1>2, <1>4 DEF InOrder

LEMMA MainInit == Init => MainInv
<1> SUFFICES ASSUME Init PROVE MainInv
  OBVIOUS
<1>1. Kinds /\ Stages
  BY WorkerAssumption DEF Init, Kinds, Stages
<1>3. Flags
  BY DEF Init, Flags
<1>2. InOrder
  BY EmptySeq DEF Init, InOrder
<1> QED
  BY <1>1, <1>2, <1>3 DEF MainInv

LEMMA FlagsStep ==
  ASSUME Flags, [Next]_vars
  PROVE  Flags'
<1> USE DEF Flags
<1>1. CASE Main
  BY <1>1 DEF Main, Boot, Open, StartPolling, Applied, ApplyFails, BeginShutdown, ShutdownEnds,
              Close, Exit, Gone
<1>2. CASE OpenFails \/ ApplyFails \/ Listen \/ ListenFails \/ Disconnect
  BY <1>2 DEF OpenFails, ApplyFails, Listen, ListenFails, Disconnect, main
<1>3. CASE Signal \/ Crash
  BY <1>3 DEF Signal, Crash, Gone, main
<1>4. ASSUME NEW t \in Task, \/ Take(t) \/ Finish(t) \/ Retry(t)
                              \/ Denied(t) \/ TimesOut(t) \/ Expires(t)
      PROVE  Flags'
  BY <1>4 DEF Take, Finish, Retry, Denied, TimesOut, Expires, Move, main
<1>5. CASE Probing \/ Time \/ UNCHANGED vars \/ \E s \in P!Service : ServiceChanges(s)
  BY <1>5 DEF Probing, Time, ServiceChanges, vars, main
<1> QED
  BY <1>1, <1>2, <1>3, <1>4, <1>5 DEF Next

LEMMA MainInvStep ==
  ASSUME MainInv, [Next]_vars
  PROVE  MainInv'
<1> SUFFICES Kinds' /\ InOrder' /\ Stages'
  BY FlagsStep DEF MainInv
<1>0. Kinds /\ InOrder /\ Stages
  BY DEF MainInv
<1> USE WorkerAssumption DEF Kinds, Stages
<1>1. CASE Boot
  BY <1>0, <1>1 DEF Boot, InOrder
<1>2. CASE Open
  <2>1. Len(opened) < 3 /\ opened' = Append(opened, Resources[Len(opened) + 1])
    BY <1>0, <1>2, FourResources, Lengths DEF Open
  <2>2. InOrder'
    BY <1>0, <2>1, OneMore
  <2> QED
    BY <1>0, <1>2, <2>2 DEF Open
<1>3. CASE StartPolling
  <2>1. Len(opened) = 3 /\ opened' = Append(opened, Resources[Len(opened) + 1])
    BY <1>0, <1>3, FourResources, Lengths DEF StartPolling
  <2>2. InOrder' /\ Len(opened') = 4
    BY <1>0, <2>1, OneMore
  <2> QED
    BY <1>0, <1>3, <2>2 DEF StartPolling
<1>4. CASE OpenFails \/ ApplyFails
  BY <1>0, <1>4 DEF OpenFails, ApplyFails, Faulty, InOrder
<1>5. CASE Applied
  <2>1. /\ applied' = TRUE /\ phase' = "serving" /\ server' = "new" /\ phase = "applying"
        /\ UNCHANGED <<opened, task, faults>>
    BY <1>5 DEF Applied
  <2> QED
    BY <1>0, <2>1 DEF InOrder
<1>6. CASE Listen \/ ListenFails \/ Disconnect
  BY <1>0, <1>6 DEF Listen, ListenFails, Disconnect, Faulty, InOrder, main
<1>7. CASE Signal
  BY <1>0, <1>7 DEF Signal, Faulty, InOrder, main
<1>8. CASE BeginShutdown \/ ShutdownEnds
  BY <1>0, <1>8 DEF BeginShutdown, ShutdownEnds, InOrder
<1>9. CASE Close
  <2>1. InOrder'
    BY <1>0, <1>9, OneLess DEF Close
  <2> QED
    BY <1>0, <1>9, <2>1 DEF Close
<1>10. CASE Exit \/ Crash
  <2>1. /\ phase' = "down" /\ opened' = <<>> /\ server' = "off"
        /\ task' = [t \in Task |-> IF task[t] = "running" THEN "lost" ELSE task[t]]
        /\ faults' = faults \/ (faults < MaxFaults /\ faults' = faults + 1)
    BY <1>10 DEF Exit, Crash, Gone, Faulty
  <2>2. InOrder'
    BY <2>1, EmptySeq DEF InOrder
  <2> QED
    BY <1>0, <2>1, <2>2
<1>11. ASSUME NEW t \in Task, \/ Take(t) \/ Finish(t) \/ Retry(t)
                               \/ Denied(t) \/ TimesOut(t) \/ Expires(t)
       PROVE  Kinds' /\ InOrder' /\ Stages'
  BY <1>0, <1>11 DEF Take, Finish, Retry, Denied, TimesOut, Expires, Move, Faulty, InOrder, main
<1>12. ASSUME UNCHANGED <<main, signalled, server, connected, task, faults>>
       PROVE  Kinds' /\ InOrder' /\ Stages'
  BY <1>0, <1>12 DEF InOrder, main
<1>13. CASE Probing \/ Time \/ UNCHANGED vars \/ \E s \in P!Service : ServiceChanges(s)
  BY <1>12, <1>13 DEF Probing, Time, ServiceChanges, vars
<1> QED
  BY <1>1, <1>2, <1>3, <1>4, <1>5, <1>6, <1>7, <1>8, <1>9, <1>10, <1>11, <1>13 DEF Next, Main

LEMMA MainInvariance == Spec => []MainInv
<1>1. Init => MainInv
  BY MainInit
<1>2. MainInv /\ [Next]_vars => MainInv'
  BY MainInvStep
<1> QED
  BY <1>1, <1>2, PTL DEF Spec

LEMMA OpenedUpTo ==
  ASSUME InOrder
  PROVE  /\ opened = SubSeq(Resources, 1, Len(opened))
         /\ Opened("poller") <=> Len(opened) = 4
         /\ Len(opened) >= 3 => Opened("store") /\ Opened("client")
<1>1. opened \in Seq(Resource) /\ Len(opened) \in 0..4 /\ DOMAIN opened = 1..Len(opened)
  BY Lengths
<1>2. opened = SubSeq(Resources, 1, Len(opened))
  BY <1>1, FourResources DEF InOrder
<1>3. Opened("poller") <=> Len(opened) = 4
  BY <1>1, FourResources DEF InOrder, Opened
<1>4. Len(opened) >= 3 => Opened("store") /\ Opened("client")
  BY <1>1, FourResources DEF InOrder, Opened
<1> QED
  BY <1>2, <1>3, <1>4

(* A process that fails, stops or dies at any point leaves every variable  *)
(* within its type, and closes its resources in reverse order.             *)
THEOREM TypeCorrect == Spec => []TypeOK
<1>1. MainInv /\ ProberInv => TypeOK
  BY OpenedUpTo DEF MainInv, Kinds, Flags, ProberInv, TypeOK
<1> QED
  BY <1>1, MainInvariance, ProberInvariance, PTL

(* A worker that reports to be ready has applied the schedules and polls   *)
(* for tasks, with the store and the client they need.                     *)
THEOREM ReadyWorkersWork == Spec => []ReadyMeansWorking
<1>1. MainInv => ReadyMeansWorking
  BY OpenedUpTo DEF MainInv, Stages, ReadyzOK, ReadyMeansWorking
<1> QED
  BY <1>1, MainInvariance, PTL
=============================================================================
