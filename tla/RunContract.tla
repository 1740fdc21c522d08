---------------------------- MODULE RunContract -----------------------------
(***************************************************************************)
(* What one run of AccountScrape promises to whoever started it, with the  *)
(* attempts, the retries and the replays left out: about every target of   *)
(* the account there is one verdict, which nothing changes once it is      *)
(* known, and the answer of the run, given when all of them are known, is  *)
(* their sum.                                                              *)
(***************************************************************************)
EXTENDS Naturals, FiniteSets, FiniteSetsExt

CONSTANTS Target,           \* the targets of the account
          Most              \* bound: objects of one target

VARIABLES verdict,          \* per target: none yet, or one
          status,           \* "new", "running", "completed" or "failed"
          answer            \* what the run has answered: nothing yet, or the sum

vars == <<verdict, status, answer>>

Verdict == [ok : {TRUE}, count : 0..Most] \cup [ok : {FALSE}, count : {0}]
Failed == {i \in Target : \E v \in verdict[i] : ~v.ok}
Given == [i \in Target |-> (CHOOSE v \in verdict[i] : TRUE).count]

Init ==
  /\ verdict = [i \in Target |-> {}]
  /\ status = "new" /\ answer = {}

Start ==
  /\ status = "new" /\ status' = "running"
  /\ UNCHANGED <<verdict, answer>>

Decide(i) ==
  /\ status = "running" /\ verdict[i] = {}
  /\ \E v \in Verdict : verdict' = [verdict EXCEPT ![i] = {v}]
  /\ UNCHANGED <<status, answer>>

(* A run fails only when every one of its targets did.                     *)
Close ==
  /\ status = "running" /\ \A i \in Target : verdict[i] # {}
  /\ status' = IF Failed = Target /\ Target # {} THEN "failed" ELSE "completed"
  /\ answer' = {[count |-> SumFunctionOnSet(Given, Target), failed |-> Cardinality(Failed)]}
  /\ UNCHANGED verdict

Next == Start \/ Close \/ \E i \in Target : Decide(i)

Spec == Init /\ [][Next]_vars
=============================================================================
