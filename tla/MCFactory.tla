----------------------------- MODULE MCFactory ------------------------------
(* A worker that is asked for an account of one schedule before and after   *)
(* `schedule apply' has given the schedule a new external id, and for       *)
(* another account.                                                         *)
EXTENDS Factory

Rotated == [name |-> "a", role |-> "ra", external |-> "new"]
Other == [name |-> "b", role |-> "rb", external |-> ""]
MCAccount == {[Rotated EXCEPT !.external = "old"], Rotated, Other}
=============================================================================
