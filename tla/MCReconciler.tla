---------------------------- MODULE MCReconciler ----------------------------
(* Two accounts, of which one configuration has the first with its billing *)
(* and the other the second alone, with other settings.                    *)
EXTENDS Reconciler, TLC

CONSTANTS a, b, v1, v2

First  == [accounts |-> {a}, billing |-> {a}, settings |-> [x \in Account |-> v1]]
Second == [accounts |-> {b}, billing |-> {}, settings |-> [x \in Account |-> v2]]

Both == {First, Second}
OnlyFirst == {First}

(* What an older configuration, with billing for the first account only,   *)
(* and the rest of the namespace left behind.                              *)
Left == [rev |-> v2, paused |-> FALSE]
Older == {[id \in Id |-> IF id = BillingID(b) THEN Absent ELSE Left]}
Empty == {[id \in Id |-> Absent]}
Anything == [Id -> {Absent, Left}]

Symmetry == Permutations(Replica)
=============================================================================
