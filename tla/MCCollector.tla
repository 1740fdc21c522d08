---------------------------- MODULE MCCollector -----------------------------
EXTENDS Collector

(* Two months of two days.                                                 *)
MCFirstOf == [d \in Day |-> IF d < 2 THEN 0 ELSE 2]
=============================================================================
