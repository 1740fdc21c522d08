--------------------------- MODULE ScrapeContract ---------------------------
(***************************************************************************)
(* What one call of Scraper.Scrape promises to the activity that calls it, *)
(* with the collector's pages, the batches and the bulk requests left out: *)
(* documents only ever appear while the call runs, and a call that returns *)
(* without an error leaves a document for every object of its target in    *)
(* the store.  A call that fails promises nothing about what it wrote.     *)
(***************************************************************************)
CONSTANT Object             \* the objects of one account, type and region

VARIABLES stored,           \* the objects that have a document in the store
          status            \* "running", "ok" or "failed"

vars == <<stored, status>>

Init == stored \in SUBSET Object /\ status = "running"

(* A bulk request leaves some more documents behind.                       *)
Write ==
  /\ status = "running"
  /\ stored' \in SUBSET Object /\ stored \subseteq stored'
  /\ UNCHANGED status

(* The call returns, possibly as the outcome of its last bulk request.     *)
Return ==
  /\ status = "running"
  /\ stored' \in SUBSET Object /\ stored \subseteq stored'
  /\ \/ status' = "ok" /\ stored' = Object
     \/ status' = "failed"

Next == Write \/ Return

Spec == Init /\ [][Next]_vars
=============================================================================
