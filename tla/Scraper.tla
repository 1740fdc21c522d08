------------------------------ MODULE Scraper -------------------------------
(***************************************************************************)
(* One run of the scrape activity: Scraper.Scrape driving a collector that *)
(* walks the pages of an AWS listing and hands every object to `emit',     *)
(* which gathers documents into batches and flushes full batches into the  *)
(* Elasticsearch store.                                                    *)
(*                                                                         *)
(* An object is its document id: Document.ID joins account, region, type   *)
(* and resource id, of which only the last varies within one call.  A      *)
(* listing is not a snapshot, so an object may be emitted more than once.  *)
(***************************************************************************)
EXTENDS Naturals, Sequences, FiniteSets

CONSTANTS Object,           \* the objects the listing returns
          BatchSize,        \* storage.elasticsearch.batch_size
          MaxEmits          \* bound: emit calls of one run

ASSUME ScraperAssumption ==
  /\ IsFiniteSet(Object)
  /\ BatchSize \in Nat \ {0}          \* config.Validate rejects less than 1
  /\ MaxEmits \in Nat

VARIABLES
  pc,          \* "collect" | "flush": inside emit | "last": final flush | "returned"
  emitted,     \* objects the collector has handed to emit
  batch,       \* documents gathered since the last successful flush
  result,      \* Result{Count, Batches}
  progress,    \* argument of the latest progress call, the heartbeat's details
  err,         \* "none", or why Scrape returned an error
  index        \* objects with a document in the store

vars == <<pc, emitted, batch, result, progress, err, index>>

(* Errors as classify tells them apart: an AWS permission error, or other. *)
Failure == {"permission", "other"}

Elems(s) == {s[i] : i \in DOMAIN s}

Init ==
  /\ pc = "collect" /\ emitted = {} /\ batch = <<>>
  /\ result = [count |-> 0, batches |-> 0]
  /\ progress = 0 /\ err = "none"
  /\ index \in SUBSET Object          \* what earlier runs of the day left

-----------------------------------------------------------------------------
(* Mutant of Emit: a batch is flushed only once it is past its size.       *)
EmitLate(o) ==
  /\ pc = "collect" /\ result.count < MaxEmits
  /\ emitted' = emitted \cup {o}
  /\ batch' = Append(batch, o)
  /\ result' = [result EXCEPT !.count = @ + 1]
  /\ pc' = IF Len(batch') > BatchSize THEN "flush" ELSE "collect"
  /\ UNCHANGED <<progress, err, index>>

(* The collector hands over its next object.                               *)
Emit(o) ==
  /\ pc = "collect" /\ result.count < MaxEmits
  /\ emitted' = emitted \cup {o}
  /\ batch' = Append(batch, o)
  /\ result' = [result EXCEPT !.count = @ + 1]
  /\ pc' = IF Len(batch') >= BatchSize THEN "flush" ELSE "collect"
  /\ UNCHANGED <<progress, err, index>>

(* Mutant of CollectFails: a page that fails ends the listing.             *)
FailureSwallowed(kind) ==
  /\ pc = "collect"
  /\ pc' = "returned"
  /\ UNCHANGED <<emitted, batch, result, progress, err, index>>

(* An AWS call of the collector fails, or an object does not marshal:      *)
(* Scrape returns at once, without flushing what it has gathered.          *)
CollectFails(kind) ==
  /\ pc = "collect"
  /\ err' = kind /\ pc' = "returned"
  /\ UNCHANGED <<emitted, batch, result, progress, index>>

(* Mutant of CollectEnds: the final flush is forgotten.                    *)
NoFinalFlush ==
  /\ pc = "collect" /\ emitted = Object
  /\ pc' = "returned"
  /\ UNCHANGED <<emitted, batch, result, progress, err, index>>

(* The listing has no more pages.                                          *)
CollectEnds ==
  /\ pc = "collect" /\ emitted = Object
  /\ pc' = "last"
  /\ UNCHANGED <<emitted, batch, result, progress, err, index>>

Flushing == pc \in {"flush", "last"} /\ batch # <<>>

(* The answers to a bulk request, and the documents it has indexed by      *)
(* then: any part of the batch, also with an error status, that of a       *)
(* gateway for one.  What a request without an answer indexes later is in  *)
(* AccountScrape.                                                          *)
Bulk == [applied : SUBSET Elems(batch),
         answer : {"lost", "errorStatus", "undecodable", "items"}]

(* Mutant of Write: a 200 answer is taken for success, rejected items and  *)
(* all.                                                                    *)
ItemsIgnored(b) == b.answer = "items"

(* Client.Write returns nil only for a decoded answer without errors.      *)
Write(b) == b.answer = "items" /\ b.applied = Elems(batch)

(* Mutant of FlushSucceeds: the count so far is added to the last report.  *)
ProgressAddsUp ==
  /\ Flushing
  /\ \E b \in Bulk : Write(b) /\ index' = index \cup b.applied
  /\ result' = [result EXCEPT !.batches = @ + 1]
  /\ batch' = <<>>
  /\ progress' = progress + result.count
  /\ pc' = IF pc = "flush" THEN "collect" ELSE "returned"
  /\ UNCHANGED <<emitted, err>>

FlushSucceeds ==
  /\ Flushing
  /\ \E b \in Bulk : Write(b) /\ index' = index \cup b.applied
  /\ result' = [result EXCEPT !.batches = @ + 1]
  /\ batch' = <<>>
  /\ progress' = result.count
  /\ pc' = IF pc = "flush" THEN "collect" ELSE "returned"
  /\ UNCHANGED <<emitted, err>>

(* The error stops the collector and is what Scrape returns.               *)
FlushFails ==
  /\ Flushing
  /\ \E b \in Bulk : ~Write(b) /\ index' = index \cup b.applied
  /\ err' = "other" /\ pc' = "returned"
  /\ UNCHANGED <<emitted, batch, result, progress>>

(* The final flush finds an empty batch.                                   *)
NothingToFlush ==
  /\ pc = "last" /\ batch = <<>>
  /\ pc' = "returned"
  /\ UNCHANGED <<emitted, batch, result, progress, err, index>>

Next ==
  \/ \E o \in Object : Emit(o)
  \/ \E kind \in Failure : CollectFails(kind)
  \/ CollectEnds
  \/ FlushSucceeds
  \/ FlushFails
  \/ NothingToFlush

Spec == Init /\ [][Next]_vars

-----------------------------------------------------------------------------
TypeOK ==
  /\ pc \in {"collect", "flush", "last", "returned"}
  /\ emitted \in SUBSET Object
  /\ batch \in Seq(Object)
  /\ result \in [count : 0..MaxEmits, batches : Nat]
  /\ progress \in 0..MaxEmits
  /\ err \in Failure \cup {"none"}
  /\ index \in SUBSET Object

(* A scrape that returns without an error has a document in the store for  *)
(* every object the listing returned, and has lost none in a batch it      *)
(* never flushed: scraper.go returns nil only after its final flush.       *)
SuccessIsComplete ==
  pc = "returned" /\ err = "none" => emitted = Object /\ Object \subseteq index

(* "Scrape calls progress after every flushed batch with the number of     *)
(* objects written so far": the heartbeat never counts an object that is   *)
(* still only in the batch, whatever failed, and never misses one that a   *)
(* successful flush wrote.                                                 *)
ProgressIsWritten ==
  /\ progress + Len(batch) = result.count
  /\ emitted \ Elems(batch) \subseteq index

(* A bulk request carries batch_size documents, only the last one of a     *)
(* scrape may carry fewer, and Result.Batches counts them: Count objects   *)
(* need exactly the fewest requests that batch_size allows.                *)
BatchesAreFull ==
  /\ Len(batch) <= BatchSize
  /\ pc = "returned" /\ err = "none" =>
       /\ result.batches * BatchSize >= result.count
       /\ result.count > (result.batches - 1) * BatchSize \/ result.batches = 0

(* The call keeps the contract the account workflow relies on.             *)
Contract == INSTANCE ScrapeContract
  WITH stored <- index,
       status <- IF pc # "returned" THEN "running"
                 ELSE IF err = "none" THEN "ok" ELSE "failed"
KeepsContract == Contract!Spec
=============================================================================
