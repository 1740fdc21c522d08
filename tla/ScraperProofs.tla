--------------------------- MODULE ScraperProofs ----------------------------
(***************************************************************************)
(* What a scrape guarantees for every set of objects, every batch size and *)
(* any number of emitted objects.                                          *)
(***************************************************************************)
EXTENDS Scraper, TLAPS

(* What a batch holds, as objects are added to it.                         *)
LEMMA ElemsAppend ==
  ASSUME NEW s \in Seq(Object), NEW o \in Object
  PROVE  Elems(Append(s, o)) = Elems(s) \cup {o}
<1>1. DOMAIN Append(s, o) = DOMAIN s \cup {Len(s) + 1}
  OBVIOUS
<1>2. \A i \in DOMAIN s : Append(s, o)[i] = s[i]
  OBVIOUS
<1>3. Append(s, o)[Len(s) + 1] = o
  OBVIOUS
<1>4. Len(s) + 1 \notin DOMAIN s
  OBVIOUS
<1> QED
  BY <1>1, <1>2, <1>3, <1>4 DEF Elems

LEMMA ElemsEmpty == Elems(<<>>) = {}
  BY DEF Elems

(* The inductive invariant.  Until the final flush every batch written was *)
(* full, and the size of the batch says where in emit the scrape is.       *)
Filling ==
  /\ pc = "collect" => Len(batch) < BatchSize
  /\ pc = "flush" => Len(batch) = BatchSize
  /\ pc = "last" => Len(batch) < BatchSize /\ emitted = Object
  /\ pc = "returned" => Len(batch) <= BatchSize
  /\ pc # "returned" => result.batches * BatchSize = progress /\ err = "none"

ScrapeInv ==
  TypeOK /\ Filling /\ ProgressIsWritten /\ SuccessIsComplete /\ BatchesAreFull

LEMMA InitInv == Init => ScrapeInv
<1> SUFFICES ASSUME Init PROVE ScrapeInv
  OBVIOUS
<1> USE ScraperAssumption, ElemsEmpty DEF Init
<1>1. TypeOK
  BY DEF TypeOK
<1>2. Filling
  BY DEF Filling
<1>3. ProgressIsWritten /\ SuccessIsComplete /\ BatchesAreFull
  BY DEF ProgressIsWritten, SuccessIsComplete, BatchesAreFull
<1> QED
  BY <1>1, <1>2, <1>3 DEF ScrapeInv

LEMMA BatchElems == TypeOK => Elems(batch) \subseteq Object
  BY DEF TypeOK, Elems

(* Taking an object in.                                                    *)
LEMMA EmitStep == ASSUME ScrapeInv, NEW o \in Object, Emit(o) PROVE ScrapeInv'
<1> USE ScraperAssumption DEF ScrapeInv
<1>1. /\ batch' = Append(batch, o) /\ Len(batch') = Len(batch) + 1
      /\ batch' \in Seq(Object) /\ batch \in Seq(Object)
  BY DEF Emit, TypeOK
<1>2. Elems(batch') = Elems(batch) \cup {o}
  BY <1>1, ElemsAppend
<1>3. result'.count = result.count + 1 /\ result'.batches = result.batches
  BY DEF Emit, TypeOK
<1>4. TypeOK'
  BY <1>1, <1>3 DEF Emit, TypeOK
<1>5. Filling'
  BY <1>1, <1>3 DEF Emit, TypeOK, Filling
<1>6. ProgressIsWritten'
  BY <1>1, <1>2, <1>3 DEF Emit, TypeOK, ProgressIsWritten
<1>7. SuccessIsComplete' /\ BatchesAreFull'
  BY <1>1 DEF Emit, TypeOK, Filling, SuccessIsComplete, BatchesAreFull
<1> QED
  BY <1>4, <1>5, <1>6, <1>7

(* A successful flush, in the middle of the listing or at its end.         *)
LEMMA FlushStep == ASSUME ScrapeInv, FlushSucceeds PROVE ScrapeInv'
<1> USE ScraperAssumption DEF ScrapeInv
<1>1. index' = index \cup Elems(batch)
  BY DEF FlushSucceeds, Write, Bulk
<1>2. /\ batch' = <<>> /\ Len(batch') = 0 /\ batch' \in Seq(Object)
      /\ Len(batch) \in Nat \ {0}
  BY DEF FlushSucceeds, Flushing, TypeOK
<1>3. /\ result'.count = result.count /\ result'.batches = result.batches + 1
      /\ progress' = result.count
  BY DEF FlushSucceeds, TypeOK
<1>4. TypeOK'
  BY <1>1, <1>2, <1>3, BatchElems DEF FlushSucceeds, Flushing, TypeOK
<1>5. progress' = progress + Len(batch)
  BY <1>3 DEF ProgressIsWritten, TypeOK
<1>6. result'.batches * BatchSize = result.batches * BatchSize + BatchSize
  BY <1>3 DEF TypeOK
<1>7. Filling'
  <2>1. CASE pc = "flush"
    BY <2>1, <1>2, <1>3, <1>5, <1>6 DEF FlushSucceeds, Filling
  <2>2. CASE pc = "last"
    BY <2>2, <1>2 DEF FlushSucceeds, Filling
  <2> QED
    BY <2>1, <2>2 DEF FlushSucceeds, Flushing
<1>8. ProgressIsWritten'
  BY <1>1, <1>2, <1>3, ElemsEmpty DEF FlushSucceeds, ProgressIsWritten, TypeOK
<1>9. SuccessIsComplete'
  BY <1>1 DEF FlushSucceeds, Flushing, Filling, ProgressIsWritten, SuccessIsComplete, TypeOK
<1>10. BatchesAreFull'
  <2>1. CASE pc = "flush"
    BY <2>1, <1>2 DEF FlushSucceeds, BatchesAreFull
  <2>2. CASE pc = "last"
    <3>1. /\ result'.count = result.batches * BatchSize + Len(batch)
          /\ Len(batch) < BatchSize
      BY <2>2, <1>2, <1>3, <1>5 DEF Filling, TypeOK
    <3>2. (result'.batches - 1) * BatchSize = result.batches * BatchSize
      BY <1>3 DEF TypeOK
    <3>3. result.batches * BatchSize \in Nat
      BY DEF TypeOK
    <3> QED
      BY <3>1, <3>2, <3>3, <1>2, <1>6 DEF BatchesAreFull, TypeOK
  <2> QED
    BY <2>1, <2>2 DEF FlushSucceeds, Flushing
<1> QED
  BY <1>4, <1>7, <1>8, <1>9, <1>10

(* The other steps leave the counters alone.                               *)
LEMMA OtherStep ==
  ASSUME ScrapeInv,
         FlushFails \/ CollectEnds \/ NothingToFlush \/ \E kind \in Failure : CollectFails(kind)
  PROVE  ScrapeInv'
<1> USE ScraperAssumption DEF ScrapeInv
<1>1. CASE FlushFails
  <2>1. PICK docs \in SUBSET Elems(batch) : index' = index \cup docs
    BY <1>1 DEF FlushFails, Bulk
  <2>2. TypeOK'
    BY <1>1, <2>1, BatchElems DEF FlushFails, TypeOK, Failure
  <2> QED
    BY <1>1, <2>1, <2>2 DEF FlushFails, Flushing, Filling, ProgressIsWritten,
       SuccessIsComplete, BatchesAreFull
<1>2. CASE CollectEnds
  BY <1>2 DEF CollectEnds, TypeOK, Filling, ProgressIsWritten, SuccessIsComplete,
     BatchesAreFull, Elems
<1>3. CASE NothingToFlush
  <2>1. Len(batch) = 0 /\ Elems(batch) = {}
    BY <1>3, ElemsEmpty DEF NothingToFlush
  <2>2. result.count = result.batches * BatchSize
    BY <1>3, <2>1 DEF NothingToFlush, Filling, ProgressIsWritten, TypeOK
  <2>3. (result.batches - 1) * BatchSize = result.batches * BatchSize - BatchSize
    BY DEF TypeOK
  <2>4. BatchesAreFull'
    BY <1>3, <2>1, <2>2, <2>3 DEF NothingToFlush, BatchesAreFull, TypeOK
  <2> QED
    BY <1>3, <2>1, <2>4 DEF NothingToFlush, TypeOK, Filling, ProgressIsWritten,
       SuccessIsComplete, Elems
<1>4. ASSUME NEW kind \in Failure, CollectFails(kind) PROVE ScrapeInv'
  BY <1>4 DEF CollectFails, TypeOK, Failure, Filling, ProgressIsWritten,
     SuccessIsComplete, BatchesAreFull, Elems
<1> QED
  BY <1>1, <1>2, <1>3, <1>4

LEMMA Invariance == Spec => []ScrapeInv
<1>1. Init => ScrapeInv
  BY InitInv
<1>2. ScrapeInv /\ [Next]_vars => ScrapeInv'
  <2> SUFFICES ASSUME ScrapeInv, [Next]_vars PROVE ScrapeInv'
    OBVIOUS
  <2>1. CASE UNCHANGED vars
    BY <2>1 DEF vars, ScrapeInv, TypeOK, Filling, ProgressIsWritten, SuccessIsComplete,
       BatchesAreFull, Elems
  <2>2. CASE Next
    BY <2>2, EmitStep, FlushStep, OtherStep DEF Next
  <2> QED
    BY <2>1, <2>2
<1> QED
  BY <1>1, <1>2, PTL DEF Spec

-----------------------------------------------------------------------------
(* The variables of a scrape keep their types.                             *)
THEOREM TypeCorrect == Spec => []TypeOK
<1>1. ScrapeInv => TypeOK
  BY DEF ScrapeInv
<1> QED
  BY <1>1, Invariance, PTL

(* A scrape that succeeds has stored every object the listing returned.    *)
THEOREM SuccessStores == Spec => []SuccessIsComplete
<1>1. ScrapeInv => SuccessIsComplete
  BY DEF ScrapeInv
<1> QED
  BY <1>1, Invariance, PTL

(* The heartbeat's count is that of the objects written, at every moment.  *)
THEOREM ProgressHonest == Spec => []ProgressIsWritten
<1>1. ScrapeInv => ProgressIsWritten
  BY DEF ScrapeInv
<1> QED
  BY <1>1, Invariance, PTL

(* No bulk request but the last carries fewer than batch_size documents.   *)
THEOREM RequestsAreFull == Spec => []BatchesAreFull
<1>1. ScrapeInv => BatchesAreFull
  BY DEF ScrapeInv
<1> QED
  BY <1>1, Invariance, PTL

-----------------------------------------------------------------------------
(* Refinement: emits and the end of the listing are stutters, a flush is a *)
(* Write or, when it is the last one or fails, the Return.                 *)
LEMMA InitContract == Init => Contract!Init
  BY DEF Init, Contract!Init

LEMMA StepContract ==
  ASSUME ScrapeInv, ScrapeInv', [Next]_vars
  PROVE  [Contract!Next]_(Contract!vars)
<1> DEFINE Status == IF pc # "returned" THEN "running"
                     ELSE IF err = "none" THEN "ok" ELSE "failed"
<1> USE DEF ScrapeInv, Contract!Next, Contract!Write, Contract!Return, Contract!vars
<1>1. ASSUME NEW o \in Object, Emit(o) PROVE UNCHANGED <<index, Status>>
  BY <1>1 DEF Emit
<1>2. CASE CollectEnds
  BY <1>2 DEF CollectEnds
<1>3. ASSUME NEW kind \in Failure, CollectFails(kind) PROVE Contract!Return
  BY <1>3 DEF CollectFails, TypeOK, Failure
<1>4. CASE FlushSucceeds
  <2>1. /\ index \subseteq index' /\ index' \in SUBSET Object
        /\ Status = "running" /\ err' = "none"
    BY <1>4 DEF FlushSucceeds, Flushing, Filling, TypeOK
  <2>2. CASE pc = "flush"
    BY <1>4, <2>1, <2>2 DEF FlushSucceeds
  <2>3. CASE pc = "last"
    <3>1. pc' = "returned" /\ index' = Object
      BY <1>4, <2>1, <2>3 DEF FlushSucceeds, SuccessIsComplete
    <3> QED
      BY <2>1, <3>1
  <2> QED
    BY <1>4, <2>2, <2>3 DEF FlushSucceeds, Flushing
<1>5. CASE FlushFails
  BY <1>5 DEF FlushFails, Flushing, TypeOK
<1>6. CASE NothingToFlush
  <2>1. pc' = "returned" /\ pc = "last" /\ err' = "none" /\ index' = Object /\ index = Object
    BY <1>6 DEF NothingToFlush, Filling, SuccessIsComplete, TypeOK
  <2> QED
    BY <2>1
<1>7. CASE UNCHANGED vars
  BY <1>7 DEF vars
<1> QED
  BY <1>1, <1>2, <1>3, <1>4, <1>5, <1>6, <1>7 DEF Next

(* Scraper.Scrape keeps the contract the account workflow relies on.       *)
THEOREM ScrapeKeepsContract == Spec => KeepsContract
<1>1. Init => Contract!Init
  BY InitContract
<1>2. ScrapeInv /\ ScrapeInv' /\ [Next]_vars => [Contract!Next]_(Contract!vars)
  BY StepContract
<1> QED
  BY <1>1, <1>2, Invariance, PTL DEF Spec, KeepsContract, Contract!Spec
=============================================================================
