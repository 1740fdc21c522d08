----------------------------- MODULE Collector ------------------------------
(***************************************************************************)
(* One Collect call: the pages of an AWS listing are fetched one after the *)
(* other, their objects described where the listing does not describe      *)
(* them, and emitted, while the account goes on changing.                  *)
(*                                                                         *)
(* The ten collectors differ in three things: whether they first list the  *)
(* ECS clusters and then go through one cluster at a time, how an object   *)
(* of a page is described, and whether a total follows.  An object is a    *)
(* number within its cluster, in the order AWS lists them; a page token    *)
(* says up to which number the listing has come, and tokens past the last  *)
(* object end it.  The objects of the billing collector are the services   *)
(* that have cost something in the month.                                  *)
(***************************************************************************)
EXTENDS Naturals, FiniteSets

CONSTANTS Cluster,          \* ECS clusters
          Home,             \* stands for the whole account where there are none
          Last,             \* bound: objects are numbered 1..Last
          PageSize,         \* most objects AWS puts on a page
          MaxChanges,       \* bound: objects created or deleted, clusters deleted
          MaxFaults,        \* bound: calls that fail, of AWS or of emit
          LastDay,          \* bound: the days are numbered 0..LastDay
          FirstOf           \* the first day of the month of a day

Day == 0..LastDay

ASSUME CalendarAssumption ==
  /\ LastDay \in Nat
  /\ FirstOf \in [Day -> Day]
  /\ \A d \in Day : FirstOf[d] <= d /\ \A e \in FirstOf[d] .. d : FirstOf[e] = FirstOf[d]

ASSUME CollectorAssumption ==
  /\ Home \notin Cluster /\ IsFiniteSet(Cluster)
  /\ {Last, PageSize} \subseteq Nat \ {0}
  /\ {MaxChanges, MaxFaults} \subseteq Nat

(* What a listing says of an object: everything ("none"), its name, to     *)
(* describe a page of them by in one call ("batch"), which leaves out or   *)
(* still knows those that are gone, or its name, for calls about it alone, *)
(* which fail once it is gone ("each") or answer all the same ("kept").    *)
RdsInstances       == [nested |-> FALSE, detail |-> "none"]
RdsClusters        == [nested |-> FALSE, detail |-> "none"]
EcsClusters        == [nested |-> FALSE, detail |-> "batch"]
EcsServices        == [nested |-> TRUE,  detail |-> "batch"]
EcsTasks           == [nested |-> TRUE,  detail |-> "batch"]
EcsTaskDefinitions == [nested |-> FALSE, detail |-> "kept"]
CacheClusters      == [nested |-> FALSE, detail |-> "each"]
ReplicationGroups  == [nested |-> FALSE, detail |-> "each"]
IamUsers           == [nested |-> FALSE, detail |-> "each"]
Billing            == [nested |-> FALSE, detail |-> "cost"]

Collectors == {RdsInstances, RdsClusters, EcsClusters, EcsServices, EcsTasks,
               EcsTaskDefinitions, CacheClusters, ReplicationGroups, IamUsers, Billing}

VARIABLES
  kind,        \* which collector
  clusters,    \* the ECS clusters that exist
  estate,      \* the objects that exist, per cluster
  pc,          \* "start" | "list" | "describe" | "emit" | "total" | "done" | "failed"
  queue,       \* listed clusters still to go through
  here, token, \* the cluster the listing is about and how far it has come
  page,        \* objects of the page still to be described or emitted
  emitted,     \* objects given to emit
  count,       \* calls of emit
  today,       \* the date
  period,      \* what billing asks Cost Explorer for, from the first day to
               \* the last, and the month it puts into the ids
  months,      \* history: the months in the ids given to emit
  stable,      \* history: objects that existed all along
  changes, faults

account == <<clusters, estate, stable, changes>>
listing == <<queue, here, token>>
bill == <<today, period, months>>
vars == <<kind, account, pc, listing, page, emitted, count, bill, faults>>

Number == 1..Last
Object == (Cluster \cup {Home}) \X Number
Exists(c, n) == <<c, n>> \in estate
TotalFigure == <<Home, 0>>

(* Mutant of Asked: the period is the last days, not the month so far.     *)
LastDays(d) == [first |-> IF d = 0 THEN 0 ELSE d - 1, last |-> d, month |-> FirstOf[d]]

Asked(d) == [first |-> FirstOf[d], last |-> d, month |-> FirstOf[d]]

(* Cost Explorer answers by month: a period that touched two would bring   *)
(* each of the services twice.                                             *)
Results == {FirstOf[d] : d \in period.first .. period.last}
Copies == IF kind = Billing THEN Cardinality(Results) ELSE 1

Init ==
  /\ kind \in Collectors
  /\ clusters \in SUBSET Cluster
  /\ estate \in SUBSET ((IF kind.nested THEN clusters ELSE {Home}) \X Number)
  /\ stable = estate
  /\ pc = "start" /\ queue = {} /\ here = Home /\ token = Last
  /\ page = {} /\ emitted = {} /\ count = 0
  /\ today \in Day /\ (kind # Billing => today = 0)
  /\ months = {} /\ period = Asked(today)
  /\ changes = 0 /\ faults = 0

-----------------------------------------------------------------------------
(* The listing.                                                            *)

(* Services and tasks start from listClusterARNs, billing from the clock.  *)
Begin ==
  /\ pc = "start"
  /\ queue' = IF kind.nested THEN clusters ELSE {Home}
  /\ period' = Asked(today)
  /\ pc' = "list"
  /\ UNCHANGED <<kind, account, here, token, page, emitted, count, today, months, faults>>

HasMorePages == token < Last

NextCluster(c) ==
  /\ pc = "list" /\ ~HasMorePages /\ c \in queue
  /\ here' = c /\ token' = 0 /\ queue' = queue \ {c}
  /\ UNCHANGED <<kind, account, pc, page, emitted, count, bill, faults>>

(* AWS chooses where a page ends; a page may be empty and not the last.    *)
Pages ==
  {<<t, {n \in Number : Exists(here, n) /\ token < n /\ n <= t}>> : t \in token + 1 .. Last}

AfterPage(p) ==
  CASE p = {} -> "list"
    [] p # {} /\ kind.detail = "batch" -> "describe"
    [] OTHER -> "emit"

(* Mutant of NextPage: an empty page ends the listing of the cluster.      *)
EmptyPageEnds ==
  /\ pc = "list" /\ HasMorePages
  /\ \E p \in Pages :
       /\ Cardinality(p[2]) <= PageSize
       /\ page' = p[2]
       /\ token' = IF p[2] = {} THEN Last ELSE p[1]
       /\ pc' = AfterPage(p[2])
  /\ UNCHANGED <<kind, account, queue, here, emitted, count, bill, faults>>

(* Mutant of NextPage: the token of the answer is not used.                *)
SamePageAgain ==
  /\ pc = "list" /\ HasMorePages
  /\ \E p \in Pages :
       /\ Cardinality(p[2]) <= PageSize
       /\ page' = p[2]
       /\ pc' = AfterPage(p[2])
  /\ UNCHANGED <<kind, account, listing, emitted, count, bill, faults>>

NextPage ==
  /\ pc = "list" /\ HasMorePages
  /\ \E p \in Pages :
       /\ Cardinality(p[2]) <= PageSize
       /\ page' = p[2] /\ token' = p[1]
       /\ pc' = AfterPage(p[2])
  /\ UNCHANGED <<kind, account, queue, here, emitted, count, bill, faults>>

Ends ==
  /\ pc = "list" /\ ~HasMorePages /\ queue = {}
  /\ pc' = IF kind = Billing THEN "total" ELSE "done"
  /\ UNCHANGED <<kind, account, listing, page, emitted, count, bill, faults>>

-----------------------------------------------------------------------------
(* The objects of a page.                                                  *)

Found == {n \in page : Exists(here, n)}

(* Mutant of Describe: an object reported missing fails the call.          *)
MissingIsFatal ==
  /\ pc = "describe"
  /\ page' = Found
  /\ pc' = IF Found # page THEN "failed" ELSE "emit"
  /\ UNCHANGED <<kind, account, listing, emitted, count, bill, faults>>

(* DescribeServices and the like: what is gone is among the failures of    *)
(* the answer, which nobody reads, or for a while still described.         *)
Describe ==
  /\ pc = "describe"
  /\ \E late \in SUBSET (page \ Found) :
       /\ page' = Found \cup late
       /\ pc' = IF page' = {} THEN "list" ELSE "emit"
  /\ UNCHANGED <<kind, account, listing, emitted, count, bill, faults>>

(* Mutant of Emits: the month of an id is read from the clock.             *)
EmitsNow(o) ==
  /\ emitted' = emitted \cup {o} /\ count' = count + Copies
  /\ months' = IF kind = Billing THEN months \cup {FirstOf[today]} ELSE months
  /\ UNCHANGED <<kind, account, listing, today, period, faults>>

(* A call of emit; the document id carries the month of the period.        *)
Emits(o) ==
  /\ emitted' = emitted \cup {o} /\ count' = count + Copies
  /\ months' = IF kind = Billing THEN months \cup {period.month} ELSE months
  /\ UNCHANGED <<kind, account, listing, today, period, faults>>

(* Mutant of Emit: the loop does not move on.                              *)
EmitAgain(n) ==
  /\ pc = "emit" /\ n \in page
  /\ kind.detail = "each" => Exists(here, n)
  /\ Emits(<<here, n>>)
  /\ UNCHANGED <<pc, page>>

(* The calls about one object, where there are any, and emit.              *)
Emit(n) ==
  /\ pc = "emit" /\ n \in page
  /\ kind.detail = "each" => Exists(here, n)
  /\ Emits(<<here, n>>)
  /\ page' = page \ {n}
  /\ pc' = IF page' = {} THEN "list" ELSE "emit"

(* After the services, billing asks for the month as a whole.              *)
Total ==
  /\ pc = "total"
  /\ Emits(TotalFigure)
  /\ pc' = "done"
  /\ UNCHANGED page

-----------------------------------------------------------------------------
(* Errors: each of them is returned at once.                               *)

Fails ==
  /\ pc' = "failed"
  /\ UNCHANGED <<kind, account, listing, page, emitted, count, bill>>

ObjectGone ==
  /\ pc = "emit" /\ kind.detail = "each" /\ Found # page
  /\ Fails /\ UNCHANGED faults

ClusterGone ==
  /\ kind.nested /\ here \notin clusters
  /\ \/ pc = "list" /\ HasMorePages
     \/ pc = "describe"
  /\ Fails /\ UNCHANGED faults

(* Any call to AWS, or emit, whose flush can fail.                         *)
CallFails ==
  /\ \/ pc = "start" /\ kind.nested
     \/ pc = "list" /\ HasMorePages
     \/ pc \in {"describe", "emit", "total"}
  /\ faults < MaxFaults
  /\ Fails /\ faults' = faults + 1

-----------------------------------------------------------------------------
(* The account and the clock.  A cluster is deleted only when it is empty; *)
(* what has cost something goes on having done so.                         *)
Changes ==
  /\ changes < MaxChanges /\ changes' = changes + 1
  /\ UNCHANGED <<kind, pc, listing, page, emitted, count, period, months, faults>>

Create(o) ==
  /\ o \notin estate /\ o[1] \in (IF kind.nested THEN clusters ELSE {Home})
  /\ estate' = estate \cup {o}
  /\ UNCHANGED <<clusters, stable, today>>
  /\ Changes

Delete(o) ==
  /\ kind # Billing /\ o \in estate
  /\ estate' = estate \ {o} /\ stable' = stable \ {o}
  /\ UNCHANGED <<clusters, today>>
  /\ Changes

DeleteCluster(c) ==
  /\ kind.nested /\ c \in clusters /\ estate \cap ({c} \X Number) = {}
  /\ clusters' = clusters \ {c}
  /\ UNCHANGED <<estate, stable, today>>
  /\ Changes

Midnight ==
  /\ kind = Billing /\ today < LastDay /\ today' = today + 1
  /\ UNCHANGED <<clusters, estate, stable>>
  /\ Changes

Collect ==
  \/ Begin \/ NextPage \/ Ends \/ Describe
  \/ \E c \in queue : NextCluster(c)
  \/ \E n \in page : Emit(n)
  \/ Total
  \/ ObjectGone \/ ClusterGone

Next ==
  \/ Collect
  \/ CallFails
  \/ \E o \in Object : Create(o) \/ Delete(o)
  \/ \E c \in Cluster : DeleteCluster(c)
  \/ Midnight

(* The activity's goroutine runs on, and AWS answers.                      *)
Spec == Init /\ [][Next]_vars /\ WF_vars(Collect)

-----------------------------------------------------------------------------
TypeOK ==
  /\ kind \in Collectors
  /\ clusters \in SUBSET Cluster
  /\ estate \in SUBSET Object /\ stable \in SUBSET estate
  /\ pc \in {"start", "list", "describe", "emit", "total", "done", "failed"}
  /\ queue \in SUBSET (Cluster \cup {Home}) /\ here \in Cluster \cup {Home}
  /\ token \in 0..Last
  /\ page \in SUBSET Number
  /\ emitted \in SUBSET (Object \cup {TotalFigure})
  /\ count \in 0..Cardinality(Object) + 1
  /\ today \in Day /\ period \in [first : Day, last : Day, month : Day] /\ months \in SUBSET Day
  /\ changes \in 0..MaxChanges /\ faults \in 0..MaxFaults

(* Collect returns nil only when it has emitted every object that existed  *)
(* from before the call to its end, whatever was created and deleted       *)
(* around it, wherever AWS cut the pages, empty ones included.             *)
StableIsEmitted == pc = "done" => stable \subseteq emitted

(* No object is emitted twice, so the count that is reported to Temporal   *)
(* is a number of objects; billing emits each service and the total once,  *)
(* for its period never spans two months.                                  *)
EmittedOnce == count = Cardinality(emitted)

(* Where no call fails of itself Collect fails only because something was  *)
(* deleted under a collector that asks about single objects, or goes       *)
(* through clusters; services, tasks and clusters that vanish between list *)
(* and describe are left out instead.                                      *)
FailsOnlyForCause ==
  pc = "failed" /\ faults = 0 =>
    /\ changes > 0
    /\ kind.detail = "each" \/ (kind.nested /\ here \notin clusters)

(* The month in the document ids of billing is the month the figures are   *)
(* for, also when the month ends between two pages: the ids of one Collect *)
(* do not mix two months, and overwrite those of the days before.          *)
MonthOfFigures == kind = Billing => months \subseteq Results

(* A Collect call ends, however the account changes meanwhile.             *)
CollectEnds == <>(pc \in {"done", "failed"})
=============================================================================
