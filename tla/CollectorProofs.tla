-------------------------- MODULE CollectorProofs ---------------------------
(***************************************************************************)
(* What a Collect that returns has emitted, for any number of objects and  *)
(* clusters, any size of pages and any number of changes and failures.     *)
(***************************************************************************)
EXTENDS Collector, FiniteSetTheorems, TLAPS

(* What a listing still has to show: an object is ahead when its cluster   *)
(* is still queued, or the token has not come to it.                       *)
Ahead(o) == o[1] \in queue \/ (o[1] = here /\ token < o[2])
OnPage(o) == o[1] = here /\ o[2] \in page

TypeInv ==
  /\ kind.nested \in BOOLEAN
  /\ clusters \in SUBSET Cluster
  /\ estate \in SUBSET Object /\ stable \in SUBSET estate
  /\ kind.nested => estate \in SUBSET (clusters \X Number)
  /\ ~kind.nested => estate \in SUBSET ({Home} \X Number)
  /\ pc \in {"start", "list", "describe", "emit", "total", "done", "failed"}
  /\ here \in Cluster \cup {Home} /\ queue \in SUBSET (Cluster \cup {Home})
  /\ token \in 0..Last
  /\ page \in SUBSET Number

(* The period is that of the day on which the call began.                  *)
BillInv ==
  /\ today \in Day /\ months \in SUBSET Day
  /\ \E d \in Day : period = Asked(d)
  /\ pc = "start" => months = {}
  /\ kind = Billing => months \subseteq Results

(* No object that was there all along is lost between the listing, the     *)
(* page in hand and what has been emitted.                                 *)
NoneLost ==
  /\ pc \in {"list", "total", "done"} => \A o \in stable : o \in emitted \/ Ahead(o)
  /\ pc \in {"describe", "emit"} => \A o \in stable : o \in emitted \/ Ahead(o) \/ OnPage(o)
  /\ pc \in {"total", "done"} => queue = {} /\ ~HasMorePages

(* Nothing that has been emitted is still to come.                         *)
NoneAgain ==
  /\ emitted \in SUBSET (Object \cup {TotalFigure})
  /\ TotalFigure \in emitted => pc \in {"done", "failed"}
  /\ pc = "total" => queue = {}
  /\ pc = "start" => emitted = {} /\ ~HasMorePages
  /\ pc \in {"describe", "emit"} \/ HasMorePages => here \notin queue
  /\ \A o \in emitted : ~Ahead(o)
  /\ pc \in {"describe", "emit"} => \A n \in page : n <= token /\ <<here, n>> \notin emitted

Counted == IsFiniteSet(emitted) /\ count = Cardinality(emitted)

CollectInv == TypeInv /\ NoneLost

LEMMA Initially == Init => CollectInv
<1> SUFFICES ASSUME Init PROVE CollectInv
  OBVIOUS
<1> USE CollectorAssumption DEF Init
<1>1. kind.nested \in BOOLEAN
  <2>1. \A k \in Collectors : k.nested = TRUE \/ k.nested = FALSE
    BY DEF Collectors, RdsInstances, RdsClusters, EcsClusters, EcsServices, EcsTasks,
           EcsTaskDefinitions, CacheClusters, ReplicationGroups, IamUsers, Billing
  <2> QED BY <2>1
<1>2. TypeInv
  BY <1>1 DEF TypeInv, Object, Number
<1>3. NoneLost
  BY DEF NoneLost
<1> QED BY <1>2, <1>3 DEF CollectInv

(* A period from the first of a month to a day of it lies in that month.   *)
LEMMA OneMonth ==
  ASSUME NEW d \in Day
  PROVE  /\ Asked(d).first \in Day /\ Asked(d).last \in Day /\ Asked(d).month \in Day
         /\ {FirstOf[e] : e \in Asked(d).first .. Asked(d).last} = {Asked(d).month}
<1>1. FirstOf[d] \in Day /\ FirstOf[d] <= d /\ d \in FirstOf[d] .. d
  BY CalendarAssumption DEF Day
<1>2. \A e \in FirstOf[d] .. d : FirstOf[e] = FirstOf[d]
  BY CalendarAssumption
<1> QED BY <1>1, <1>2 DEF Asked

LEMMA OneCopy == BillInv => Results = {period.month} /\ Copies = 1
<1> SUFFICES ASSUME BillInv PROVE Results = {period.month} /\ Copies = 1
  OBVIOUS
<1>1. PICK d \in Day : period = Asked(d)
  BY DEF BillInv
<1>2. Results = {period.month}
  BY <1>1, OneMonth DEF Results
<1>3. Cardinality({period.month}) = 1
  BY FS_Singleton
<1> QED BY <1>2, <1>3 DEF Copies

LEMMA BillStart == Init => BillInv
BY DEF Init, BillInv

LEMMA BillStep == BillInv /\ [Next]_vars => BillInv'
<1> SUFFICES ASSUME BillInv, [Next]_vars PROVE BillInv'
  OBVIOUS
<1> USE DEF BillInv
<1>1. CASE Begin
  BY <1>1 DEF Begin
<1>2. CASE NextPage
  <2>1. PICK p \in Pages : pc' = AfterPage(p[2])
    BY <1>2 DEF NextPage
  <2>2. pc' # "start"
    BY <2>1 DEF AfterPage
  <2> QED BY <1>2, <2>2 DEF NextPage, bill, Results
<1>3. CASE Ends \/ Describe
  BY <1>3 DEF Ends, Describe, bill, Results
<1>4. ASSUME NEW c \in queue, NextCluster(c) PROVE BillInv'
  BY <1>4 DEF NextCluster, bill, Results
<1>5. ASSUME NEW o, Emits(o), pc # "start", pc' # "start" PROVE BillInv'
  <2>1. period.month \in Day /\ period.month \in Results
    BY OneMonth, OneCopy
  <2> QED BY <1>5, <2>1 DEF Emits, Results
<1>6. ASSUME NEW n \in page, Emit(n) PROVE BillInv'
  BY <1>5, <1>6 DEF Emit
<1>7. CASE Total
  BY <1>5, <1>7 DEF Total
<1>8. CASE ObjectGone \/ ClusterGone \/ CallFails
  BY <1>8 DEF ObjectGone, ClusterGone, CallFails, Fails, bill, Results
<1>9. ASSUME NEW o \in Object, Create(o) \/ Delete(o) PROVE BillInv'
  BY <1>9 DEF Create, Delete, Changes, Results
<1>10. ASSUME NEW c \in Cluster, DeleteCluster(c) PROVE BillInv'
  BY <1>10 DEF DeleteCluster, Changes, Results
<1>11. CASE Midnight
  BY <1>11, CalendarAssumption DEF Midnight, Changes, Results, Day
<1>12. CASE UNCHANGED vars
  BY <1>12 DEF vars, bill, Results
<1> QED
  BY <1>1, <1>2, <1>3, <1>4, <1>6, <1>7, <1>8, <1>9, <1>10, <1>11, <1>12 DEF Next, Collect

(* The document ids of billing carry the month the figures are for, also   *)
(* when midnight comes between two pages.                                  *)
THEOREM MonthIsThatOfFigures == Spec => []MonthOfFigures
<1>1. BillInv => MonthOfFigures
  BY DEF BillInv, MonthOfFigures
<1> QED BY <1>1, BillStart, BillStep, PTL DEF Spec

LEMMA TypeStep == TypeInv /\ [Next]_vars => TypeInv'
<1> SUFFICES ASSUME TypeInv, [Next]_vars PROVE TypeInv'
  OBVIOUS
<1> USE CollectorAssumption DEF TypeInv
<1>1. CASE Begin
  BY <1>1 DEF Begin, account
<1>2. CASE NextPage
  <2>1. PICK p \in Pages : page' = p[2] /\ token' = p[1] /\ pc' = AfterPage(p[2])
    BY <1>2 DEF NextPage
  <2>2. p[1] \in 0..Last /\ p[2] \in SUBSET Number
    BY <2>1 DEF Pages, Number
  <2>3. AfterPage(p[2]) \in {"list", "describe", "emit"}
    BY DEF AfterPage
  <2> QED BY <1>2, <2>1, <2>2, <2>3 DEF NextPage, account
<1>3. CASE Ends
  BY <1>3 DEF Ends, account, listing
<1>4. CASE Describe
  BY <1>4 DEF Describe, account, listing, Found
<1>5. ASSUME NEW c \in queue, NextCluster(c) PROVE TypeInv'
  BY <1>5 DEF NextCluster, account
<1>6. ASSUME NEW n \in page, Emit(n) PROVE TypeInv'
  BY <1>6 DEF Emit, Emits, account, listing
<1>11. CASE Total
  BY <1>11 DEF Total, Emits, account, listing
<1>12. CASE Midnight
  BY <1>12 DEF Midnight, Changes, listing
<1>7. CASE ObjectGone \/ ClusterGone \/ CallFails
  BY <1>7 DEF ObjectGone, ClusterGone, CallFails, Fails, account, listing
<1>8. ASSUME NEW o \in Object, Create(o) \/ Delete(o) PROVE TypeInv'
  BY <1>8 DEF Create, Delete, Changes, listing, Object
<1>9. ASSUME NEW c \in Cluster, DeleteCluster(c) PROVE TypeInv'
  <2>1. \A o \in estate : o \in (clusters \ {c}) \X Number
    BY <1>9 DEF DeleteCluster
  <2> QED BY <1>9, <2>1 DEF DeleteCluster, Changes, listing
<1>10. CASE UNCHANGED vars
  BY <1>10 DEF vars, account, listing
<1> QED
  BY <1>1, <1>2, <1>3, <1>4, <1>5, <1>6, <1>7, <1>8, <1>9, <1>10, <1>11, <1>12 DEF Next, Collect

LEMMA LossStep == CollectInv /\ [Next]_vars => NoneLost'
<1> SUFFICES ASSUME CollectInv, [Next]_vars PROVE NoneLost'
  OBVIOUS
<1> USE CollectorAssumption DEF CollectInv, NoneLost, HasMorePages
<1>1. CASE Begin
  <2>1. \A o \in stable : o[1] \in queue'
    BY <1>1 DEF Begin, TypeInv
  <2> QED BY <1>1, <2>1 DEF Begin, account, Ahead
<1>2. CASE NextPage
  <2>1. PICK p \in Pages : page' = p[2] /\ token' = p[1] /\ pc' = AfterPage(p[2])
    BY <1>2 DEF NextPage
  <2>2. \A n \in Number : <<here, n>> \in estate /\ token < n => n \in p[2] \/ p[1] < n
    BY <2>1 DEF Pages, Exists, Number, TypeInv
  <2>3. \A o \in stable : o = <<o[1], o[2]>> /\ o[2] \in Number /\ o \in estate
    BY DEF TypeInv, Object
  <2>4. \A o \in stable : o \in emitted \/ Ahead(o)' \/ OnPage(o)'
    BY <1>2, <2>1, <2>2, <2>3 DEF NextPage, account, Ahead, OnPage
  <2>5. CASE p[2] = {}
    BY <1>2, <2>1, <2>4, <2>5 DEF NextPage, account, AfterPage, OnPage
  <2>6. CASE p[2] # {}
    BY <1>2, <2>1, <2>4, <2>6 DEF NextPage, account, AfterPage
  <2> QED BY <2>5, <2>6
<1>3. CASE Ends
  BY <1>3 DEF Ends, account, listing, Ahead
<1>4. CASE Describe
  <2>1. PICK late \in SUBSET (page \ Found) :
          page' = Found \cup late /\ pc' = IF page' = {} THEN "list" ELSE "emit"
    BY <1>4 DEF Describe
  <2>2. \A o \in stable : OnPage(o) => o = <<here, o[2]>> /\ o[2] \in Found
    BY DEF TypeInv, Object, OnPage, Found, Exists
  <2>3. \A o \in stable : o \in emitted \/ Ahead(o)' \/ OnPage(o)'
    BY <1>4, <2>1, <2>2 DEF Describe, account, listing, Ahead, OnPage
  <2> QED BY <1>4, <2>1, <2>3 DEF Describe, account, listing, OnPage
<1>5. ASSUME NEW c \in queue, NextCluster(c) PROVE NoneLost'
  <2>1. \A o \in stable : o[2] \in Number /\ o[2] > 0
    BY DEF TypeInv, Object, Number
  <2>2. \A o \in stable : Ahead(o) => Ahead(o)'
    BY <1>5, <2>1 DEF NextCluster, Ahead, TypeInv, Number
  <2> QED BY <1>5, <2>2 DEF NextCluster, account
<1>6. ASSUME NEW n \in page, Emit(n) PROVE NoneLost'
  <2>1. \A o \in stable : o \in Object
    BY DEF TypeInv
  <2>2. \A o \in stable : o \in emitted' \/ Ahead(o)' \/ OnPage(o)'
    BY <1>6, <2>1 DEF Emit, Emits, account, listing, Ahead, OnPage, Object
  <2> QED BY <1>6, <2>2 DEF Emit, Emits, account, listing, OnPage
<1>11. CASE Total
  BY <1>11 DEF Total, Emits, account, listing, Ahead
<1>12. CASE Midnight
  BY <1>12 DEF Midnight, Changes, listing, Ahead, OnPage
<1>7. CASE ObjectGone \/ ClusterGone \/ CallFails
  BY <1>7 DEF ObjectGone, ClusterGone, CallFails, Fails
<1>8. ASSUME NEW o \in Object, Create(o) \/ Delete(o) PROVE NoneLost'
  <2>1. stable' \in SUBSET stable
    BY <1>8 DEF Create, Delete, TypeInv
  <2> QED BY <1>8, <2>1 DEF Create, Delete, Changes, listing, Ahead, OnPage
<1>9. ASSUME NEW c \in Cluster, DeleteCluster(c) PROVE NoneLost'
  BY <1>9 DEF DeleteCluster, Changes, listing, Ahead, OnPage
<1>10. CASE UNCHANGED vars
  BY <1>10 DEF vars, account, listing, Ahead, OnPage
<1> QED
  BY <1>1, <1>2, <1>3, <1>4, <1>5, <1>6, <1>7, <1>8, <1>9, <1>10, <1>11, <1>12 DEF Next, Collect

(* Collect returns nil only when it has emitted every object that existed  *)
(* from before the call to its end.                                        *)
THEOREM NothingStableIsMissed == Spec => []StableIsEmitted
<1>1. Init => CollectInv
  BY Initially
<1>2. CollectInv /\ [Next]_vars => CollectInv'
  BY TypeStep, LossStep DEF CollectInv
<1>3. CollectInv => StableIsEmitted
  <2> SUFFICES ASSUME CollectInv, pc = "done", NEW o \in stable PROVE o \in emitted
    BY DEF StableIsEmitted
  <2>1. o[2] \in Number
    BY DEF CollectInv, TypeInv, Object
  <2> QED BY <2>1, CollectorAssumption DEF CollectInv, TypeInv, NoneLost, Ahead, HasMorePages, Number
<1> QED BY <1>1, <1>2, <1>3, PTL DEF Spec

LEMMA OnceStep == TypeInv /\ BillInv /\ NoneAgain /\ Counted /\ [Next]_vars => NoneAgain' /\ Counted'
<1> SUFFICES ASSUME TypeInv, BillInv, NoneAgain, Counted, [Next]_vars PROVE NoneAgain' /\ Counted'
  OBVIOUS
<1> USE CollectorAssumption DEF NoneAgain, Counted, HasMorePages
<1>1. CASE Begin
  BY <1>1 DEF Begin, account, Ahead
<1>2. CASE NextPage
  <2>1. PICK p \in Pages : page' = p[2] /\ token' = p[1] /\ pc' = AfterPage(p[2])
    BY <1>2 DEF NextPage
  <2>2. p[1] \in token + 1 .. Last /\ \A n \in p[2] : n \in Number /\ token < n /\ n <= p[1]
    BY <2>1 DEF Pages
  <2>3. \A o \in emitted : o[2] \in Number
    BY <1>2 DEF NextPage, Object
  <2>4. \A o \in emitted : ~Ahead(o)'
    BY <1>2, <2>1, <2>2, <2>3 DEF NextPage, Ahead, TypeInv, Number
  <2>5. \A n \in p[2] : <<here, n>> \notin emitted
    BY <2>2 DEF Ahead
  <2>6. AfterPage(p[2]) \notin {"start", "total"}
    BY DEF AfterPage
  <2> QED BY <1>2, <2>1, <2>2, <2>4, <2>5, <2>6 DEF NextPage, account
<1>3. CASE Ends
  BY <1>3 DEF Ends, account, listing, Ahead
<1>4. CASE Describe
  BY <1>4 DEF Describe, account, listing, Ahead, Found
<1>5. ASSUME NEW c \in queue, NextCluster(c) PROVE NoneAgain' /\ Counted'
  BY <1>5 DEF NextCluster, account, Ahead
<1>6. ASSUME NEW n \in page, Emit(n) PROVE NoneAgain' /\ Counted'
  <2>1. n \in Number /\ n <= token /\ <<here, n>> \in Object /\ <<here, n>> \notin emitted
    BY <1>6 DEF Emit, TypeInv, Object
  <2>2. here \notin queue /\ ~Ahead(<<here, n>>)
    BY <1>6, <2>1 DEF Emit, Ahead, TypeInv, Number
  <2>3. TotalFigure # <<here, n>>
    BY <2>1 DEF TotalFigure, Number
  <2>4. NoneAgain'
    BY <1>6, <2>1, <2>2, <2>3 DEF Emit, Emits, account, listing, Ahead
  <2>5. Counted'
    BY <1>6, <2>1, OneCopy, FS_AddElement DEF Emit, Emits
  <2> QED BY <2>4, <2>5
<1>11. CASE Total
  <2>1. TotalFigure \notin emitted /\ ~Ahead(TotalFigure)
    BY <1>11 DEF Total, Ahead, TotalFigure, TypeInv
  <2>2. NoneAgain'
    BY <1>11, <2>1 DEF Total, Emits, account, listing, Ahead
  <2>3. Counted'
    BY <1>11, <2>1, OneCopy, FS_AddElement DEF Total, Emits
  <2> QED BY <2>2, <2>3
<1>12. CASE Midnight
  BY <1>12 DEF Midnight, Changes, listing, Ahead
<1>7. CASE ObjectGone \/ ClusterGone \/ CallFails
  BY <1>7 DEF ObjectGone, ClusterGone, CallFails, Fails, listing, Ahead
<1>8. ASSUME NEW o \in Object, Create(o) \/ Delete(o) PROVE NoneAgain' /\ Counted'
  BY <1>8 DEF Create, Delete, Changes, listing, Ahead
<1>9. ASSUME NEW c \in Cluster, DeleteCluster(c) PROVE NoneAgain' /\ Counted'
  BY <1>9 DEF DeleteCluster, Changes, listing, Ahead
<1>10. CASE UNCHANGED vars
  BY <1>10 DEF vars, account, listing, Ahead
<1> QED
  BY <1>1, <1>2, <1>3, <1>4, <1>5, <1>6, <1>7, <1>8, <1>9, <1>10, <1>11, <1>12 DEF Next, Collect

(* No object is emitted twice: what the scrape counts and reports is a     *)
(* number of objects.                                                      *)
THEOREM NothingTwice == Spec => []EmittedOnce
<1>1. Init => TypeInv /\ BillInv /\ NoneAgain /\ Counted
  <2> SUFFICES ASSUME Init PROVE NoneAgain /\ Counted
    BY Initially, BillStart DEF CollectInv
  <2>1. IsFiniteSet({}) /\ Cardinality({}) = 0
    BY FS_EmptySet
  <2> QED BY <2>1, CollectorAssumption DEF Init, NoneAgain, Counted, HasMorePages
<1>2. TypeInv /\ BillInv /\ NoneAgain /\ Counted /\ [Next]_vars
        => (TypeInv /\ BillInv /\ NoneAgain /\ Counted)'
  BY TypeStep, BillStep, OnceStep
<1>3. Counted => EmittedOnce
  BY DEF Counted, EmittedOnce
<1> QED BY <1>1, <1>2, <1>3, PTL DEF Spec

(* Type correctness: among it that emit is called at most once per object  *)
(* there can be, and once more.                                            *)
THEOREM TypeCorrect == Spec => []TypeOK
<1> DEFINE Bounds == TypeInv /\ BillInv /\ NoneAgain /\ Counted
                     /\ kind \in Collectors /\ changes \in 0..MaxChanges /\ faults \in 0..MaxFaults
<1>1. Init => Bounds
  <2> SUFFICES ASSUME Init PROVE Bounds
    OBVIOUS
  <2>1. IsFiniteSet({}) /\ Cardinality({}) = 0
    BY FS_EmptySet
  <2> QED BY <2>1, Initially, BillStart, CollectorAssumption DEF Init, NoneAgain, Counted, HasMorePages, CollectInv
<1>2. Bounds /\ [Next]_vars => Bounds'
  <2> SUFFICES ASSUME Bounds, [Next]_vars
      PROVE (kind \in Collectors /\ changes \in 0..MaxChanges /\ faults \in 0..MaxFaults)'
    BY TypeStep, BillStep, OnceStep
  <2> USE CollectorAssumption
  <2>1. CASE Begin \/ Ends \/ Describe \/ NextPage \/ ObjectGone \/ ClusterGone
    BY <2>1 DEF Begin, Ends, Describe, NextPage, ObjectGone, ClusterGone, Fails, account
  <2>2. ASSUME NEW c \in queue, NextCluster(c) PROVE UNCHANGED <<kind, changes, faults>>
    BY <2>2 DEF NextCluster, account
  <2>3. ASSUME NEW n \in page, Emit(n) PROVE UNCHANGED <<kind, changes, faults>>
    BY <2>3 DEF Emit, Emits, account
  <2>4. CASE CallFails
    BY <2>4 DEF CallFails, Fails, account
  <2>5. ASSUME NEW o \in Object, Create(o) \/ Delete(o)
        PROVE UNCHANGED <<kind, faults>> /\ changes < MaxChanges /\ changes' = changes + 1
    BY <2>5 DEF Create, Delete, Changes
  <2>6. ASSUME NEW c \in Cluster, DeleteCluster(c)
        PROVE UNCHANGED <<kind, faults>> /\ changes < MaxChanges /\ changes' = changes + 1
    BY <2>6 DEF DeleteCluster, Changes
  <2>7. CASE UNCHANGED vars
    BY <2>7 DEF vars, account
  <2>8. CASE Total
    BY <2>8 DEF Total, Emits, account
  <2>9. CASE Midnight
    BY <2>9 DEF Midnight, Changes
  <2> QED BY <2>1, <2>2, <2>3, <2>4, <2>5, <2>6, <2>7, <2>8, <2>9 DEF Next, Collect
<1>3. Bounds => TypeOK
  <2> SUFFICES ASSUME Bounds PROVE TypeOK
    OBVIOUS
  <2>1. IsFiniteSet(Object)
    <3>1. IsFiniteSet(Cluster \cup {Home})
      BY CollectorAssumption, FS_AddElement
    <3>2. IsFiniteSet(Number)
      BY CollectorAssumption, FS_Interval DEF Number
    <3> QED BY <3>1, <3>2, FS_Product DEF Object
  <2>2. TotalFigure \notin Object
    BY DEF TotalFigure, Object, Number
  <2>3. /\ IsFiniteSet(Object \cup {TotalFigure})
        /\ Cardinality(Object \cup {TotalFigure}) = Cardinality(Object) + 1
        /\ Cardinality(Object) \in Nat
    BY <2>1, <2>2, FS_AddElement, FS_CardinalityType
  <2>4. count \in Nat /\ count <= Cardinality(Object) + 1
    BY <2>3, FS_Subset, FS_CardinalityType DEF NoneAgain, Counted
  <2>5. period \in [first : Day, last : Day, month : Day]
    BY OneMonth DEF BillInv, Asked
  <2> QED BY <2>3, <2>4, <2>5 DEF TypeOK, TypeInv, BillInv, NoneAgain
<1> QED BY <1>1, <1>2, <1>3, PTL DEF Spec

-----------------------------------------------------------------------------
(* As long as nobody has changed the account, what is in hand exists.      *)
Blameless ==
  /\ pc \in {"start", "list", "total", "done"} => page = {}
  /\ changes = 0 =>
       /\ \A n \in page : Exists(here, n)
       /\ kind.nested => /\ queue \subseteq clusters
                         /\ HasMorePages \/ pc = "describe" => here \in clusters
  /\ FailsOnlyForCause

LEMMA BlamelessStep ==
  ASSUME TypeOK, Blameless, [Next]_vars
  PROVE  Blameless'
<1> USE DEF Blameless, FailsOnlyForCause
<1>0. changes \in Nat /\ faults \in Nat /\ token \in Nat /\ Last \in Nat
  BY CollectorAssumption DEF TypeOK
<1>1. CASE Begin
  BY <1>1 DEF Begin, account, HasMorePages
<1>2. CASE NextPage
  <2>1. PICK p \in Pages : page' = p[2] /\ token' = p[1] /\ pc' = AfterPage(p[2])
    BY <1>2 DEF NextPage
  <2>2. \A n \in p[2] : Exists(here, n)
    BY <2>1 DEF Pages
  <2>3. /\ AfterPage(p[2]) \in {"list", "describe", "emit"}
        /\ AfterPage(p[2]) = "list" => p[2] = {}
    BY DEF AfterPage
  <2>4. pc = "list" /\ HasMorePages /\ UNCHANGED <<kind, clusters, estate, queue, here, changes>>
    BY <1>2 DEF NextPage, account
  <2> QED
    BY <2>1, <2>2, <2>3, <2>4 DEF Exists
<1>3. CASE Ends
  BY <1>3 DEF Ends, account, listing, Exists, HasMorePages
<1>4. CASE Describe
  <2>1. page' \subseteq page /\ pc' \in {"list", "emit"} /\ (pc' = "list" => page' = {})
    BY <1>4 DEF Describe, Found
  <2>2. pc = "describe" /\ UNCHANGED <<kind, clusters, estate, queue, here, token, changes>>
    BY <1>4 DEF Describe, account, listing
  <2> QED
    BY <2>1, <2>2 DEF Exists, HasMorePages
<1>5. ASSUME NEW c \in queue, NextCluster(c) PROVE Blameless'
  <2>1. /\ pc = "list" /\ here' = c /\ queue' \subseteq queue /\ c \in queue
        /\ UNCHANGED <<kind, clusters, pc, page, changes>>
    BY <1>5 DEF NextCluster, account
  <2> QED
    BY <2>1
<1>6. ASSUME NEW n \in page, Emit(n) PROVE Blameless'
  <2>1. /\ pc = "emit" /\ page' \subseteq page /\ pc' \in {"list", "emit"}
        /\ pc' = "list" => page' = {}
        /\ UNCHANGED <<kind, clusters, estate, queue, here, token, changes>>
    BY <1>6 DEF Emit, Emits, account, listing
  <2> QED
    BY <2>1 DEF Exists, HasMorePages
<1>7. CASE Total
  BY <1>7 DEF Total, Emits, account, listing, HasMorePages
<1>8. CASE ObjectGone
  <2>1. /\ Found # page /\ kind.detail = "each" /\ pc' = "failed"
        /\ UNCHANGED <<kind, clusters, estate, queue, here, token, page, changes, faults>>
    BY <1>8 DEF ObjectGone, Fails, account, listing
  <2>2. changes # 0
    BY <2>1 DEF Found
  <2> QED
    BY <1>0, <2>1, <2>2
<1>9. CASE ClusterGone
  <2>1. /\ kind.nested /\ here \notin clusters /\ pc' = "failed"
        /\ HasMorePages \/ pc = "describe"
        /\ UNCHANGED <<kind, clusters, estate, queue, here, token, page, changes, faults>>
    BY <1>9 DEF ClusterGone, Fails, account, listing
  <2>2. changes # 0
    BY <2>1
  <2> QED
    BY <1>0, <2>1, <2>2
<1>10. CASE CallFails
  <2>1. /\ pc' = "failed" /\ faults' = faults + 1
        /\ pc # "describe" => ~ (pc' = "describe")
        /\ UNCHANGED <<kind, clusters, estate, queue, here, token, page, changes>>
    BY <1>10 DEF CallFails, Fails, account, listing
  <2> QED
    BY <1>0, <2>1 DEF Exists, HasMorePages
<1>11. ASSUME changes' = changes + 1, clusters' \subseteq clusters,
              UNCHANGED <<kind, pc, here, page, faults>>
       PROVE  Blameless'
  <2>1. changes' > 0 /\ changes' # 0
    BY <1>0, <1>11
  <2> QED
    BY <1>11, <2>1
<1>12. ASSUME NEW o \in Object, Create(o) \/ Delete(o) PROVE Blameless'
  BY <1>11, <1>12 DEF Create, Delete, Changes, listing
<1>13. ASSUME NEW c \in Cluster, DeleteCluster(c) PROVE Blameless'
  BY <1>11, <1>13 DEF DeleteCluster, Changes, listing
<1>14. CASE Midnight
  BY <1>11, <1>14 DEF Midnight, Changes, listing
<1>15. CASE UNCHANGED vars
  BY <1>15 DEF vars, account, listing, Exists, HasMorePages
<1> QED
  BY <1>1, <1>2, <1>3, <1>4, <1>5, <1>6, <1>7, <1>8, <1>9, <1>10, <1>12, <1>13, <1>14, <1>15
     DEF Next, Collect

(* Unless a call fails of itself, only a deletion under a collector that   *)
(* asks about single objects, or of the cluster in hand, fails a Collect.  *)
THEOREM FailuresHaveCause == Spec => []FailsOnlyForCause
<1>1. Init => Blameless
  <2> SUFFICES ASSUME Init PROVE Blameless
    OBVIOUS
  <2>1. token = Last /\ page = {} /\ queue = {} /\ pc = "start"
    BY DEF Init
  <2>2. ~HasMorePages
    BY <2>1, CollectorAssumption DEF HasMorePages
  <2> QED
    BY <2>1, <2>2 DEF Blameless, FailsOnlyForCause
<1>2. TypeOK /\ Blameless /\ [Next]_vars => Blameless'
  BY BlamelessStep
<1>3. Blameless => FailsOnlyForCause
  BY DEF Blameless
<1> QED
  BY <1>1, <1>2, <1>3, TypeCorrect, PTL DEF Spec
=============================================================================
