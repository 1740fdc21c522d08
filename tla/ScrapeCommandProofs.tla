------------------------ MODULE ScrapeCommandProofs -------------------------
(***************************************************************************)
(* What a configuration that loads comes to, and what the scrape command   *)
(* does with it, for any files, environments, accounts and flags.          *)
(***************************************************************************)
EXTENDS ScrapeCommand, FlattenTheorems, FiniteSetTheorems

LEMMA Positive ==
  ASSUME NEW x \in Int, ~(x <= 0)
  PROVE  x > 0
  OBVIOUS

LEMMA FunctionIsSeq ==
  ASSUME NEW S, NEW n \in Nat, NEW f \in [1..n -> S]
  PROVE  f \in Seq(S) /\ Len(f) = n /\ DOMAIN f = 1..n
  OBVIOUS

LEMMA DomainOf ==
  ASSUME NEW S, NEW s \in Seq(S)
  PROVE  DOMAIN s \subseteq Int
  BY LenProperties

LEMMA ElementsOf ==
  ASSUME NEW S, NEW s \in Seq(S)
  PROVE  ToSet(s) \subseteq S
  BY LenProperties, ElementOfSeq DEF ToSet

(* Load gives every setting and every account its type, ...                *)
LEMMA MergedFrom ==
  ASSUME NEW f, NEW e, IsPart(f), IsPart(e), NEW k \in DOMAIN Zero
  PROVE  \/ Merged(f, e)[k] \in Settings[k]
         \/ k \in DOMAIN Defaults /\ Merged(f, e)[k] = Defaults[k]
         \/ Merged(f, e)[k] = Zero[k]
<1>1. Merged(f, e)[k] \in {e[k] : x \in DOMAIN e \cap {k}} \cup {f[k] : x \in DOMAIN f \cap {k}}
                          \cup {Defaults[k] : x \in DOMAIN Defaults \cap {k}} \cup {Zero[k]}
  BY DEF Merged
<1> QED
  BY <1>1 DEF IsPart

LEMMA MergedType ==
  ASSUME NEW f, NEW e, IsPart(f), IsPart(e)
  PROVE  /\ Merged(f, e).regions \in Seq(Name) /\ Merged(f, e).resources \in Seq(Name)
         /\ Merged(f, e).scrape_interval \in Int /\ Merged(f, e).batch_size \in Int
<1> DEFINE g == Merged(f, e)
<1>1. ASSUME NEW k \in DOMAIN Zero
      PROVE  \/ g[k] \in Settings[k]
             \/ k \in DOMAIN Defaults /\ g[k] = Defaults[k]
             \/ g[k] = Zero[k]
  BY MergedFrom
<1> HIDE DEF g
<1>2. g.regions \in Seq(Name)
  <2>1. "regions" \in DOMAIN Zero /\ "regions" \notin DOMAIN Defaults
        /\ Settings["regions"] = Seq(Name) /\ Zero["regions"] = <<>>
    BY DEF Zero, Defaults, Settings
  <2> QED
    BY <1>1, <2>1, EmptySeq
<1>3. g.resources \in Seq(Name)
  <2>1. "resources" \in DOMAIN Zero /\ "resources" \notin DOMAIN Defaults
        /\ Settings["resources"] = Seq(Name) /\ Zero["resources"] = <<>>
    BY DEF Zero, Defaults, Settings
  <2> QED
    BY <1>1, <2>1, EmptySeq
<1>4. g.scrape_interval \in Int
  <2>1. "scrape_interval" \in DOMAIN Zero /\ Defaults["scrape_interval"] = 1
        /\ Settings["scrape_interval"] = Int /\ Zero["scrape_interval"] = 0
    BY DEF Zero, Defaults, Settings
  <2> QED
    BY <1>1, <2>1
<1>5. g.batch_size \in Int
  <2>1. "batch_size" \in DOMAIN Zero /\ Defaults["batch_size"] = 500
        /\ Settings["batch_size"] = Int /\ Zero["batch_size"] = 0
    BY DEF Zero, Defaults, Settings
  <2> QED
    BY <1>1, <2>1
<1> QED
  BY <1>2, <1>3, <1>4, <1>5 DEF g

LEMMA ResolvedType ==
  ASSUME NEW g, g.regions \in Seq(Name), g.resources \in Seq(Name), g.scrape_interval \in Int,
         NEW a \in Account
  PROVE  Resolved(g, a) \in Account /\ Resolved(g, a).id = a.id
<1> DEFINE r == Inherits(a.regions, <<>>, g.regions)
           t == Inherits(a.resources, <<>>, g.resources)
           i == Inherits(a.interval, 0, g.scrape_interval)
           b == Inherits(a.billingInterval, 0, DefaultBillingScrapeInterval)
<1>1. r \in Seq(Name) /\ t \in Seq(Name)
  BY DEF Account, Inherits
<1>2. i \in Int /\ b \in Int
  BY DEF Account, Inherits, DefaultBillingScrapeInterval
<1>3. Resolved(g, a) = [a EXCEPT !.regions = r, !.resources = t, !.interval = i,
                                 !.billingInterval = b]
  BY DEF Resolved
<1> HIDE DEF r, t, i, b
<1> QED
  BY <1>1, <1>2, <1>3 DEF Account

(* c is what a file with these accounts may come to.                       *)
LoadedFrom(c, as) ==
  /\ c.accounts \in Seq(Account) /\ DOMAIN c.accounts = DOMAIN as
  /\ \A i \in DOMAIN as : c.accounts[i].id = as[i].id
  /\ c.settings.batch_size \in Int
  /\ c.ok => Problems(c.settings, c.accounts) = {}

LEMMA LoadType ==
  ASSUME NEW f, NEW e, IsPart(f), IsPart(e), NEW as \in Seq(Account), NEW c, c = Load(f, e, as)
  PROVE  LoadedFrom(c, as)
<1> DEFINE g == Merged(f, e)
<1>1. g.regions \in Seq(Name) /\ g.resources \in Seq(Name)
      /\ g.scrape_interval \in Int /\ g.batch_size \in Int
  BY MergedType
<1> HIDE DEF g
<1>2. \A i \in DOMAIN as : as[i] \in Account
  BY LenProperties, ElementOfSeq
<1> DEFINE rs == [i \in DOMAIN as |-> Resolved(g, as[i])]
           ok == Problems(g, rs) = {}
<1>3. c = [ok |-> ok, settings |-> g, accounts |-> rs]
  BY DEF Load, g
<1>4. c.accounts = rs /\ c.settings = g /\ (c.ok => Problems(c.settings, c.accounts) = {})
  <2> HIDE DEF rs, ok
  <2>1. c.ok = ok /\ c.settings = g /\ c.accounts = rs
    BY <1>3
  <2> QED
    BY <2>1, Zenon DEF ok
<1>5. \A i \in DOMAIN as : Resolved(g, as[i]) \in Account /\ Resolved(g, as[i]).id = as[i].id
  BY <1>1, <1>2, ResolvedType
<1>6. Len(as) \in Nat /\ DOMAIN as = 1..Len(as)
  BY LenProperties
<1>7. c.accounts \in Seq(Account)
  <2>1. c.accounts \in [1..Len(as) -> Account]
    BY <1>4, <1>5, <1>6
  <2> QED
    BY <1>6, <2>1, FunctionIsSeq
<1>8. DOMAIN c.accounts = DOMAIN as /\ \A i \in DOMAIN as : c.accounts[i].id = as[i].id
  BY <1>4, <1>5
<1>9. c.settings.batch_size \in Int
  BY <1>1, <1>4
<1> QED
  BY <1>4, <1>7, <1>8, <1>9, Zenon DEF LoadedFrom

(* ... and what Validate does not object to is sound.                      *)
Sound(as, i) ==
  /\ as[i].name # "" /\ \A j \in DOMAIN as : as[j].name = as[i].name => j = i
  /\ as[i].interval > 0 /\ (as[i].billing => as[i].billingInterval > 0)
  /\ ToSet(as[i].resources) \subseteq Known /\ BillingType \notin ToSet(as[i].resources)

LEMMA NoProblems ==
  ASSUME NEW g, NEW as \in Seq(Account), g.batch_size \in Int, Problems(g, as) = {}
  PROVE  g.batch_size > 0 /\ \A i \in DOMAIN as : Sound(as, i)
<1>1. GlobalProblems(g, as) = {} /\ \A i \in DOMAIN as : AccountProblems(as, i) = {}
  BY DEF Problems
<1>2. g.batch_size > 0
  <2>1. "batch_size" \notin GlobalProblems(g, as)
    BY <1>1
  <2>2. ~(g.batch_size < 1)
    BY <2>1 DEF GlobalProblems
  <2> QED
    BY <2>2
<1>3. DOMAIN as = 1..Len(as) /\ Len(as) \in Nat /\ \A i \in DOMAIN as : as[i] \in Account
  BY LenProperties, ElementOfSeq
<1>4. ASSUME NEW i \in DOMAIN as
      PROVE  /\ as[i].name # "" /\ ~Duplicate(as, i) /\ as[i].interval > 0
             /\ as[i].billing => as[i].billingInterval > 0
             /\ ToSet(as[i].resources) \subseteq Known
             /\ BillingType \notin ToSet(as[i].resources)
  <2>1. /\ "name" \notin AccountProblems(as, i) /\ "duplicate" \notin AccountProblems(as, i)
        /\ "interval" \notin AccountProblems(as, i)
        /\ "billingInterval" \notin AccountProblems(as, i)
        /\ ResourceProblems(as[i]) = {}
    BY <1>1 DEF AccountProblems
  <2>2. as[i].name # ""
    BY <2>1 DEF AccountProblems
  <2>3. ~Duplicate(as, i)
    BY <2>1 DEF AccountProblems
  <2>4. as[i].interval \in Int /\ as[i].billingInterval \in Int
    BY <1>3 DEF Account
  <2>5. ~(as[i].interval <= 0)
    BY <2>1 DEF AccountProblems
  <2>6. ~(as[i].billing /\ as[i].billingInterval <= 0)
    BY <2>1 DEF AccountProblems
  <2>7. "unknown" \notin ResourceProblems(as[i]) /\ "billing" \notin ResourceProblems(as[i])
    BY <2>1
  <2>8. ToSet(as[i].resources) \subseteq Known /\ BillingType \notin ToSet(as[i].resources)
    BY <2>7 DEF ResourceProblems
  <2>9. as[i].interval > 0
    BY <2>4, <2>5, Positive, Zenon
  <2>10. ASSUME as[i].billing PROVE as[i].billingInterval > 0
    <3>1. ~(as[i].billingInterval <= 0)
      BY <2>6, <2>10, Zenon
    <3> QED
      BY <2>4, <3>1, Positive, Zenon
  <2> QED
    BY <2>2, <2>3, <2>8, <2>9, <2>10, Zenon
<1>5. ASSUME NEW i \in DOMAIN as, NEW j \in DOMAIN as, as[j].name = as[i].name PROVE j = i
  <2>1. ~Duplicate(as, i) /\ ~Duplicate(as, j) /\ as[i].name # ""
    BY <1>4
  <2>2. ~(j \in 1 .. i - 1) /\ ~(i \in 1 .. j - 1)
    BY <1>5, <2>1 DEF Duplicate
  <2> QED
    BY <1>3, <2>2
<1> QED
  BY <1>2, <1>4, <1>5 DEF Sound

-----------------------------------------------------------------------------
(* The schedules of accounts whose names differ are their own.             *)
ScheduledAs(scrape, billing, a) ==
  /\ scrape[a.name] = [every |-> a.interval, account |-> a, targets |-> TargetsFor(a)]
  /\ a.billing <=> a.name \in DOMAIN billing
  /\ a.billing => billing[a.name] = [every |-> a.billingInterval, account |-> a,
                                     targets |-> <<Target(BillingType, GlobalRegion)>>]

LEMMA OwnSchedules ==
  ASSUME NEW as, NEW i \in DOMAIN as, Sound(as, i), DOMAIN as \subseteq Int,
         as[i].billing \in BOOLEAN
  PROVE  ScheduledAs(AccountSchedules(as), BillingSchedules(as), as[i])
<1> DEFINE n == as[i].name
           billed == {j \in DOMAIN as : as[j].billing}
<1>1. Named(as, n) = {i}
  BY DEF Named, Sound
<1>2. Last_({i}) = i
  BY DEF Last_
<1>3. n \in {as[j].name : j \in DOMAIN as} /\ Last_(Named(as, n)) = i
  BY <1>1, <1>2
<1>4. AccountSchedules(as)[n]
        = [every |-> as[i].interval, account |-> as[i], targets |-> TargetsFor(as[i])]
  BY <1>3 DEF AccountSchedules
<1>5. n \in {as[j].name : j \in billed} <=> as[i].billing
  BY DEF Sound
<1>6. DOMAIN BillingSchedules(as) = {as[j].name : j \in billed}
  BY DEF BillingSchedules
<1>7. ASSUME as[i].billing
      PROVE  BillingSchedules(as)[n]
               = [every |-> as[i].billingInterval, account |-> as[i],
                  targets |-> <<Target(BillingType, GlobalRegion)>>]
  <2>1. Named(as, n) \cap billed = {i}
    BY <1>1, <1>7
  <2>2. Last_(Named(as, n) \cap billed) = i
    BY <1>2, <2>1
  <2> QED
    BY <1>5, <1>7, <2>2 DEF BillingSchedules
<1> QED
  BY <1>4, <1>5, <1>6, <1>7, Zenon DEF ScheduledAs

LEMMA SchedulesRun ==
  ASSUME NEW scrape, NEW billing, NEW a, ScheduledAs(scrape, billing, a),
         a.interval > 0, a.billing => a.billingInterval > 0
  PROVE  /\ scrape[a.name].account = a /\ scrape[a.name].every > 0
         /\ a.billing => billing[a.name].account = a /\ billing[a.name].every > 0
<1>1. scrape[a.name].account = a /\ scrape[a.name].every = a.interval
  BY DEF ScheduledAs
<1>2. ASSUME a.billing
      PROVE  billing[a.name].account = a /\ billing[a.name].every = a.billingInterval
  BY <1>2 DEF ScheduledAs
<1> QED
  BY <1>1, <1>2

-----------------------------------------------------------------------------
(* The targets of an account: of a type in every region, or in none.       *)
LEMMA TargetsOfType ==
  ASSUME NEW a \in Account, NEW t \in Known, NEW R, ToSet(a.regions) \subseteq R, GlobalRegion \in R
  PROVE  /\ TargetsOf(a, t) \in Seq([type : Known, region : R])
         /\ ToSet(TargetsOf(a, t)) = IF t \in GlobalTypes THEN {Target(t, GlobalRegion)}
                                     ELSE {Target(t, r) : r \in ToSet(a.regions)}
         /\ IsInjective(a.regions) => IsInjective(TargetsOf(a, t))
<1>1. CASE t \in GlobalTypes
  <2>1. TargetsOf(a, t) = <<Target(t, GlobalRegion)>> /\ DOMAIN <<Target(t, GlobalRegion)>> = {1}
    BY <1>1 DEF TargetsOf
  <2>2. Target(t, GlobalRegion) \in [type : Known, region : R]
    BY DEF Target
  <2> HIDE DEF Target
  <2>3. TargetsOf(a, t) \in Seq([type : Known, region : R])
    BY <2>1, <2>2
  <2>4. ToSet(TargetsOf(a, t)) = {Target(t, GlobalRegion)} /\ IsInjective(TargetsOf(a, t))
    BY <2>1 DEF ToSet, IsInjective
  <2> QED
    BY <1>1, <2>3, <2>4
<1>2. CASE t \notin GlobalTypes
  <2>1. TargetsOf(a, t) = [i \in DOMAIN a.regions |-> Target(t, a.regions[i])]
    BY <1>2 DEF TargetsOf
  <2>2. a.regions \in Seq(Name)
    BY DEF Account
  <2>3. Len(a.regions) \in Nat /\ DOMAIN a.regions = 1..Len(a.regions)
    BY <2>2, LenProperties
  <2>4. \A i \in DOMAIN a.regions : a.regions[i] \in R
    BY DEF ToSet
  <2>5. \A i \in DOMAIN a.regions : Target(t, a.regions[i]) \in [type : Known, region : R]
    BY <2>4 DEF Target
  <2>6. TargetsOf(a, t) \in [1..Len(a.regions) -> [type : Known, region : R]]
    BY <2>1, <2>3, <2>5
  <2>7. TargetsOf(a, t) \in Seq([type : Known, region : R])
    BY <2>3, <2>6, FunctionIsSeq
  <2>8. ToSet(TargetsOf(a, t)) = {Target(t, r) : r \in ToSet(a.regions)}
    BY <2>1 DEF ToSet
  <2>9. \A r, q : Target(t, r) = Target(t, q) => r = q
    BY DEF Target
  <2>10. IsInjective(a.regions) => IsInjective(TargetsOf(a, t))
    BY <2>1, <2>9 DEF IsInjective
  <2> QED
    BY <1>2, <2>7, <2>8, <2>10
<1> QED
  BY <1>1, <1>2

(* All of them, as a sequence and as a set.                                *)
Parts(a) == [i \in DOMAIN a.resources |-> TargetsOf(a, a.resources[i])]

LEMMA PartsType ==
  ASSUME NEW a \in Account, Resolvable(a), NEW R, ToSet(a.regions) \subseteq R, GlobalRegion \in R
  PROVE  /\ Parts(a) \in Seq(Seq([type : Known, region : R]))
         /\ DOMAIN Parts(a) = DOMAIN a.resources /\ TargetsFor(a) = FlattenSeq(Parts(a))
         /\ \A i \in DOMAIN a.resources : /\ a.resources[i] \in Known
                                          /\ Parts(a)[i] = TargetsOf(a, a.resources[i])
<1>1. a.resources \in Seq(Name)
  BY DEF Account
<1>2. Len(a.resources) \in Nat /\ DOMAIN a.resources = 1..Len(a.resources)
  BY <1>1, LenProperties
<1>3. \A i \in DOMAIN a.resources : a.resources[i] \in Known
  BY DEF Resolvable, ToSet
<1>4. \A i \in DOMAIN a.resources : TargetsOf(a, a.resources[i]) \in Seq([type : Known, region : R])
  BY <1>3, TargetsOfType
<1>5. Parts(a) \in [1..Len(a.resources) -> Seq([type : Known, region : R])]
  BY <1>2, <1>4 DEF Parts
<1>6. Parts(a) \in Seq(Seq([type : Known, region : R]))
  BY <1>2, <1>5, FunctionIsSeq
<1> QED
  BY <1>3, <1>6 DEF Parts, TargetsFor

TargetSet(a) ==
  {Target(t, r) : t \in ToSet(a.resources) \cap RegionalTypes, r \in ToSet(a.regions)}
    \cup {Target(t, GlobalRegion) : t \in ToSet(a.resources) \cap GlobalTypes}

LEMMA InTargetSet ==
  ASSUME NEW a, NEW x
  PROVE  x \in TargetSet(a) <=>
           \/ \E t \in ToSet(a.resources) \cap RegionalTypes :
                \E r \in ToSet(a.regions) : x = Target(t, r)
           \/ \E t \in ToSet(a.resources) \cap GlobalTypes : x = Target(t, GlobalRegion)
  BY DEF TargetSet

LEMMA TargetsType ==
  ASSUME NEW a \in Account, Resolvable(a), NEW R, ToSet(a.regions) \subseteq R, GlobalRegion \in R
  PROVE  TargetsFor(a) \in Seq([type : Known, region : R]) /\ ToSet(TargetsFor(a)) = TargetSet(a)
<1> USE ConfigAssumption
<1> DEFINE ps == Parts(a)
<1>1. /\ ps \in Seq(Seq([type : Known, region : R])) /\ TargetsFor(a) = FlattenSeq(ps)
      /\ DOMAIN ps = DOMAIN a.resources
      /\ \A i \in DOMAIN a.resources : a.resources[i] \in Known /\ ps[i] = TargetsOf(a, a.resources[i])
  BY PartsType
<1> HIDE DEF ps
<1>2. /\ TargetsFor(a) \in Seq([type : Known, region : R])
      /\ ToSet(TargetsFor(a)) = UNION {ToSet(ps[i]) : i \in DOMAIN ps}
  BY <1>1, FlattenKeepsElements
<1>3. \A i \in DOMAIN a.resources :
        ToSet(ps[i]) = IF a.resources[i] \in GlobalTypes THEN {Target(a.resources[i], GlobalRegion)}
                       ELSE {Target(a.resources[i], r) : r \in ToSet(a.regions)}
  BY <1>1, TargetsOfType
<1>4. ASSUME NEW x \in ToSet(TargetsFor(a)) PROVE x \in TargetSet(a)
  <2>1. PICK i \in DOMAIN a.resources : x \in ToSet(ps[i])
    BY <1>1, <1>2
  <2>2. a.resources[i] \in ToSet(a.resources) /\ a.resources[i] \in Known
    BY <1>1 DEF ToSet
  <2>3. CASE a.resources[i] \in GlobalTypes
    <3>1. x = Target(a.resources[i], GlobalRegion)
      BY <1>3, <2>1, <2>3
    <3>2. a.resources[i] \in ToSet(a.resources) \cap GlobalTypes
      BY <2>2, <2>3
    <3> QED
      BY <3>1, <3>2, InTargetSet, Zenon
  <2>4. CASE a.resources[i] \notin GlobalTypes
    <3>1. PICK r \in ToSet(a.regions) : x = Target(a.resources[i], r)
      BY <1>3, <2>1, <2>4
    <3>2. a.resources[i] \in ToSet(a.resources) \cap RegionalTypes
      BY <2>2, <2>4 DEF Known
    <3> QED
      BY <3>1, <3>2, InTargetSet, Zenon
  <2> QED
    BY <2>3, <2>4
<1>5. ASSUME NEW x \in TargetSet(a) PROVE x \in ToSet(TargetsFor(a))
  <2>1. \A t \in ToSet(a.resources) : \E i \in DOMAIN a.resources : a.resources[i] = t
    BY DEF ToSet
  <2>2. \E i \in DOMAIN a.resources : x \in ToSet(ps[i])
    <3>1. CASE \E t \in ToSet(a.resources) \cap GlobalTypes : x = Target(t, GlobalRegion)
      <4>1. PICK t \in ToSet(a.resources) \cap GlobalTypes : x = Target(t, GlobalRegion)
        BY <3>1
      <4>2. PICK i \in DOMAIN a.resources : a.resources[i] = t
        BY <2>1
      <4>3. ToSet(ps[i]) = {Target(t, GlobalRegion)}
        BY <1>3, <4>2
      <4> QED
        BY <4>1, <4>3
    <3>2. CASE \E t \in ToSet(a.resources) \cap RegionalTypes :
                  \E r \in ToSet(a.regions) : x = Target(t, r)
      <4>1. PICK t \in ToSet(a.resources) \cap RegionalTypes, r \in ToSet(a.regions) : x = Target(t, r)
        BY <3>2
      <4>2. PICK i \in DOMAIN a.resources : a.resources[i] = t
        BY <2>1
      <4>3. ToSet(ps[i]) = {Target(t, q) : q \in ToSet(a.regions)}
        BY <1>3, <4>2
      <4> QED
        BY <4>1, <4>3
    <3> QED
      BY <1>5, <3>1, <3>2, InTargetSet, Zenon
  <2> QED
    BY <1>1, <1>2, <2>2
<1> QED
  BY <1>2, <1>4, <1>5

-----------------------------------------------------------------------------
(* No target twice where no type and no region is listed twice, ...        *)
LEMMA TypeOfPart ==
  ASSUME NEW a, NEW t, NEW x, ToSet(TargetsOf(a, t)) = IF t \in GlobalTypes THEN {Target(t, GlobalRegion)}
                                     ELSE {Target(t, r) : r \in ToSet(a.regions)},
         x \in ToSet(TargetsOf(a, t))
  PROVE  x.type = t
  BY DEF Target

LEMMA TargetsInjective ==
  ASSUME NEW a \in Account, Resolvable(a), IsInjective(a.regions), IsInjective(a.resources)
  PROVE  IsInjective(TargetsFor(a))
<1> DEFINE ps == Parts(a)
           R == ToSet(a.regions) \cup {GlobalRegion}
           S == [type : Known, region : R]
<1>0. ToSet(a.regions) \subseteq R /\ GlobalRegion \in R
  OBVIOUS
<1> HIDE DEF R
<1>1. /\ ps \in Seq(Seq(S)) /\ TargetsFor(a) = FlattenSeq(ps)
      /\ DOMAIN ps = DOMAIN a.resources
      /\ \A i \in DOMAIN a.resources : a.resources[i] \in Known /\ ps[i] = TargetsOf(a, a.resources[i])
  BY <1>0, PartsType
<1> HIDE DEF ps, S
<1>2. \A i \in DOMAIN ps : IsInjective(ps[i])
  <2> TAKE i \in DOMAIN ps
  <2>1. a.resources[i] \in Known /\ ps[i] = TargetsOf(a, a.resources[i])
    BY <1>1
  <2> QED
    BY <1>0, <2>1, TargetsOfType
<1>3. ASSUME NEW i \in DOMAIN ps, NEW x \in ToSet(ps[i]) PROVE x.type = a.resources[i]
  <2>1. a.resources[i] \in Known /\ ps[i] = TargetsOf(a, a.resources[i])
    BY <1>1
  <2> QED
    BY <1>0, <2>1, TargetsOfType, TypeOfPart
<1>4. \A i, j \in DOMAIN ps : i # j => a.resources[i] # a.resources[j]
  BY <1>1 DEF IsInjective
<1>5. \A i, j \in DOMAIN ps : i # j => ToSet(ps[i]) \cap ToSet(ps[j]) = {}
  BY <1>3, <1>4
<1> QED
  BY <1>1, <1>2, <1>5, FlattenInjective

(* ... and what targets of one account write differs as they do.           *)
Place == Name \cup {GlobalRegion}
Units == Name \X Place \X Known

LEMMA UnitsOfTargets ==
  ASSUME NEW a \in Account, NEW ts \in Seq([type : Known, region : Place]),
         NEW u, u = [k \in DOMAIN ts |-> Unit(a, ts[k])]
  PROVE  /\ u \in Seq(Units) /\ ToSet(u) = {Unit(a, t) : t \in ToSet(ts)}
         /\ IsInjective(ts) => IsInjective(u)
         /\ \A x \in ToSet(u) : x[1] = a.id
<1>1. Len(ts) \in Nat /\ DOMAIN ts = 1..Len(ts)
      /\ \A k \in DOMAIN ts : ts[k] \in [type : Known, region : Place]
  BY LenProperties, ElementOfSeq
<1>2. \A t \in [type : Known, region : Place] : Unit(a, t) \in Units /\ Unit(a, t)[1] = a.id
  BY DEF Unit, Units, Account
<1>3. \A t, v \in [type : Known, region : Place] : Unit(a, t) = Unit(a, v) => t = v
  BY DEF Unit
<1>4. u \in [1..Len(ts) -> Units]
  BY <1>1, <1>2
<1>5. u \in Seq(Units)
  BY <1>1, <1>4, FunctionIsSeq
<1>6. ToSet(u) = {Unit(a, t) : t \in ToSet(ts)}
  BY DEF ToSet
<1>7. IsInjective(ts) => IsInjective(u)
  BY <1>1, <1>3 DEF IsInjective
<1>8. \A x \in ToSet(u) : x[1] = a.id
  BY <1>1, <1>2 DEF ToSet
<1> QED
  BY <1>5, <1>6, <1>7, <1>8

UnitsOfAccount(a) ==
  UnitsOf([account |-> a, targets |-> TargetsFor(a)])
    \o IF a.billing THEN UnitsOf([account |-> a, targets |-> <<Target(BillingType, GlobalRegion)>>])
       ELSE <<>>

LEMMA ScheduledAsUnits ==
  ASSUME NEW scrape, NEW billing, NEW a, ScheduledAs(scrape, billing, a)
  PROVE  UnitsOf(scrape[a.name])
           \o (IF a.name \in DOMAIN billing THEN UnitsOf(billing[a.name]) ELSE <<>>)
         = UnitsOfAccount(a)
<1>1. UnitsOf(scrape[a.name]) = UnitsOf([account |-> a, targets |-> TargetsFor(a)])
  <2>1. scrape[a.name].account = a /\ scrape[a.name].targets = TargetsFor(a)
    BY DEF ScheduledAs
  <2> QED
    BY <2>1 DEF UnitsOf
<1>2. ASSUME a.billing
      PROVE  UnitsOf(billing[a.name])
               = UnitsOf([account |-> a, targets |-> <<Target(BillingType, GlobalRegion)>>])
  <2>1. billing[a.name].account = a
        /\ billing[a.name].targets = <<Target(BillingType, GlobalRegion)>>
    BY <1>2 DEF ScheduledAs
  <2> QED
    BY <2>1 DEF UnitsOf
<1>3. a.billing <=> a.name \in DOMAIN billing
  BY DEF ScheduledAs
<1>4. CASE a.billing
  BY <1>1, <1>2, <1>3, <1>4, Zenon DEF UnitsOfAccount
<1>5. CASE ~a.billing
  BY <1>1, <1>3, <1>5, Zenon DEF UnitsOfAccount
<1> QED
  BY <1>4, <1>5

LEMMA OwnUnits ==
  ASSUME NEW a \in Account, Resolvable(a), BillingType \notin ToSet(a.resources),
         IsInjective(a.regions), IsInjective(a.resources)
  PROVE  /\ UnitsOfAccount(a) \in Seq(Units) /\ IsInjective(UnitsOfAccount(a))
         /\ \A x \in ToSet(UnitsOfAccount(a)) : x[1] = a.id
<1> DEFINE ts == TargetsFor(a)
           bs == <<Target(BillingType, GlobalRegion)>>
           u == [k \in DOMAIN ts |-> Unit(a, ts[k])]
           v == [k \in DOMAIN bs |-> Unit(a, bs[k])]
           S == [type : Known, region : Place]
<1>1. GlobalRegion \in Place /\ ToSet(a.regions) \subseteq Place
  <2>1. a.regions \in Seq(Name)
    BY DEF Account
  <2>2. ToSet(a.regions) \subseteq Name
    BY <2>1, LenProperties, ElementOfSeq DEF ToSet
  <2> QED
    BY <2>2 DEF Place
<1>2. ts \in Seq(S) /\ ToSet(ts) = TargetSet(a) /\ IsInjective(ts)
  BY <1>1, TargetsType, TargetsInjective
<1>3. bs \in Seq(S) /\ ToSet(bs) = {Target(BillingType, GlobalRegion)} /\ IsInjective(bs)
  <2>1. Target(BillingType, GlobalRegion) \in S
    BY <1>1, ConfigAssumption DEF Target, Known
  <2>2. bs \in Seq(S) /\ DOMAIN bs = {1} /\ bs[1] = Target(BillingType, GlobalRegion)
    BY <2>1
  <2> QED
    BY <2>2 DEF ToSet, IsInjective
<1>4. \A t \in ToSet(ts) : t # Target(BillingType, GlobalRegion)
  BY <1>2, InTargetSet DEF Target
<1> HIDE DEF ts, bs, S
<1>5. /\ u \in Seq(Units) /\ ToSet(u) = {Unit(a, t) : t \in ToSet(ts)} /\ IsInjective(u)
      /\ \A x \in ToSet(u) : x[1] = a.id
  BY <1>2, UnitsOfTargets DEF S
<1>6. /\ v \in Seq(Units) /\ ToSet(v) = {Unit(a, t) : t \in ToSet(bs)} /\ IsInjective(v)
      /\ \A x \in ToSet(v) : x[1] = a.id
  BY <1>3, UnitsOfTargets DEF S
<1>7. ToSet(u) \cap ToSet(v) = {}
  <2>1. \A t, w \in S : Unit(a, t) = Unit(a, w) => t = w
    BY DEF Unit, S
  <2>2. ToSet(ts) \subseteq S /\ ToSet(bs) \subseteq S
    BY <1>2, <1>3, LenProperties, ElementOfSeq DEF ToSet
  <2> QED
    BY <1>3, <1>4, <1>5, <1>6, <2>1, <2>2
<1>8. UnitsOfAccount(a) = u \o IF a.billing THEN v ELSE <<>>
  BY DEF UnitsOfAccount, UnitsOf, ts, bs
<1> HIDE DEF u, v
<1>9. CASE a.billing
  <2>1. UnitsOfAccount(a) = u \o v
    BY <1>8, <1>9
  <2>2. u \o v \in Seq(Units) /\ ToSet(u \o v) = ToSet(u) \cup ToSet(v)
    BY <1>5, <1>6, ConcatSet
  <2>3. IsInjective(u \o v)
    BY <1>5, <1>6, <1>7, ConcatInjective
  <2> QED
    BY <1>5, <1>6, <2>1, <2>2, <2>3
<1>10. CASE ~a.billing
  <2>1. u \o <<>> = u
    BY <1>5, ConcatEmptySeq
  <2> QED
    BY <1>5, <1>8, <1>10, <2>1
<1> QED
  BY <1>9, <1>10
-----------------------------------------------------------------------------
(* The command.  Before the flags are resolved it has done nothing, and    *)
(* from then on its targets are those of the account the flags name.       *)
Inputs == file \in File /\ env \in Env /\ listed \in Listed /\ flags \in Flags

Kinds ==
  /\ phase \in {"start", "loaded", "selected", "scraping", "exit"} /\ code \in {0, 1}
  /\ store \in {"none", "counting", "elasticsearch"}

FromInput ==
  /\ phase # "start" => cfg = Load(file, env, listed)
  /\ phase \in {"loaded", "selected", "scraping"} => cfg.ok

Before == account = Nothing /\ targets = <<>> /\ done = 0 /\ store = "none"

After ==
  /\ phase # "start" /\ cfg.ok /\ Chosen # {}
  /\ account = Overridden(cfg.accounts[First(Chosen)])
  /\ Resolvable(account) /\ targets = TargetsFor(account)
  /\ done \in 0..Len(targets)

Selection ==
  /\ phase \in {"start", "loaded"} => Before
  /\ phase \in {"selected", "scraping"} => After
  /\ phase = "selected" => done = 0 /\ store = "none"
  /\ phase = "exit" /\ code = 0 => After /\ done = Len(targets)
  /\ phase = "exit" /\ code = 1 => Before \/ After

(* What it has written: all of the targets it is done with, and perhaps    *)
(* some of the one at which it gave up.                                    *)
DoneUnits == {Unit(account, targets[k]) : k \in 1..done}

Written ==
  /\ store = "elasticsearch" => ~flags.dryRun
  /\ phase = "scraping" \/ (phase = "exit" /\ code = 0) =>
       store = IF flags.dryRun THEN "counting" ELSE "elasticsearch"
  /\ complete = Writes(DoneUnits)
  /\ \/ touched = complete
     \/ /\ phase = "exit" /\ code = 1 /\ done < Len(targets) /\ store = "elasticsearch"
        /\ touched = complete \cup {Unit(account, targets[done + 1])}

(* One account, so the role and the region say which configuration it is.  *)
OneAccount ==
  /\ phase \in {"start", "loaded"} => cached = Nothing
  /\ \A k \in DOMAIN cached :
       cached[k] = [role |-> account.role, external |-> account.external, region |-> k[2]]

CommandInv ==
  Inputs /\ Kinds /\ FromInput /\ Selection /\ Written /\ OneAccount /\ OwnConfig

LEMMA CommandInit == Init => CommandInv
<1> SUFFICES ASSUME Init PROVE CommandInv
  OBVIOUS
<1> USE DEF Init, F!Init
<1>1. Inputs /\ Kinds /\ FromInput /\ Selection
  BY DEF Inputs, Kinds, FromInput, Selection, Before
<1>2. Written
  BY DEF Written, Writes
<1>3. OneAccount /\ OwnConfig
  BY DEF OneAccount, OwnConfig, F!OwnConfig, F!Nothing, Nothing
<1> QED
  BY <1>1, <1>2, <1>3 DEF CommandInv

(* A configuration that is handed out is kept, and is that of the account. *)
LEMMA ConfigStep ==
  ASSUME OneAccount, phase = "scraping", NEW r, F!Config(account, r)
  PROVE  /\ \A k \in DOMAIN cached' :
              cached'[k] = [role |-> account.role, external |-> account.external, region |-> k[2]]
         /\ F!OwnConfig'
<1> DEFINE key == F!Key(account, r)
           built == F!Built(account, r)
<1>1. /\ cached' = [k \in DOMAIN cached \cup {key} |->
                      IF k \in DOMAIN cached THEN cached[k] ELSE built]
      /\ given' = cached'[key] /\ asked' = <<account, r>>
  BY DEF F!Config
<1>2. built = [role |-> account.role, external |-> account.external, region |-> key[2]]
  BY DEF F!Built, F!Key
<1> HIDE DEF key, built
<1>3. ASSUME NEW k \in DOMAIN cached'
      PROVE  cached'[k] = [role |-> account.role, external |-> account.external, region |-> k[2]]
  <2>1. CASE k \in DOMAIN cached
    BY <1>1, <2>1 DEF OneAccount
  <2>2. CASE k \notin DOMAIN cached
    BY <1>1, <1>2, <2>2
  <2> QED
    BY <2>1, <2>2
<1>4. given' = built
  BY <1>1, <1>2, <1>3
<1>5. F!OwnConfig'
  BY <1>1, <1>4 DEF F!OwnConfig, built
<1> QED
  BY <1>3, <1>5

LEMMA StartSteps ==
  ASSUME CommandInv, LoadConfig \/ SelectFails \/ OpenFails
  PROVE  CommandInv'
<1> USE DEF input, locals, stored, factory, Exits
<1>1. UNCHANGED <<input, locals, stored, factory>>
  BY DEF LoadConfig, SelectFails, OpenFails
<1>2. Inputs' /\ OneAccount' /\ OwnConfig'
  <2>1. OneAccount'
    BY <1>1 DEF CommandInv, OneAccount, LoadConfig, SelectFails, OpenFails
  <2> QED
    BY <1>1, <2>1 DEF CommandInv, Inputs, OwnConfig, F!OwnConfig, F!Built, F!Effective
<1>3. Kinds'
  BY <1>1 DEF CommandInv, Kinds, LoadConfig, SelectFails, OpenFails
<1>4. FromInput'
  BY <1>1 DEF CommandInv, FromInput, LoadConfig, SelectFails, OpenFails
<1>5. Selection'
  <2>1. CASE LoadConfig \/ SelectFails
    BY <1>1, <2>1 DEF CommandInv, Selection, Before, LoadConfig, SelectFails
  <2>2. CASE OpenFails
    BY <1>1, <2>2 DEF CommandInv, Selection, Before, After, Chosen, OpenFails, Overridden
  <2> QED
    BY <2>1, <2>2
<1>6. Written'
  <2>1. store = "none" /\ phase \in {"start", "loaded", "selected"}
    BY DEF CommandInv, Selection, Before, LoadConfig, SelectFails, OpenFails
  <2>2. phase' # "scraping" /\ ~(phase' = "exit" /\ code' = 0) /\ store' = "none"
    BY <1>1, <2>1 DEF LoadConfig, SelectFails, OpenFails
  <2>3. touched = {} /\ complete = {}
    BY <2>1 DEF CommandInv, Written, Writes
  <2> QED
    BY <1>1, <2>2, <2>3 DEF Written, Writes
<1> QED
  BY <1>2, <1>3, <1>4, <1>5, <1>6 DEF CommandInv

(* What Load made of the input, and the account the flags choose of it.    *)
LEMMA LoadedTypes ==
  ASSUME Inputs, FromInput, phase # "start"
  PROVE  LoadedFrom(cfg, listed)
<1>1. IsPart(file) /\ IsPart(env) /\ listed \in Seq(Account) /\ cfg = Load(file, env, listed)
  BY ScrapeCommandAssumption DEF Inputs, FromInput
<1> QED
  BY <1>1, LoadType, Zenon

LEMMA OneElement ==
  ASSUME NEW S, NEW x \in S
  PROVE  <<x>> \in Seq(S) /\ ToSet(<<x>>) = {x}
<1>1. <<x>> \in Seq(S) /\ DOMAIN <<x>> = {1} /\ <<x>>[1] = x
  OBVIOUS
<1> QED
  BY <1>1 DEF ToSet

LEMMA OneOr ==
  ASSUME NEW S, NEW s \in Seq(S), NEW x \in S, NEW c
  PROVE  /\ (IF c THEN s ELSE <<x>>) \in Seq(S)
         /\ ToSet(IF c THEN s ELSE <<x>>) \subseteq ToSet(s) \cup {x}
<1>1. CASE c
  BY <1>1
<1>2. CASE ~c
  BY <1>2, OneElement
<1> QED
  BY <1>1, <1>2

LEMMA FirstOf ==
  ASSUME NEW I, I \subseteq Nat, I # {}
  PROVE  First(I) \in I
<1>1. \E n \in I : \A m \in I : n <= m
  BY LeastNat
<1> QED
  BY <1>1 DEF First

LEMMA ChosenAccount ==
  ASSUME Inputs, FromInput, phase # "start", Chosen # {},
         NEW a, a = Overridden(cfg.accounts[First(Chosen)])
  PROVE  /\ First(Chosen) \in DOMAIN listed /\ a \in Account
         /\ a.id = listed[First(Chosen)].id
         /\ ToSet(a.regions) \subseteq Regions /\ GlobalRegion \in Regions
<1> DEFINE i == First(Chosen)
           c == cfg.accounts[i]
           r == IF flags.region = "" THEN c.regions ELSE <<flags.region>>
           t == IF flags.resource = "" THEN c.resources ELSE <<flags.resource>>
<1>1. cfg.accounts \in Seq(Account) /\ DOMAIN cfg.accounts = DOMAIN listed
      /\ \A j \in DOMAIN listed : cfg.accounts[j].id = listed[j].id
  BY LoadedTypes DEF LoadedFrom
<1>2. Len(cfg.accounts) \in Nat /\ DOMAIN cfg.accounts = 1..Len(cfg.accounts)
  BY <1>1, LenProperties
<1>3. i \in DOMAIN listed
  <2>1. Chosen \subseteq Nat /\ Chosen \subseteq DOMAIN listed
    BY <1>1, <1>2 DEF Chosen, Named
  <2> QED
    BY <2>1, FirstOf
<1>4. c \in Account /\ c.id = listed[i].id
  BY <1>1, <1>2, <1>3, ElementOfSeq
<1>5. flags.region \in Name /\ flags.resource \in Name
  BY ScrapeCommandAssumption DEF Inputs
<1>6. a = [c EXCEPT !.regions = r, !.resources = t]
  BY DEF Overridden
<1>7. c.regions \in Seq(Name) /\ c.resources \in Seq(Name)
  BY <1>4 DEF Account
<1>8. GlobalRegion \in Regions /\ flags.region \in Regions /\ ToSet(c.regions) \subseteq Regions
  <2>1. c \in ToSet(cfg.accounts)
    BY <1>1, <1>3 DEF ToSet
  <2>2. flags.region \in {f.region : f \in Flags}
    BY DEF Inputs
  <2> QED
    BY <2>1, <2>2 DEF Regions
<1> HIDE DEF i, c
<1>9. r \in Seq(Name) /\ ToSet(r) \subseteq ToSet(c.regions) \cup {flags.region}
  BY <1>5, <1>7, OneOr, Zenon
<1>10. t \in Seq(Name)
  BY <1>5, <1>7, OneOr, Zenon
<1> HIDE DEF r, t
<1>11. a.regions = r /\ a.resources = t /\ a.id = c.id /\ a \in Account
  BY <1>4, <1>6, <1>9, <1>10 DEF Account
<1> QED
  BY <1>3, <1>4, <1>8, <1>9, <1>11 DEF i

LEMMA SelectStep ==
  ASSUME CommandInv, Select
  PROVE  CommandInv'
<1> USE DEF input, stored, factory
<1>1. /\ phase = "loaded" /\ phase' = "selected" /\ Chosen # {}
      /\ account' = Overridden(cfg.accounts[First(Chosen)])
      /\ Resolvable(account') /\ targets' = TargetsFor(account')
      /\ UNCHANGED <<input, code, cfg, done, store, stored, factory>>
  BY DEF Select
<1>2. Before /\ cached = Nothing /\ cfg.ok
  BY <1>1 DEF CommandInv, Selection, OneAccount, FromInput
<1>3. Inputs' /\ OneAccount' /\ OwnConfig'
  <2>1. OneAccount'
    BY <1>1, <1>2 DEF OneAccount, Nothing
  <2> QED
    BY <1>1, <2>1 DEF CommandInv, Inputs, OwnConfig, F!OwnConfig, F!Built, F!Effective
<1>4. Kinds' /\ FromInput'
  BY <1>1 DEF CommandInv, Kinds, FromInput
<1>5. After'
  <2>1. account' \in Account /\ ToSet(account'.regions) \subseteq Regions /\ GlobalRegion \in Regions
    BY <1>1, ChosenAccount DEF CommandInv
  <2>2. targets' \in Seq([type : Known, region : Regions])
    BY <1>1, <2>1, TargetsType
  <2>3. Len(targets') \in Nat
    BY <2>2, LenProperties
  <2> QED
    BY <1>1, <1>2, <2>3 DEF After, Before, Chosen, Overridden
<1>6. Selection'
  BY <1>1, <1>2, <1>5 DEF Selection, Before
<1>7. Written'
  BY <1>1, <1>2 DEF CommandInv, Written, Writes, Before
<1> QED
  BY <1>3, <1>4, <1>6, <1>7 DEF CommandInv

LEMMA OpenStep ==
  ASSUME CommandInv, Open
  PROVE  CommandInv'
<1> USE DEF input, stored, factory
<1>1. /\ phase = "selected" /\ phase' = "scraping"
      /\ store' = (IF flags.dryRun THEN "counting" ELSE "elasticsearch")
      /\ UNCHANGED <<input, code, cfg, account, targets, done, stored, factory>>
  BY DEF Open
<1>2. After /\ done = 0 /\ cfg.ok /\ store = "none"
  BY <1>1 DEF CommandInv, Selection, After
<1>3. Inputs' /\ OneAccount' /\ OwnConfig'
  <2>1. OneAccount'
    BY <1>1 DEF CommandInv, OneAccount
  <2> QED
    BY <1>1, <2>1 DEF CommandInv, Inputs, OwnConfig, F!OwnConfig, F!Built, F!Effective
<1>4. Kinds' /\ FromInput'
  BY <1>1 DEF CommandInv, Kinds, FromInput
<1>5. After'
  BY <1>1, <1>2 DEF After, Chosen, Overridden
<1>6. Selection'
  BY <1>1, <1>5 DEF Selection
<1>7. Written'
  <2>1. touched = {} /\ complete = {}
    BY <1>1, <1>2 DEF CommandInv, Written, Writes
  <2>2. DoneUnits' = {}
    BY <1>1, <1>2 DEF DoneUnits
  <2>3. complete' = {} /\ touched' = {} /\ flags' = flags
    BY <1>1, <2>1
  <2> QED
    BY <1>1, <2>2, <2>3 DEF Written, Writes
<1> QED
  BY <1>3, <1>4, <1>6, <1>7 DEF CommandInv

LEMMA FinishStep ==
  ASSUME CommandInv, Finish
  PROVE  CommandInv'
<1> USE DEF input, locals, stored, factory, Exits
<1>1. /\ phase = "scraping" /\ done = Len(targets) /\ phase' = "exit" /\ code' = 0
      /\ UNCHANGED <<input, cfg, locals, stored, factory>>
  BY DEF Finish
<1>2. Inputs' /\ OneAccount' /\ OwnConfig'
  <2>1. OneAccount'
    BY <1>1 DEF CommandInv, OneAccount
  <2> QED
    BY <1>1, <2>1 DEF CommandInv, Inputs, OwnConfig, F!OwnConfig, F!Built, F!Effective
<1>3. Kinds' /\ FromInput'
  BY <1>1 DEF CommandInv, Kinds, FromInput
<1>4. After'
  BY <1>1 DEF CommandInv, Selection, After, Chosen, Overridden
<1>5. Selection'
  BY <1>1, <1>4 DEF Selection
<1>6. Written'
  <2>1. DoneUnits' = DoneUnits
    BY <1>1 DEF DoneUnits, Unit
  <2> QED
    BY <1>1, <2>1 DEF CommandInv, Written, Writes
<1> QED
  BY <1>2, <1>3, <1>5, <1>6 DEF CommandInv

(* The two ways in which the target in hand ends.                          *)
LEMMA ScrapeSteps ==
  ASSUME CommandInv, ScrapeTarget \/ ScrapeFails
  PROVE  CommandInv'
<1> USE DEF input, locals
<1> DEFINE t == targets[done + 1]
<1>1. /\ phase = "scraping" /\ done < Len(targets) /\ F!Config(account, t.region)
      /\ UNCHANGED <<input, cfg, account, targets, store>>
  BY DEF ScrapeTarget, ScrapeFails
<1>2. After /\ cfg.ok
  BY <1>1 DEF CommandInv, Selection, After
<1>3. store = (IF flags.dryRun THEN "counting" ELSE "elasticsearch")
      /\ complete = Writes(DoneUnits) /\ touched = complete
  BY <1>1 DEF CommandInv, Written
<1>4. Inputs' /\ OneAccount' /\ OwnConfig'
  <2>1. /\ \A k \in DOMAIN cached' :
             cached'[k] = [role |-> account.role, external |-> account.external, region |-> k[2]]
        /\ F!OwnConfig'
    BY <1>1, ConfigStep DEF CommandInv
  <2>2. phase' \in {"scraping", "exit"}
    BY <1>1 DEF ScrapeTarget, ScrapeFails, Exits
  <2> QED
    BY <1>1, <2>1, <2>2 DEF CommandInv, Inputs, OneAccount, OwnConfig
<1>5. done \in Nat /\ Len(targets) \in Nat
  <2>1. account \in Account /\ ToSet(account.regions) \subseteq Regions /\ GlobalRegion \in Regions
    BY <1>1, <1>2, ChosenAccount DEF CommandInv, After
  <2>2. targets \in Seq([type : Known, region : Regions])
    BY <1>2, <2>1, TargetsType DEF After
  <2> QED
    BY <1>2, <2>2, LenProperties DEF After
<1> HIDE DEF t
<1>6. CASE ScrapeTarget
  <2>1. /\ done' = done + 1 /\ UNCHANGED <<phase, code>>
        /\ complete' = complete \cup Writes({Unit(account, t)})
        /\ touched' = touched \cup Writes({Unit(account, t)})
    BY <1>6 DEF ScrapeTarget, t
  <2>2. Kinds' /\ FromInput'
    BY <1>1, <2>1 DEF CommandInv, Kinds, FromInput
  <2>3. After'
    BY <1>1, <1>2, <1>5, <2>1 DEF After, Chosen, Overridden
  <2>4. Selection'
    BY <1>1, <2>1, <2>3 DEF Selection
  <2>5. DoneUnits' = DoneUnits \cup {Unit(account, t)}
    <3>1. 1 .. done + 1 = (1..done) \cup {done + 1}
      BY <1>5
    <3> QED
      BY <1>1, <2>1, <3>1 DEF DoneUnits, Unit, t
  <2>6. Written'
    BY <1>1, <1>3, <2>1, <2>5 DEF Written, Writes
  <2> QED
    BY <1>4, <2>2, <2>4, <2>6 DEF CommandInv
<1>7. CASE ScrapeFails
  <2>1. /\ phase' = "exit" /\ code' = 1 /\ done' = done /\ complete' = complete
        /\ \E U \in SUBSET {Unit(account, t)} : touched' = touched \cup Writes(U)
    BY <1>7 DEF ScrapeFails, Exits, t
  <2>2. Kinds' /\ FromInput'
    BY <1>1, <2>1 DEF CommandInv, Kinds, FromInput
  <2>3. After'
    BY <1>1, <1>2, <2>1 DEF After, Chosen, Overridden
  <2>4. Selection'
    BY <1>1, <2>1, <2>3 DEF Selection
  <2>5. DoneUnits' = DoneUnits
    BY <1>1, <2>1 DEF DoneUnits, Unit
  <2>6. touched' = complete \/ (store = "elasticsearch" /\ touched' = complete \cup {Unit(account, t)})
    BY <1>3, <2>1 DEF Writes
  <2>7. Unit(account, t)' = Unit(account, t)
    BY <1>1, <2>1 DEF Unit, t
  <2>8. Written'
    BY <1>1, <1>3, <2>1, <2>5, <2>6, <2>7 DEF Written, Writes, t
  <2> QED
    BY <1>4, <2>2, <2>4, <2>8 DEF CommandInv
<1> QED
  BY <1>6, <1>7

(* The steps of the command keep the invariant that the theorems below     *)
(* rest on: what it has selected, written and been given so far.           *)
THEOREM CommandInvariance == Spec => []CommandInv
<1>1. Init => CommandInv
  BY CommandInit
<1>2. CommandInv /\ [Next]_vars => CommandInv'
  <2> SUFFICES ASSUME CommandInv, [Next]_vars PROVE CommandInv'
    OBVIOUS
  <2>1. CASE Next
    BY <2>1, StartSteps, SelectStep, OpenStep, ScrapeSteps, FinishStep DEF Next
  <2>2. CASE UNCHANGED vars
    <3> USE <2>2 DEF vars, input, locals, stored, factory
    <3>1. Inputs' /\ Kinds' /\ FromInput' /\ OneAccount'
      BY DEF CommandInv, Inputs, Kinds, FromInput, OneAccount
    <3>2. OwnConfig'
      BY DEF CommandInv, OwnConfig, F!OwnConfig, F!Built, F!Effective
    <3>3. Selection'
      BY DEF CommandInv, Selection, Before, After, Chosen, Overridden
    <3>4. DoneUnits' = DoneUnits
      BY DEF DoneUnits, Unit
    <3>5. Written'
      BY <3>4 DEF CommandInv, Written, Writes, Unit
    <3> QED
      BY <3>1, <3>2, <3>3, <3>5 DEF CommandInv
  <2> QED
    BY <2>1, <2>2
<1> QED
  BY <1>1, <1>2, PTL DEF Spec
-----------------------------------------------------------------------------
(* What follows from it.                                                   *)
LEMMA TargetsNow ==
  ASSUME CommandInv, After
  PROVE  /\ account \in Account /\ First(Chosen) \in DOMAIN listed
         /\ account.id = listed[First(Chosen)].id
         /\ targets \in Seq([type : Known, region : Regions])
         /\ ToSet(targets) = TargetSet(account)
<1>1. /\ First(Chosen) \in DOMAIN listed /\ account \in Account
      /\ account.id = listed[First(Chosen)].id
      /\ ToSet(account.regions) \subseteq Regions /\ GlobalRegion \in Regions
  BY ChosenAccount DEF CommandInv, After
<1>2. /\ TargetsFor(account) \in Seq([type : Known, region : Regions])
      /\ ToSet(TargetsFor(account)) = TargetSet(account)
  BY <1>1, TargetsType DEF After
<1> QED
  BY <1>1, <1>2 DEF After

LEMMA BeforeOrAfter ==
  ASSUME CommandInv
  PROVE  Before \/ After
  BY DEF CommandInv, Kinds, Selection

(* The units of the targets; it writes no other, and none in a dry run.    *)
UnitsNow == {Unit(account, t) : t \in ToSet(targets)}

LEMMA TouchedUnits ==
  ASSUME CommandInv, touched # {}
  PROVE  After /\ ~flags.dryRun /\ touched \subseteq UnitsNow
<1>1. store = "elasticsearch"
  BY DEF CommandInv, Written, Writes
<1>2. After /\ ~flags.dryRun
  BY <1>1, BeforeOrAfter DEF Before, CommandInv, Written
<1>3. Len(targets) \in Nat /\ DOMAIN targets = 1..Len(targets) /\ done \in 0..Len(targets)
  BY <1>2, TargetsNow, LenProperties DEF After
<1>4. \A k \in 1..Len(targets) : Unit(account, targets[k]) \in UnitsNow
  BY <1>3 DEF UnitsNow, ToSet
<1>5. complete \subseteq UnitsNow
  BY <1>3, <1>4 DEF CommandInv, Written, Writes, DoneUnits
<1>6. touched \subseteq UnitsNow
  <2>1. CASE touched = complete
    BY <1>5, <2>1
  <2>2. CASE done < Len(targets) /\ touched = complete \cup {Unit(account, targets[done + 1])}
    <3>1. done + 1 \in 1..Len(targets)
      BY <1>3, <2>2
    <3> QED
      BY <1>4, <1>5, <2>2, <3>1
  <2> QED
    BY <2>1, <2>2 DEF CommandInv, Written
<1> QED
  BY <1>2, <1>6

(* The command's state has the shape TypeOK gives it: targets of known     *)
(* types and of regions that the input names, and units of those only.     *)
THEOREM CommandTypeOK == Spec => []TypeOK
<1>1. CommandInv => TypeOK
  <2> SUFFICES ASSUME CommandInv PROVE TypeOK
    OBVIOUS
  <2>1. targets \in Seq([type : Known, region : Regions]) /\ done \in 0..Len(targets)
    <3>1. CASE Before
      <4>1. targets \in Seq([type : Known, region : Regions]) /\ Len(targets) = 0 /\ done = 0
        BY <3>1, EmptySeq DEF Before
      <4> QED
        BY <4>1
    <3>2. CASE After
      BY <3>2, TargetsNow DEF After
    <3> QED
      BY <3>1, <3>2, BeforeOrAfter
  <2>2. complete \subseteq touched
    BY DEF CommandInv, Written
  <2>3. ASSUME NEW x \in touched
        PROVE  x \in {listed[i].id : i \in DOMAIN listed} \X Regions \X Known
    <3>1. After /\ x \in UnitsNow
      BY TouchedUnits
    <3>2. PICK t \in ToSet(targets) : x = Unit(account, t)
      BY <3>1 DEF UnitsNow
    <3>3. targets \in Seq([type : Known, region : Regions])
          /\ account.id \in {listed[i].id : i \in DOMAIN listed}
      BY <3>1, TargetsNow
    <3>4. t \in [type : Known, region : Regions]
      BY <3>3, ElementsOf
    <3> QED
      BY <3>2, <3>3, <3>4 DEF Unit
  <2> QED
    BY <2>1, <2>2, <2>3 DEF TypeOK, CommandInv, Kinds
<1> QED
  BY <1>1, CommandInvariance, PTL

(* Every target is scraped under a configuration of the role, the external *)
(* id and the region of its own, whatever the cache held before.           *)
THEOREM CommandOwnConfig == Spec => []OwnConfig
<1>1. CommandInv => OwnConfig
  BY DEF CommandInv
<1> QED
  BY <1>1, CommandInvariance, PTL

(* What Load accepts can be scheduled: every account resolves to targets,  *)
(* every interval is positive, and the schedules made for an account are   *)
(* those of that account and of no other with the same name.               *)
THEOREM LoadedIsRunnable == Spec => []ValidIsRunnable
<1>1. CommandInv => ValidIsRunnable
  <2> SUFFICES ASSUME CommandInv, Loaded, NEW i \in DOMAIN cfg.accounts
               PROVE  LET a == cfg.accounts[i]
                          scrape  == AccountSchedules(cfg.accounts)
                          billing == BillingSchedules(cfg.accounts)
                      IN /\ Resolvable(a) /\ cfg.settings.batch_size > 0
                         /\ scrape[a.name].account = a /\ scrape[a.name].every > 0
                         /\ a.billing <=> a.name \in DOMAIN billing
                         /\ a.billing => billing[a.name].account = a /\ billing[a.name].every > 0
    BY DEF ValidIsRunnable
  <2> DEFINE as == cfg.accounts
             a == as[i]
  <2>1. as \in Seq(Account) /\ cfg.settings.batch_size \in Int
        /\ Problems(cfg.settings, as) = {}
    BY LoadedTypes, Zenon DEF LoadedFrom, CommandInv, Loaded
  <2>2. cfg.settings.batch_size > 0 /\ Sound(as, i)
    BY <2>1, NoProblems
  <2>3. a.billing \in BOOLEAN /\ DOMAIN as \subseteq Int
    <3>1. a \in Account /\ DOMAIN as = 1..Len(as)
      BY <2>1, LenProperties, ElementOfSeq
    <3> QED
      BY <3>1 DEF Account
  <2> HIDE DEF as
  <2>4. ScheduledAs(AccountSchedules(as), BillingSchedules(as), a)
    BY <2>2, <2>3, OwnSchedules, Zenon DEF as
  <2>5. Resolvable(a) /\ a.interval > 0 /\ (a.billing => a.billingInterval > 0)
    BY <2>2, Zenon DEF Sound, Resolvable
  <2>6. /\ AccountSchedules(as)[a.name].account = a /\ AccountSchedules(as)[a.name].every > 0
        /\ a.billing => BillingSchedules(as)[a.name].account = a
                        /\ BillingSchedules(as)[a.name].every > 0
    BY <2>4, <2>5, SchedulesRun, Zenon
  <2>7. a.billing <=> a.name \in DOMAIN BillingSchedules(as)
    BY <2>4, Zenon DEF ScheduledAs
  <2> QED
    BY <2>2, <2>5, <2>6, <2>7, Zenon DEF as
<1> QED
  BY <1>1, CommandInvariance, PTL

LEMMA InBoth ==
  ASSUME NEW u, NEW R, NEW T, NEW G, NEW x
  PROVE  x \in {<<u, r, t>> : r \in R, t \in T} \cup {<<u, GlobalRegion, t>> : t \in G} <=>
           \/ \E t \in T : \E r \in R : x = <<u, r, t>>
           \/ \E t \in G : x = <<u, GlobalRegion, t>>
  OBVIOUS

(* The units of the targets are those the flags ask for.                   *)
LEMMA AskedUnits ==
  ASSUME CommandInv, After
  PROVE  UnitsNow = AskedFor
<1> DEFINE c == cfg.accounts[First(Chosen)]
           types == IF flags.resource = "" THEN ToSet(c.resources) ELSE {flags.resource}
           regions == IF flags.region = "" THEN ToSet(c.regions) ELSE {flags.region}
<1>1. ToSet(account.resources) = types /\ ToSet(account.regions) = regions /\ account.id = c.id
  <2>1. c \in Account
    <3>1. First(Chosen) \in DOMAIN listed
      BY TargetsNow
    <3>2. cfg.accounts \in Seq(Account) /\ DOMAIN cfg.accounts = DOMAIN listed
      BY LoadedTypes DEF LoadedFrom, CommandInv, After
    <3> QED
      BY <3>1, <3>2, LenProperties, ElementOfSeq
  <2>2. account = [c EXCEPT !.regions = IF flags.region = "" THEN @ ELSE <<flags.region>>,
                            !.resources = IF flags.resource = "" THEN @ ELSE <<flags.resource>>]
    BY DEF After, Overridden
  <2> HIDE DEF c
  <2>3. /\ account.id = c.id
        /\ account.regions = IF flags.region = "" THEN c.regions ELSE <<flags.region>>
        /\ account.resources = IF flags.resource = "" THEN c.resources ELSE <<flags.resource>>
    BY <2>1, <2>2 DEF Account
  <2>4. ToSet(<<flags.region>>) = {flags.region} /\ ToSet(<<flags.resource>>) = {flags.resource}
    BY OneElement
  <2> QED
    BY <2>3, <2>4
<1>0. AskedFor = {<<c.id, r, t>> : r \in regions, t \in types \cap RegionalTypes}
                   \cup {<<c.id, GlobalRegion, t>> : t \in types \cap GlobalTypes}
  BY DEF AskedFor
<1>2. \A x : x \in AskedFor <=>
               \/ \E t \in types \cap RegionalTypes : \E r \in regions : x = <<c.id, r, t>>
               \/ \E t \in types \cap GlobalTypes : x = <<c.id, GlobalRegion, t>>
  <2> HIDE DEF c, types, regions
  <2> QED
    BY <1>0, InBoth
<1> HIDE DEF c, types, regions
<1>3. \A y : y \in ToSet(targets) <=>
               \/ \E t \in types \cap RegionalTypes : \E r \in regions : y = Target(t, r)
               \/ \E t \in types \cap GlobalTypes : y = Target(t, GlobalRegion)
  BY <1>1, TargetsNow, InTargetSet
<1>4. \A t, r : Unit(account, Target(t, r)) = <<c.id, r, t>>
  BY <1>1 DEF Unit, Target
<1>5. ASSUME NEW x \in UnitsNow PROVE x \in AskedFor
  <2>1. PICK y \in ToSet(targets) : x = Unit(account, y)
    BY DEF UnitsNow
  <2> QED
    BY <1>2, <1>3, <1>4, <2>1
<1>6. ASSUME NEW x \in AskedFor PROVE x \in UnitsNow
  <2>1. \E y \in ToSet(targets) : x = Unit(account, y)
    BY <1>2, <1>3, <1>4
  <2> QED
    BY <2>1 DEF UnitsNow
<1> QED
  BY <1>5, <1>6

(* The command touches what the flags ask for and nothing else, nothing in *)
(* a dry run; exit code 0 means all of it is there, and 1 that all but one *)
(* unit of what is there is complete.                                      *)
THEOREM CommandIsFaithful == Spec => []CommandDoesWhatWasAsked
<1>1. CommandInv => CommandDoesWhatWasAsked
  <2> SUFFICES ASSUME CommandInv PROVE CommandDoesWhatWasAsked
    OBVIOUS
  <2>1. touched # {} => ~flags.dryRun /\ touched \subseteq AskedFor
    BY TouchedUnits, AskedUnits
  <2>2. ASSUME phase = "exit", code = 0, ~flags.dryRun PROVE complete = AskedFor
    <3>1. After /\ done = Len(targets) /\ store = "elasticsearch"
      BY <2>2 DEF CommandInv, Selection, Written
    <3>2. DOMAIN targets = 1..done
      BY <3>1, TargetsNow, LenProperties
    <3>3. complete = UnitsNow
      BY <3>1, <3>2 DEF CommandInv, Written, Writes, DoneUnits, UnitsNow, ToSet
    <3> QED
      BY <3>1, <3>3, AskedUnits
  <2>3. Cardinality(touched \ complete) <= (IF phase = "exit" /\ code = 1 THEN 1 ELSE 0)
    <3>1. CASE touched \ complete = {}
      BY <3>1, FS_EmptySet
    <3>2. CASE touched \ complete # {}
      <4>1. /\ phase = "exit" /\ code = 1
            /\ touched = complete \cup {Unit(account, targets[done + 1])}
        BY <3>2 DEF CommandInv, Written
      <4>2. touched \ complete = {Unit(account, targets[done + 1])}
        BY <3>2, <4>1
      <4> QED
        BY <4>1, <4>2, FS_Singleton
    <3> QED
      BY <3>1, <3>2
  <2> QED
    BY <2>1, <2>2, <2>3 DEF CommandDoesWhatWasAsked
<1> QED
  BY <1>1, CommandInvariance, PTL

(* Where the AWS accounts differ and no list repeats a type or a region,   *)
(* no two targets of all the schedules of a configuration that loads, the  *)
(* billing ones included, write the same documents.                        *)
THEOREM SchedulesAreApart == Spec => []OneWriterPerUnit
<1>1. CommandInv => OneWriterPerUnit
  <2> SUFFICES ASSUME CommandInv, Loaded,
                      IsInjective([i \in DOMAIN cfg.accounts |-> cfg.accounts[i].id]),
                      \A a \in ToSet(cfg.accounts) : IsInjective(a.regions) /\ IsInjective(a.resources)
               PROVE  IsInjective(ScheduledUnits)
    BY DEF OneWriterPerUnit
  <2> DEFINE as == cfg.accounts
             scrape == AccountSchedules(as)
             billing == BillingSchedules(as)
             units(n) == UnitsOf(scrape[n])
                           \o (IF n \in DOMAIN billing THEN UnitsOf(billing[n]) ELSE <<>>)
             us == [i \in DOMAIN as |-> units(as[i].name)]
  <2>1. as \in Seq(Account) /\ cfg.settings.batch_size \in Int
        /\ Problems(cfg.settings, as) = {}
    BY LoadedTypes, Zenon DEF LoadedFrom, CommandInv, Loaded
  <2>2. \A i \in DOMAIN as : Sound(as, i)
    BY <2>1, NoProblems
  <2>3. /\ Len(as) \in Nat /\ DOMAIN as = 1..Len(as)
        /\ \A i \in DOMAIN as : as[i] \in Account /\ as[i] \in ToSet(as)
    BY <2>1, LenProperties, ElementOfSeq DEF ToSet
  <2>4. \A i, j \in DOMAIN as : as[i].id = as[j].id => i = j
    BY DEF IsInjective
  <2>5. ScheduledUnits = FlattenSeq(us)
    BY DEF ScheduledUnits
  <2> HIDE DEF as
  <2>6. ASSUME NEW i \in DOMAIN as PROVE us[i] = UnitsOfAccount(as[i])
    <3>1. as[i].billing \in BOOLEAN
      BY <2>3 DEF Account
    <3>2. ScheduledAs(scrape, billing, as[i])
      <4>1. Sound(as, i)
        BY <2>2, Zenon
      <4>2. DOMAIN as \subseteq Int
        BY <2>1, DomainOf, Zenon
      <4> QED
        BY <3>1, <4>1, <4>2, OwnSchedules, Zenon
    <3>3. units(as[i].name) = UnitsOfAccount(as[i])
      <4> HIDE DEF scrape, billing
      <4> QED
        BY <3>2, ScheduledAsUnits, Zenon
    <3> QED
      BY <3>3
  <2>7. ASSUME NEW i \in DOMAIN as
        PROVE  /\ us[i] \in Seq(Units) /\ IsInjective(us[i])
               /\ \A x \in ToSet(us[i]) : x[1] = as[i].id
    <3>1. /\ as[i] \in Account /\ Resolvable(as[i]) /\ BillingType \notin ToSet(as[i].resources)
          /\ IsInjective(as[i].regions) /\ IsInjective(as[i].resources)
      BY <2>2, <2>3 DEF Sound, Resolvable, as
    <3> QED
      BY <2>6, <3>1, OwnUnits
  <2>8. DOMAIN us = DOMAIN as
    OBVIOUS
  <2> HIDE DEF us
  <2>9. us \in Seq(Seq(Units))
    <3>1. us = [i \in DOMAIN as |-> UnitsOfAccount(as[i])]
      BY <2>6 DEF us
    <3>2. us \in [1..Len(as) -> Seq(Units)]
      BY <2>3, <2>6, <2>7, <3>1
    <3> QED
      BY <2>3, <3>2, FunctionIsSeq
  <2>10. \A i, j \in DOMAIN us : i # j => ToSet(us[i]) \cap ToSet(us[j]) = {}
    <3> SUFFICES ASSUME NEW i \in DOMAIN as, NEW j \in DOMAIN as, i # j,
                        NEW x \in ToSet(us[i]), x \in ToSet(us[j])
                 PROVE  FALSE
      BY <2>8
    <3>1. x[1] = as[i].id /\ x[1] = as[j].id
      BY <2>7
    <3> QED
      BY <2>4, <3>1
  <2> QED
    BY <2>5, <2>7, <2>8, <2>9, <2>10, FlattenInjective
<1> QED
  BY <1>1, CommandInvariance, PTL
=============================================================================
