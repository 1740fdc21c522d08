------------------------------- MODULE Config -------------------------------
(***************************************************************************)
(* What a configuration file and the environment come to: the settings     *)
(* viper merges, the accounts that inherit from them, what Validate        *)
(* objects to, and the targets and schedules an account expands into.      *)
(* Definitions only; ScrapeCommand and MCScrapeCommand put them to use.    *)
(***************************************************************************)
EXTENDS Integers, Sequences, FiniteSets, SequencesExt

CONSTANTS GlobalTypes,      \* registered resource types of scope global
          RegionalTypes,    \* and of scope regional
          BillingType       \* aws_billing, one of the global ones

ASSUME ConfigAssumption ==
  BillingType \in GlobalTypes /\ GlobalTypes \cap RegionalTypes = {}

Known == GlobalTypes \cup RegionalTypes
GlobalRegion == "global"

-----------------------------------------------------------------------------
(* Load.  A file and an environment are functions from some keys to values; *)
(* durations are numbers, of which 0 is "not set".                         *)

Name == STRING
Settings == [scrape_interval |-> Int, regions |-> Seq(Name), resources |-> Seq(Name),
             backend |-> Name, addresses |-> Seq(Name), batch_size |-> Int, password |-> Name]
Account == [name : Name, id : Name, role : Name, external : Name,
            regions : Seq(Name), resources : Seq(Name), interval : Int,
            billing : BOOLEAN, billingInterval : Int]

(* Some settings, each of its type.                                        *)
IsPart(f) == \A k \in DOMAIN f : k \in DOMAIN Settings /\ f[k] \in Settings[k]

Zero == [scrape_interval |-> 0, regions |-> <<>>, resources |-> <<>>, backend |-> "",
         addresses |-> <<>>, batch_size |-> 0, password |-> ""]
Defaults == [scrape_interval |-> 1, backend |-> "elasticsearch", batch_size |-> 500]
DefaultBillingScrapeInterval == 12

(* Keys that AutomaticEnv alone would not show to Unmarshal.               *)
BindEnv == {"password"}

Visible(file) == DOMAIN file \cup DOMAIN Defaults \cup BindEnv

Merged(file, env) ==
  [k \in DOMAIN Zero |->
     CASE k \in Visible(file) \cap DOMAIN env -> env[k]
       [] k \in DOMAIN file \ DOMAIN env -> file[k]
       [] k \in DOMAIN Defaults \ (DOMAIN file \cup DOMAIN env) -> Defaults[k]
       [] OTHER -> Zero[k]]

Inherits(own, unset, inherited) == IF own = unset THEN inherited ELSE own

(* resolve, of one account.                                                *)
Resolved(g, a) ==
  [a EXCEPT !.regions = Inherits(@, <<>>, g.regions),
            !.resources = Inherits(@, <<>>, g.resources),
            !.interval = Inherits(@, 0, g.scrape_interval),
            !.billingInterval = Inherits(@, 0, DefaultBillingScrapeInterval)]

-----------------------------------------------------------------------------
(* Validate, as the set of its objections.                                 *)

GlobalProblems(g, accounts) ==
  {p \in {"accounts", "backend", "addresses", "batch_size"} :
     CASE p = "accounts"   -> accounts = <<>>
       [] p = "backend"    -> g.backend # "elasticsearch"
       [] p = "addresses"  -> g.backend = "elasticsearch" /\ g.addresses = <<>>
       [] p = "batch_size" -> g.batch_size < 1}

(* Mutant of Duplicate: names are not compared.                            *)
NamesIgnored(accounts, i) == FALSE

Duplicate(accounts, i) ==
  /\ accounts[i].name # ""
  /\ \E j \in 1 .. i - 1 : accounts[j].name = accounts[i].name

(* Mutant of ResourceProblems: billing is a known type like any other.     *)
OnlyUnknown(a) ==
  {p \in {"billing", "unknown"} : p = "unknown" /\ ~(ToSet(a.resources) \subseteq Known)}

ResourceProblems(a) ==
  {p \in {"billing", "unknown"} :
     CASE p = "billing" -> BillingType \in ToSet(a.resources)
       [] p = "unknown" -> ~(ToSet(a.resources) \subseteq Known)}

AccountProblems(accounts, i) ==
  LET a == accounts[i]
  IN ResourceProblems(a) \cup
     {p \in {"name", "duplicate", "id", "role", "interval", "resources", "billingInterval"} :
        CASE p = "name"            -> a.name = ""
          [] p = "duplicate"       -> Duplicate(accounts, i)
          [] p = "id"              -> a.id = ""
          [] p = "role"            -> a.role = ""
          [] p = "interval"        -> a.interval <= 0
          [] p = "resources"       -> a.resources = <<>>
          [] p = "billingInterval" -> a.billing /\ a.billingInterval <= 0}

Problems(g, accounts) ==
  GlobalProblems(g, accounts) \cup UNION {AccountProblems(accounts, i) : i \in DOMAIN accounts}

Load(file, env, accounts) ==
  LET g == Merged(file, env)
      resolved == [i \in DOMAIN accounts |-> Resolved(g, accounts[i])]
  IN [ok |-> Problems(g, resolved) = {}, settings |-> g, accounts |-> resolved]

-----------------------------------------------------------------------------
(* Config.Account, TargetsFor, and the schedules Apply desires.            *)

Named(accounts, name) == {i \in DOMAIN accounts : accounts[i].name = name}
First(I) == CHOOSE i \in I : \A j \in I : i <= j
Last_(I) == CHOOSE i \in I : \A j \in I : i >= j

(* Mutant of Resolvable: an unknown type is taken for a regional one.      *)
Anything(a) == TRUE

Resolvable(a) == ToSet(a.resources) \subseteq Known

Target(type, region) == [type |-> type, region |-> region]

TargetsOf(a, type) ==
  IF type \in GlobalTypes
  THEN <<Target(type, GlobalRegion)>>
  ELSE [i \in DOMAIN a.regions |-> Target(type, a.regions[i])]

TargetsFor(a) == FlattenSeq([i \in DOMAIN a.resources |-> TargetsOf(a, a.resources[i])])

(* Both maps are filled in the order of the accounts, the last one wins.   *)
AccountSchedules(accounts) ==
  [n \in {accounts[i].name : i \in DOMAIN accounts} |->
     LET a == accounts[Last_(Named(accounts, n))]
     IN [every |-> a.interval, account |-> a, targets |-> TargetsFor(a)]]

BillingSchedules(accounts) ==
  LET billed == {i \in DOMAIN accounts : accounts[i].billing}
  IN [n \in {accounts[i].name : i \in billed} |->
        LET a == accounts[Last_(Named(accounts, n) \cap billed)]
        IN [every |-> a.billingInterval, account |-> a,
            targets |-> <<Target(BillingType, GlobalRegion)>>]]
=============================================================================
