--------------------------- MODULE ScrapeCommand ----------------------------
(***************************************************************************)
(* `scrape --account ...', which runs one account's targets in a row       *)
(* without Temporal: from the file, the environment and the flags to what  *)
(* the store holds and the exit code.  A target is scraped as              *)
(* ScrapeContract says, under a configuration of the process's Factory.    *)
(***************************************************************************)
EXTENDS Config

CONSTANTS File, Env,        \* files, without their accounts, and environments
          Listed,           \* lists of accounts a file may have
          Flags,            \* what the command may be given
          BaseRegion        \* of the process

ASSUME ScrapeCommandAssumption ==
  /\ \A f \in File : IsPart(f)
  /\ \A e \in Env : IsPart(e)
  /\ Listed \subseteq Seq(Account)
  /\ Flags \subseteq [account : Name, resource : Name, region : Name, dryRun : BOOLEAN]

VARIABLES
  file, env, listed, flags, \* the input of this run of the command
  phase, code,              \* "start" | "loaded" | "selected" | "scraping" | "exit"
  cfg,                      \* what Load made of it
  account, targets, done,   \* local variables; the targets scraped so far
  store,                    \* "none" | "counting" | "elasticsearch"
  touched, complete,        \* units with some, and with all, of their documents
  cached, asked, given      \* of the factory

input == <<file, env, listed, flags>>
locals == <<account, targets, done, store>>
stored == <<touched, complete>>
factory == <<cached, asked, given>>
vars == <<input, phase, code, cfg, locals, stored, factory>>

(* The requests come from the targets, below.                              *)
F == INSTANCE Factory WITH Account <- {}, Region <- {}

Nothing == <<>>

Init ==
  /\ file \in File /\ env \in Env /\ listed \in Listed /\ flags \in Flags
  /\ phase = "start" /\ code = 0 /\ cfg = Nothing
  /\ account = Nothing /\ targets = <<>> /\ done = 0 /\ store = "none"
  /\ touched = {} /\ complete = {}
  /\ F!Init

Exits(c) == phase' = "exit" /\ code' = c

LoadConfig ==
  /\ phase = "start"
  /\ cfg' = Load(file, env, listed)
  /\ IF cfg'.ok THEN phase' = "loaded" /\ UNCHANGED code ELSE Exits(1)
  /\ UNCHANGED <<input, locals, stored, factory>>

(* Mutant of Overridden: --region is not looked at.                        *)
RegionIgnored(a) ==
  [a EXCEPT !.resources = IF flags.resource = "" THEN @ ELSE <<flags.resource>>]

Overridden(a) ==
  [a EXCEPT !.regions = IF flags.region = "" THEN @ ELSE <<flags.region>>,
            !.resources = IF flags.resource = "" THEN @ ELSE <<flags.resource>>]

Chosen == Named(cfg.accounts, flags.account)

(* The flags are resolved to targets before anything is opened.            *)
Select ==
  /\ phase = "loaded" /\ Chosen # {}
  /\ LET a == Overridden(cfg.accounts[First(Chosen)])
     IN /\ Resolvable(a)
        /\ account' = a /\ targets' = TargetsFor(a)
  /\ phase' = "selected"
  /\ UNCHANGED <<input, code, cfg, done, store, stored, factory>>

SelectFails ==
  /\ phase = "loaded"
  /\ Chosen # {} => ~Resolvable(Overridden(cfg.accounts[First(Chosen)]))
  /\ Exits(1)
  /\ UNCHANGED <<input, cfg, locals, stored, factory>>

Open ==
  /\ phase = "selected" /\ phase' = "scraping"
  /\ store' = IF flags.dryRun THEN "counting" ELSE "elasticsearch"
  /\ UNCHANGED <<input, code, cfg, account, targets, done, stored, factory>>

(* Logging or tracing cannot be set up, newStore or NewFactory fails.      *)
OpenFails ==
  /\ phase \in {"loaded", "selected"}
  /\ Exits(1)
  /\ UNCHANGED <<input, cfg, locals, stored, factory>>

(* The documents of a target have the account, region and type in their id. *)
Unit(a, t) == <<a.id, t.region, t.type>>
Writes(U) == IF store = "elasticsearch" THEN U ELSE {}

ScrapeTarget ==
  /\ phase = "scraping" /\ done < Len(targets)
  /\ LET t == targets[done + 1]
     IN /\ F!Config(account, t.region)
        /\ complete' = complete \cup Writes({Unit(account, t)})
        /\ touched' = touched \cup Writes({Unit(account, t)})
  /\ done' = done + 1
  /\ UNCHANGED <<input, phase, code, cfg, account, targets, store>>

(* Mutant of ScrapeFails: the error is logged and the loop goes on.        *)
GoesOn ==
  /\ phase = "scraping" /\ done < Len(targets)
  /\ F!Config(account, targets[done + 1].region)
  /\ \E U \in SUBSET {Unit(account, targets[done + 1])} : touched' = touched \cup Writes(U)
  /\ done' = done + 1
  /\ UNCHANGED <<input, phase, code, cfg, account, targets, store, complete>>

(* The first target that fails ends the command, perhaps half written.     *)
ScrapeFails ==
  /\ phase = "scraping" /\ done < Len(targets)
  /\ F!Config(account, targets[done + 1].region)
  /\ \E U \in SUBSET {Unit(account, targets[done + 1])} : touched' = touched \cup Writes(U)
  /\ Exits(1)
  /\ UNCHANGED <<input, cfg, locals, complete>>

Finish ==
  /\ phase = "scraping" /\ done = Len(targets)
  /\ Exits(0)
  /\ UNCHANGED <<input, cfg, locals, stored, factory>>

Next ==
  \/ LoadConfig \/ Select \/ SelectFails \/ Open \/ OpenFails
  \/ ScrapeTarget \/ ScrapeFails \/ Finish

Spec == Init /\ [][Next]_vars
-----------------------------------------------------------------------------
Regions == {GlobalRegion, ""} \cup {f.region : f \in Flags}
             \cup (IF phase = "start" THEN {} ELSE UNION {ToSet(a.regions) : a \in ToSet(cfg.accounts)})

TypeOK ==
  /\ phase \in {"start", "loaded", "selected", "scraping", "exit"} /\ code \in {0, 1}
  /\ targets \in Seq([type : Known, region : Regions])
  /\ done \in 0..Len(targets)
  /\ store \in {"none", "counting", "elasticsearch"}
  /\ complete \subseteq touched
  /\ touched \subseteq {listed[i].id : i \in DOMAIN listed} \X Regions \X Known

Loaded == phase # "start" /\ cfg.ok

(* What Load accepts can be scheduled: every account resolves to targets   *)
(* of known types, runs at a positive interval, and has a schedule of its  *)
(* own that no other account of the file has overwritten, and one for its  *)
(* billing if and only if it asked for it.                                 *)
ValidIsRunnable ==
  Loaded => \A i \in DOMAIN cfg.accounts :
    LET a == cfg.accounts[i]
        scrape  == AccountSchedules(cfg.accounts)
        billing == BillingSchedules(cfg.accounts)
    IN /\ Resolvable(a) /\ cfg.settings.batch_size > 0
       /\ scrape[a.name].account = a /\ scrape[a.name].every > 0
       /\ a.billing <=> a.name \in DOMAIN billing
       /\ a.billing => billing[a.name].account = a /\ billing[a.name].every > 0

UnitsOf(s) == [k \in DOMAIN s.targets |-> Unit(s.account, s.targets[k])]

(* What all the schedules of the configuration write, one after the other. *)
ScheduledUnits ==
  LET scrape  == AccountSchedules(cfg.accounts)
      billing == BillingSchedules(cfg.accounts)
      units(n) == UnitsOf(scrape[n]) \o (IF n \in DOMAIN billing THEN UnitsOf(billing[n]) ELSE <<>>)
  IN FlattenSeq([i \in DOMAIN cfg.accounts |-> units(cfg.accounts[i].name)])

(* No two activities write the same documents: where the AWS accounts of   *)
(* the file differ and no list names a type or a region twice, the targets *)
(* of all its schedules, those of billing included, are about different    *)
(* units.                                                                  *)
OneWriterPerUnit ==
  /\ Loaded
  /\ IsInjective([i \in DOMAIN cfg.accounts |-> cfg.accounts[i].id])
  /\ \A a \in ToSet(cfg.accounts) : IsInjective(a.regions) /\ IsInjective(a.resources)
  => IsInjective(ScheduledUnits)

(* The units the flags ask for, as their help texts have it.               *)
AskedFor ==
  LET a == cfg.accounts[First(Chosen)]
      types == IF flags.resource = "" THEN ToSet(a.resources) ELSE {flags.resource}
      regions == IF flags.region = "" THEN ToSet(a.regions) ELSE {flags.region}
  IN {<<a.id, r, t>> : r \in regions, t \in types \cap RegionalTypes}
     \cup {<<a.id, GlobalRegion, t>> : t \in types \cap GlobalTypes}

(* Of the store the command touches what was asked for and nothing else,   *)
(* nothing at all under --dry-run; when it exits with 0 all of it is       *)
(* there, and when it exits with 1 what is there is complete but for the   *)
(* one target that failed.                                                 *)
CommandDoesWhatWasAsked ==
  /\ touched # {} => ~flags.dryRun /\ touched \subseteq AskedFor
  /\ phase = "exit" /\ code = 0 /\ ~flags.dryRun => complete = AskedFor
  /\ Cardinality(touched \ complete) <= (IF phase = "exit" /\ code = 1 THEN 1 ELSE 0)

(* Every target is scraped with the role, the external id and the region   *)
(* of its own, whichever targets came before it.                           *)
OwnConfig == F!OwnConfig
=============================================================================
