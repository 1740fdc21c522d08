------------------------------ MODULE Factory -------------------------------
(***************************************************************************)
(* awsclient.Factory: the AWS configurations a process has built so far,   *)
(* one mutex around a map.  An AWS configuration is the role it assumes,   *)
(* the external id it does so with, and a region.                          *)
(***************************************************************************)
CONSTANTS Account,          \* accounts that are asked for: records with a
                            \* role and an external id, and other fields
          Region,           \* regions that are asked for
          GlobalRegion,     \* the region of a type that has none
          BaseRegion        \* the region of the process, or the default one

VARIABLES cached,           \* the map, from keys to configurations
          asked, given      \* history: the last request and its answer

vars == <<cached, asked, given>>

Nothing == <<>>

Init == cached = Nothing /\ asked = Nothing /\ given = Nothing

Effective(region) == IF region \in {"", GlobalRegion} THEN BaseRegion ELSE region

(* Mutant of Key: one configuration per role.                              *)
RoleOnly(a, region) == <<a.role>>

Key(a, region) == <<a.role, Effective(region)>>

Built(a, region) == [role |-> a.role, external |-> a.external, region |-> Effective(region)]

(* One critical section: a hit is returned, a miss is built and kept.      *)
Config(a, region) ==
  LET key == Key(a, region)
  IN /\ cached' = [k \in DOMAIN cached \cup {key} |->
                    IF k \in DOMAIN cached THEN cached[k] ELSE Built(a, region)]
     /\ given' = cached'[key]
     /\ asked' = <<a, region>>

Next == \E a \in Account, r \in Region : Config(a, r)

Spec == Init /\ [][Next]_vars

(* "per-account, per-region AWS configs that assume the account's exporter *)
(* role": what is returned assumes the role of the account that was asked  *)
(* for, with its external id, in the region that was asked for.            *)
OwnConfig == asked # Nothing => given = Built(asked[1], asked[2])
=============================================================================
