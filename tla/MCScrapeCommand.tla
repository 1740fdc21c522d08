-------------------------- MODULE MCScrapeCommand ---------------------------
(* One sound account and one flaw or peculiarity at a time, alone and       *)
(* beside a second account, under settings that come from the file, the     *)
(* environment or the defaults.                                             *)
EXTENDS ScrapeCommand

A == [name |-> "a", id |-> "1", role |-> "ra", external |-> "x", regions |-> <<>>,
      resources |-> <<>>, interval |-> 0, billing |-> TRUE, billingInterval |-> 0]
B == [name |-> "b", id |-> "2", role |-> "rb", external |-> "", regions |-> <<"r1">>,
      resources |-> <<"iam", "rds">>, interval |-> 5, billing |-> FALSE, billingInterval |-> 0]

Variants ==
  {A} \cup
  {[A EXCEPT !.name = ""], [A EXCEPT !.id = ""], [A EXCEPT !.role = ""],
   [A EXCEPT !.interval = -1], [A EXCEPT !.billingInterval = -1],
   [A EXCEPT !.billing = FALSE, !.billingInterval = -1]} \cup
  {[A EXCEPT !.regions = r] : r \in {<<"r1">>, <<"r2", "r1">>}} \cup
  {[A EXCEPT !.resources = t] :
     t \in {<<"rds">>, <<"rds", "rds">>, <<"iam", "billing">>, <<"bogus">>, <<"ecs", "iam", "rds">>}}

Others == {<<>>, <<B>>, <<[B EXCEPT !.name = "a"]>>, <<[B EXCEPT !.id = "1"]>>,
           <<[B EXCEPT !.role = "ra"]>>}

MCListed == {<<>>} \cup {<<v>> \o o : v \in Variants, o \in Others}

Plain == [regions |-> <<"r1", "r2">>, resources |-> <<"iam", "rds">>, addresses |-> <<"es">>]

MCFile == {Plain,
           [addresses |-> <<"es">>],
           [resources |-> <<"bogus">>, addresses |-> <<"es">>],
           [resources |-> <<"rds">>, addresses |-> <<"es">>, scrape_interval |-> -1],
           [regions |-> <<"r1">>, resources |-> <<"ecs">>, batch_size |-> 2]}

MCEnv == {<<>>,
          [batch_size |-> 0, password |-> "secret"],
          [resources |-> <<"rds">>, scrape_interval |-> 2],
          [addresses |-> <<"env">>, backend |-> "elasticsearch"],
          [backend |-> "none"]}

MCFlags ==
  [account : {"a", "b"}, resource : {""}, region : {"", "r3"}, dryRun : BOOLEAN] \cup
  [account : {"a"}, resource : {"billing", "ecs", "bogus"}, region : {"", "r3"}, dryRun : {FALSE}]
=============================================================================
