# A TLA+ model of aws-metrics-exporter

aws-metrics-exporter scrapes AWS accounts on a schedule and writes one JSON
document per AWS object into daily Elasticsearch indices. Temporal drives it: a
schedule per account starts a workflow, the workflow runs an activity per region
and resource type, and an activity walks an AWS listing and writes it in batches.
This directory models the parts of that program in which order, failure and
concurrency matter, checks them with TLC on small instances and proves the main
results with TLAPS for every instance. All paths below are relative to `src/`.

## 1. Inventory

| Component | State | Operations | Hard behaviour | What makes it correct |
|---|---|---|---|---|
| Scraper (`internal/scraper/scraper.go`) | the batch, `Result{Count, Batches}`, the last progress | `Scrape`: `emit`, `flush`, the final flush | errors in the middle of a listing, with half a batch; bulk answers of every kind; the boundary of `batch_size` | a nil error means every object of the listing is stored; progress counts written objects only; requests are full |
| Bulk writer (`internal/storage/elasticsearch/bulk.go`) | none | `Write` | 200 answers that reject items, lost or undecodable answers after a partial write | nil only if everything was indexed |
| Scrape activity (`internal/temporal/activities/scrape_resource.go`) | none of its own; Temporal's per activity | `ScrapeResource`, `classify` | retries; attempts that were timed out and still write; bulk requests executed after their attempt failed; a lost worker | only permission errors are final; what is reported is stored |
| Account workflow (`internal/temporal/workflows/account_scrape.go`) | futures, results, count, failures | `AccountScrape`, `TargetsFor` | activities end in any order; replay on another worker; every retry policy of the options | the result is that of the activities; it ends; it fails only if everything failed |
| Collectors (`internal/collector/...`) | the paginator's token, the list of ECS clusters | `Collect` of ten resource types | the account changes between list, next page and describe | what existed throughout is emitted, once; failures have a cause |
| Reconciler (`internal/temporal/schedules/reconcile.go`) | the namespace's schedules; per call the list it made | `Apply`, `list`, `upsert` | replicas apply at the same time, with different configurations during a rollout; visibility lags; update is read and write; it can fail or die anywhere | the namespace comes to match the configuration; foreign schedules are kept, and so is a pause that does not fall between the read and the write |
| Schedule commands (`cmd/schedule.go`) | the same schedules | apply, list, pause, resume, trigger | they interleave with replicas | see the reconciler |
| Worker process (`cmd/worker.go`) | health server, worker, clients | start, poll, Apply, serve, shut down | the worker polls before Apply has succeeded; signals at any time; shutdown order; tasks accepted by a process that ends | in rotation only while it works; tasks are not lost; a signal ends it |
| Health (`internal/health`) | last result, consecutive failures | `Run`, `Probe`, `Ready`, `/readyz` | one deadline for two checks; threshold; a tick that comes during a probe | what is down is noticed in time, what is well is ready, one failure is tolerated |
| Configuration (`internal/config`) | none | `Load`, `resolve`, `Validate`, `Account` | defaults, the environment, inheritance, duplicates, empty lists | a configuration that validates can be scheduled, and no two schedules share documents |
| Scrape command (`cmd/scrape.go`) | its flags | one account's targets in a row | flags replace what was validated; a target fails in the middle | it touches what was asked for; exit 0 means all of it |
| AWS configurations (`internal/awsclient/factory.go`) | cache of assumed roles | `Config` | the key of the cache; accounts that change | the credentials are those of the account asked for |
| Billing (`internal/collector/billing`) | none | `Collect` of a month | midnight and the end of a month during a call | each figure once, under the month it is for |
| Elasticsearch and Temporal clients | connections | construction, ping | fail at start, hang in a probe | see the worker |
| Observability, small commands, `deploy/`, `terraform/` | none | logging, printing | none that a model would add to | |

How they interact. `cmd/worker.go` starts a Temporal worker that polls one task
queue and then calls `Reconciler.Apply`, which makes the namespace's schedules
those of the configuration; `cmd/schedule.go` acts on the same schedules from
other processes. A schedule (overlap policy SKIP) starts `AccountScrape`; it
schedules one `ScrapeResource` activity per target, all before it awaits the
first. An activity calls `Scraper.Scrape`, which passes a callback `emit` to a
collector; `emit` flushes full batches through `Store.Write` into Elasticsearch
and reports progress as the activity's heartbeat. Shared state is therefore: the
namespace's schedules (replicas and commands), the daily index (attempts of the
same target), and the AWS account (everybody).

`PROJECT.json` lists the hazards this gives rise to, each at its line with the
properties that watch it.

## 2. Modules

    ScrapeContract     what a call of Scrape promises
      ^ implemented by
    Scraper            Scraper.Scrape over any collector, and Client.Write
    Collector          Collect over a changing account and calendar
    RunContract        what a run of AccountScrape promises
      ^ implemented by
    AccountScrape      one workflow run, its activities and their attempts, each
                       attempt seen through ScrapeContract
    ScheduleContract   what Apply promises to the users of the namespace
      ^ implemented by
    Reconciler         replicas of Apply, the namespace, the schedule commands
    Prober             the goroutine that probes, its ticker and deadline
      ^ part of
    Worker             a worker process, its health server and its tasks
    Config             Load, resolve, Validate, TargetsFor as operators
    Factory            the cache of AWS configurations
      ^ parts of
    ScrapeCommand      `scrape --account ...' from file to exit code
    ScraperProofs, CollectorProofs, AccountScrapeProofs, ReconcilerProofs,
    WorkerProofs, ScrapeCommandProofs        theorems, each about the module it
                                             is named after and its contract
    SumTheorems        folds that sum, for the counts of AccountScrape
    FlattenTheorems    FlattenSeq, for the targets and units of Config
    MC*                instances for TLC

`PROJECT.json` maps the definitions to the lines they stand for.

**Scraper.** The variables are the local variables of `Scrape` (`batch`,
`result`), the argument of the latest `progress` call, what has been handed to
`emit`, and the documents in the store. The collector is arbitrary: it emits
objects in any order, some of them repeatedly (a listing is not a snapshot), and
may fail between any two. `Bulk` is every answer Elasticsearch can give with
every subset of the batch it may have indexed; `Write(b)` is true for the answers
for which `Client.Write` returns nil. An object stands for its document id. A
resource type the scraper does not know is the collector that fails before its
first object. The store starts with any leftovers of earlier runs of the day.

**ScrapeContract** is that component as its caller sees it: documents only ever
appear, and a call that returns without an error leaves one for every object.
`KeepsContract` is the refinement: `stored` is the index, `status` is
`running`, `ok` or `failed` by `pc` and `err`.

**Collector.** One `Collect`. The ten collectors have two shapes in common: ECS
services and tasks list the clusters first and then go through one cluster at a
time (`nested`), and a listed object is emitted as it is (`none`: RDS), described
together with its page (`batch`: ECS clusters, services, tasks), or asked about
alone (`each`: ElastiCache tags and the six calls per IAM user; `kept`: ECS task
definitions, which AWS still describes after they are deregistered). Objects are
numbered in the order AWS lists them and a token is how far the listing has
come; AWS ends a page where it likes and may return an empty one that is not the
last. Objects come and go between any two calls. What is gone is left out of a
batch answer, or still described for a while, and makes a call about it alone
fail. `stable` is a history variable: the objects that existed all along.
`listClusterARNs`, whose pages nothing is done with in between, is one step.
The billing collector (`cost`) is the same loop over the services that have cost
something, followed by `Total`. `Asked` is what it computes from the clock before
its first request: the first of the month, today, and the month for the ids.
`Midnight` may come between any two steps. Cost Explorer answers month by month
(`Results`), so that a period that touched two months would bring every service
twice (`Copies`). `today` only moves, and matters, for billing.

**AccountScrape.** `wf` holds the workflow function's local variables, `act`
Temporal's record of each activity, `bodies` the attempts executing on workers.
The two differ on purpose: a timeout writes an attempt off while its goroutine
goes on, so an attempt in `bodies` need not be the one Temporal waits for, and an
answer that is late is ignored (`Current`). Attempts write their target's objects
in any portions, fail after any of them, complete only when nothing is left
(which is what ScrapeContract says), or vanish with their worker. `inflight` holds
the bulk requests nobody waits for: one whose answer was lost (`bulk.go:76-79`),
one the client has sent again, one of a process that died. Elasticsearch executes
them, whole, in part or not at all, at any later time (`Lands`), also after the
next attempt has written. `timedOut`, `denied` and `expired` are history
variables: which attempts were written off while they ran, which returned a
permission error, and which targets their hour has ended. `AfterFailure`
is `classify`; `TimesOut`, `Retry` and `Expires` are the heartbeat and
start-to-close timeouts, the unlimited retry policy and the schedule-to-close
timeout of the activity options. `Replay` is another worker re-executing the
workflow function from history. An attempt's listing is taken in one step, when
it starts; Collector is where a listing takes time.

**RunContract** is that run for whoever started it: a verdict per target, given
once, and an answer, given once, that sums them up; a run fails only if all its
targets did. Under `KeepsContract` a target's verdict is the activity's final
state, and the answer is what the workflow has counted.

**Reconciler.** `sched` is the namespace, `visible` what its visibility store
answers a list with, which lags. Each replica has a configuration and the local
variables of `Apply`. Its steps are the requests: list; create, or, when the
schedule exists, describe and update; delete for what was listed and is not
asked for. `DoUpdate` sends back what was described with new settings and no
conflict token, hence `paused` is remembered between `Describe` and `Update`. Any
error, among them an absent schedule at describe, update or delete, makes Apply
return and the process exit; it may start again with another configuration. A
request whose answer is lost but which was carried out is that request followed
by `Fault`. `clean` is a history variable: the replicas whose list was up to date
and whose work no replica of another configuration has touched. The order of the
loop over desired ids is that of a Go map, hence any. `pause` and `resume` know
the account schedules only, and so does `schedule list`.

**ScheduleContract** has neither lists nor loops: while a replica is applying a
configuration it makes the schedules that configuration asks for, renews those
that are there with its settings, and removes exporter's schedules it does not
ask for. What it makes runs (`Make`). What it renews it leaves paused or running as
it saw it when it looked (`Look`, `Renew`; `seen` is what each replica has looked
at), so a pause or a resume by the commands between its look and its write is
undone: both are the code's behaviour, `reconcile.go:157` being a read and a
write. Nothing else pauses a schedule or lets it run. `KeepsContract` maps
`applying` to the configuration of a replica that is between its list and its
return, and `seen` to what it has described and not yet written.

**Prober.** `Run` and `Probe`, with `ready`, `failures` and `lastErr`. Time is
counted in units of which `Interval` make a probe interval; `next` and `tick` are
the ticker, whose channel holds one tick, and `spent` what is used of the
deadline the two checks share. A check of a service that is up and has been
since the call began answers at once; any other hangs for as long as the model
likes, until the deadline. Its answer, a refusal and a time-out are `Answers`
and `Errs`. The first check may use the whole deadline, and the second then
fails although its service is well. `since` is a history variable. When the
context is done `Run` returns and what the last probe made of `ready` stays
(`Return`), as `probe.go:48-50` has it: until the server is shut down `/readyz`
goes on telling it.

**Worker.** `phase` is the main goroutine, `opened` the stack of its deferred
calls, `server` the goroutine of `ListenAndServe`, `task` Temporal's view of the
activity tasks of its queue, and the prober's variables are those of Prober,
whose actions are steps of the worker. The process opens its resources in order,
each of which may fail; polls; applies (one step, Reconciler is where it takes
many); starts the prober and the server; waits for its context, which a signal
ends at any time; shuts the server down, for which it waits for a client at most
five seconds; and closes in reverse. It may crash anywhere. A task that runs when
its process ends is `lost` until Temporal's heartbeat timeout queues it again. A
task can also be closed undone: by a permission error (`Denied`) or by the
schedule-to-close timeout (`Expires`), whatever it is doing.

**Config** has no variables. `Merged` is what viper makes of file, environment
and defaults, with the keys the environment can reach (`Visible`); `Resolved` is
`resolve`; `Problems` is `Validate`, as the set of its objections;
`TargetsFor`, `AccountSchedules` and `BillingSchedules` are what an account list
comes to as targets and as the two kinds of schedules, keyed by name, the last
account of a name winning as it does in Go's map. `Settings` and `Account` are
the Go types of what is decoded, a duration being a number.

**Factory** is the map under its mutex: one step per call of `Config`.

**ScrapeCommand** goes from file, environment and flags through `Load`, the
overrides and `TargetsFor` to the targets one after the other, each of which
fails, leaving part of its documents, or completes. A unit is what the documents
of one target have in common: account id, region and type. It extends Config
and has the variables of Factory.

## 3. What is checked

| Run | Question | Instance | Properties |
|---|---|---|---|
| `scraper` | What may be concluded from a returned Scrape and from a heartbeat? | 3 objects, batches of 2, up to 5 emits | `SuccessIsComplete`, `ProgressIsWritten`, `BatchesAreFull`, `KeepsContract` |
| `collector` | What has a returned Collect emitted, under which month, when does it fail, does it end? | 2 clusters of 3 objects or one listing of 3, pages of at most 2, 2 months of 2 days, 3 changes or midnights, 1 failed call, every kind of collector | `StableIsEmitted`, `EmittedOnce`, `FailsOnlyForCause`, `MonthOfFigures`, `CollectEnds` |
| `workflow` | Is the workflow's result that of its activities, is it a run as its contract has it, and does it end? | 2 targets of 1 object, 2 attempts, 1 replay, 1 change of the account | `ResultIsFaithful`, `WorkflowFinishes`, `KeepsContract` |
| `attempts` | Whose error decides about a target, and what may overlapping attempts do to each other's documents? | 1 target of 2 objects, 3 attempts, 2 requests without an answer, 1 change of the account | `DenialDecides`, `ReportedMeansStored`, `StaleWriteHasCause` |
| `reconcile` | What do concurrent Applies of different configurations leave, and what do they never touch? | 2 replicas, 2 configurations over 2 accounts, a foreign schedule, leftovers of an older configuration, 1 fault | `DoneMeansMatch`, `ApplyInv`, `ForeignUntouched`, `KeepsConfigured`, `PauseIsKept`, `KeepsContract` |
| `converge` | Do replicas of one configuration get there? | 2 replicas, any leftovers for 2 accounts, 1 fault | `Converges` |
| `worker` | When is a worker in rotation, how soon does it notice a change, does it stop, what becomes of its tasks? | 1 task, an interval of 2 units, 2 faults (a failed call, a signal, a crash, a lost port), services that come and go at any time | `ReadyMeansWorking`, `DetectsInTime`, `HealthyIsReady`, `BlipTolerated`, `NoTaskIsStranded`, `SignalEnds`, `BecomesReady` |
| `scrape_command` | What does a configuration that loads come to, and what does the command do with it? | 71 account lists, sound or with one flaw, 5 files, 5 environments, 14 sets of flags | `ValidIsRunnable`, `OneWriterPerUnit`, `CommandDoesWhatWasAsked`, `OwnConfig` |
| `estate_snapshot` | Is a daily index a snapshot? | 1 target, 1 object, 2 attempts | violates `IndexIsSnapshot` |
| `concurrent_apply` | Can replicas apply concurrently without an error? | 2 replicas of one configuration | violates `NeverFails` |
| `schedule_list` | Does `schedule list` show what Apply made? | 1 account with billing | violates `ListShowsApplied` |
| `external_id` | Is the configuration handed out that of the account? | 3 accounts, of which two are one before and after its external id changed | violates `OwnConfig` |

Each module has one type invariant, `TypeOK`, which carries its bounds. Every
property of a passing run has a mutant, an operator next to the one it changes
(`(* Mutant of ... *)`), under which TLC finds the property violated.

### Bounds, and why they are enough

* Three objects and batches of two give a full batch, a partial last batch, an
  empty last batch and repeated objects; nothing in `Scrape` depends on more than
  the batch and its boundary. The proofs lift all these bounds.
* Three numbers per listing and pages of at most two give empty pages, pages cut
  by a deletion, objects created on both sides of the token; three changes
  suffice to empty and delete a cluster or to delete and re-create an object.
* `MaxAttempts` is the one bound that stands for something unlimited: the retry
  policy has no maximum. Three attempts are enough for a timed-out attempt to
  write after one that failed and during one that succeeds. With one target the
  interleavings are those of attempts, with two those of futures, so the two
  questions have an instance each.
* `MaxInFlight` is 2 in `attempts`: requests of two attempts under way while a
  third writes. It is 0 in `workflow`, whose answer depends on activities and not
  on the index, and 1 in `estate_snapshot`.
* Two replicas are the smallest number that interferes; properties about a
  replica mention one other at a time. The proofs hold for any number. The two
  configurations share no account, one has billing and one has not, and the
  leftovers hold an account schedule and a billing schedule, so every schedule is
  an orphan for some replica and wanted by another.
* `MaxFaults` bounds failed requests and crashes; each run starts from states
  that a partly executed Apply leaves, so one more fault on the way reaches what
  several in a row would.
* An interval of two units lets a check hang for none, part or all of the
  deadline, and a service change before, during and after each probe; `Horizon`
  is beyond three intervals, the longest time a property mentions. Both limits
  are sharp: with either reduced by a unit TLC finds a counterexample. Two
  faults are enough for a process that fails or dies to be followed by one that
  is stopped. One task suffices since tasks do not interact.
* The months of two days have a midnight within a month and one between two,
  and three midnights fit into a Collect.
* The lists of accounts have each objection of `Validate` alone and beside a
  second account, the same id, role or name twice, repeated types, and settings
  that are the account's own, inherited or missing; files and environments set,
  override and miss each kind of key.

Deadlock checking is off: a scrape, a workflow run and a Collect end, and a
namespace at rest has nothing left to do. Replicas are symmetric in `reconcile`,
which checks no liveness property.

### Fairness

* `AccountScrape`: weak fairness of the workflow function's steps (some worker
  polls the task queue) and of `Expires` (a timer of the Temporal server). None of
  attempts, AWS or Elasticsearch: the workflow ends although they may all hang.
* `Reconciler`, in `converge` only: weak fairness of every replica's steps (the
  process runs, and its supervisor starts it again when it exits) and of
  `CatchUp` (visibility is eventually consistent). Pauses, faults and restarts
  are not fair.
* `Worker`: weak fairness of the main goroutine (the process is scheduled and
  its supervisor starts it again), of `Listen`, of the prober's steps and of
  time, and per task of the poller, of the activity (which ends, its calls having
  deadlines of their own) and of Temporal's heartbeat timer. Faults, signals,
  changes of the services and clients that disconnect are not fair. Nor is
  `Expires`: the timer exists, but with it `NoTaskIsStranded` would hold of a
  worker that never retries. In the
  timed properties healthy calls and the scheduling of goroutines take no time;
  what they take in the program adds to the limits.
* `Collector`: weak fairness of the collector's own steps (its goroutine runs,
  AWS answers or fails).

### Where the code and its documentation disagree

* `estate_snapshot`: `README.md:28-29` calls each daily index a snapshot of the
  estate. Documents are only ever indexed; one written by an attempt that then
  failed, or by an earlier run of the day, stays when its object is deleted.
* `concurrent_apply`: the comment on `Apply` (`reconcile.go:53-54`) says that
  several replicas can run it concurrently. Two that list the same orphan both
  delete it, the second is answered "not found", its Apply fails, and the worker
  exits. `converge` shows that the restart repairs it.
* `schedule_list`: the command says that it lists the schedules owned by the
  exporter (`cmd/schedule.go:38`), of which `reconcile.go:20-21` names two
  prefixes; it keeps one of them.
* `external_id`: `awsclient/factory.go:22` says that configurations are built per
  account. The cache is keyed by role and region, so after the external id of an
  account is changed and `schedule apply` has put it into the schedule, a running
  worker goes on assuming the role with the old one until it is restarted.

Three more were met while modelling and have no run:

* `README.md:55`: "Any config key can be overridden with `AWSME_`". A key that
  neither the file nor the defaults have (`storage.elasticsearch.addresses`,
  `global.regions`) is not seen by `Unmarshal`; only the three credentials are
  bound by name (`config.go:118-128`, `Visible` in Config).
* `README.md:47`: "Credentials are never read from the file". They are ordinary
  keys, and viper takes them from the file when it has them.
* The comment on `TargetsFor` (`account_scrape.go:42-43`) says that global types
  are scraped once and regional ones once per region. A type or a region that is
  listed twice makes the same target twice, and `Validate` accepts both: two
  activities write the same documents at the same time, and both are counted.
  `OneWriterPerUnit` therefore assumes lists without repetition, and that no two
  accounts of the file have the same id, which `Validate` accepts too.

## 4. What is proved

All constants are arbitrary, under the assumptions the modules name:

* `ScraperAssumption`: finitely many objects, and a positive batch size, as
  `config.Validate` demands;
* `CollectorAssumption`: finitely many clusters, positive sizes;
  `CalendarAssumption`: a month is a run of days;
* `AccountScrapeAssumption`: finitely many objects, and at least one attempt;
* `ReconcilerAssumption`: configurations and initial namespaces have the shape of
  theirs; nothing is assumed finite;
* `WorkerAssumption`: a positive probe interval;
* `ConfigAssumption`: billing is a global type and no type is both global and
  regional; `ScrapeCommandAssumption`: files, environments, accounts and flags
  have the types Go decodes them to, and no content beyond that is assumed.

* **ScraperProofs**: `TypeCorrect`, `SuccessStores` (`SuccessIsComplete`),
  `ProgressHonest` (`ProgressIsWritten`), `RequestsAreFull` (`BatchesAreFull`)
  and `ScrapeKeepsContract`, the refinement. The inductive invariant is
  `ScrapeInv`: the properties together with `Filling`, which relates the size of
  the batch to the place in `emit` (below `batch_size` while collecting, equal to
  it in a flush from `emit`) and says that until the final flush
  `batches * batch_size` is what progress reported. Without it neither the number
  of requests nor the completeness at return follows from one step to the next.
* **CollectorProofs**: `NothingStableIsMissed` (`StableIsEmitted`), `NothingTwice`
  (`EmittedOnce`), `MonthIsThatOfFigures` (`MonthOfFigures`) and `TypeCorrect`.
  `BillInv` says that the period is that of one day, hence (`OneMonth`) within
  one month, which is why every service comes once. `NoneLost` says that a stable object is
  emitted, on the page in hand, or ahead of the token or in a queued cluster;
  `NoneAgain` that nothing emitted is ahead or still on the page. The first is
  what the collector must keep, the second is why a count is a number of objects.
* **ReconcilerProofs**: `TypeCorrect`, `ApplyMakesMatch` (`DoneMeansMatch`),
  `ForeignSafe`, `ConfiguredStays`, `PauseSafe`, `Invariance` (`ApplyInv`). The inductive invariant is
  `ApplyInv`, which the run `reconcile` checks too: `Loops` says what each loop of
  Apply can still have ahead, and `Kept`, for a clean replica, that the desired
  ids it has passed match its configuration, that an orphan that exists is one it
  has listed, and in the delete loop that everything not still to be deleted
  matches. `DoneMeansMatch` alone is about the end of Apply and not inductive.
  `NamespaceKeepsContract` is the refinement to ScheduleContract: an id that a loop
  of Apply still has ahead is desired (upsert) or listed and not desired (delete),
  which is what `TypeOK` and `Loops` say of it, so each request is a `Make`, a
  `Look`, a `Renew` or a `Remove` of a configuration that is being applied. A write
  is one of what was described (`seen`), which is why a pause it brings is never of
  the replica's own making.

* **AccountScrapeProofs**: `TypeCorrect`, `DenialsDecide` (`DenialDecides`),
  `CountsAreStored` (`ReportedMeansStored`), `StaleWritesExplained`
  (`StaleWriteHasCause`), `AnswerIsFaithful` (`ResultIsFaithful`) and
  `RunKeepsContract`, the refinement, for any number of targets, objects, attempts,
  requests under way, replays and changes of the AWS account. The inductive
  invariant is `RunInv`. What its properties need is `Executing`: an attempt that
  executes is the one Temporal waits for or is in `timedOut`, and no two
  executions are the same attempt. A write that goes back is therefore one of a
  timed-out attempt or of a request in `inflight`. `Awaited` says that only
  attempts there have been are written off, and never the one Temporal is about to
  begin or waits for: the error of that one is heard, that of any other is not,
  which is what `DenialDecides` needs to survive a late answer. `Stored` adds that what
  an attempt has worked off has a document, whoever wrote it last
  (`IndexedStored`): the documents of a reported count are there because nothing
  deletes one, not because the attempt that counted them wrote last.
  `AnswerIsFaithful` needs `Tally` besides, that the number of failures is that of
  the recorded targets that failed. `Tally` holds of none right after a replay,
  and an activity that is closed does not change (`ClosedStays`), which is why the
  function re-executed from history comes to the same answer.
* **SumTheorems**: the fold that sums a function over a finite set is the number
  of pairs of an index and a number below its value (`SumIsCount`), so the order
  in which `FoldFunctionOnSet` chooses the elements does not matter, and a sum
  over one element more is more by its value (`SumOfOneMore`). The community
  modules define the fold by a CHOOSE and prove nothing about it.
* **WorkerProofs**: `NoticesInTime` (`DetectsInTime`), `ReadyInTime`
  (`HealthyIsReady`) and `ToleratesBlips` (`BlipTolerated`) for any interval,
  `ReadyWorkersWork` (`ReadyMeansWorking`) and `TypeCorrect`. `ProberInv` is what
  the prober keeps: `Rhythm` says that a probe begins at a tick, because the
  deadline its two checks share is an interval, so that the time since the last
  probe began is read off the ticker (`Elapsed`). `Noticed` and `Recovered` can
  then bound what a probe still to come, running or over has seen of a service by
  how long that service has been as it is, and `DetectsInTime` and `HealthyIsReady`
  are the bounds at the end of a probe. `Horizon` only stops the
  clocks `since`: the theorem about detection says something for every `Horizon`
  above three intervals. `MainInv` relates `phase` to what is open, in which order,
  and to what runs.
* **CollectorProofs** also has `FailuresHaveCause` (`FailsOnlyForCause`). Its
  invariant is `Blameless`: as long as nobody has changed the account, every
  object of the page in hand and every cluster still to be listed exists.
* **ScrapeCommandProofs**: `CommandIsFaithful` (`CommandDoesWhatWasAsked`),
  `SchedulesAreApart` (`OneWriterPerUnit`), `LoadedIsRunnable`
  (`ValidIsRunnable`), `CommandOwnConfig` (`OwnConfig`) and `CommandTypeOK`, for
  any input. The inductive invariant is `CommandInv`. `Selection` says that from
  the moment the flags are resolved the targets are those of the account they
  name, also after an error; `Written` says that the units touched are those of
  the targets done, and after an error perhaps the next one;
  `OneAccount` says that every cached configuration is of the role and external
  id of the one account a command scrapes. That is why the cache, which `external_id` shows to
  be wrong for a worker, is right for the command. `SchedulesAreApart` follows from
  `NoProblems`, what an empty list of objections says of each account (`Sound`):
  names differ, so no schedule is overwritten, and billing is not among the
  resources, so the billing schedule is the only one to write its unit.
* **FlattenTheorems**: a flattened sequence has the elements of its parts
  (`FlattenKeepsElements`) and none twice if they have none twice and none in
  common (`FlattenInjective`). `FlattenSeq` is a recursive function, and the proof
  is by the least number at which the claim would fail (`LeastNat`, from the
  library's well-founded induction), since the induction theorems of the library
  cannot be instantiated.

Every invariant, action property and refinement that a passing run checks is
proved. Only model-checked are the liveness properties, `WorkflowFinishes`,
`Converges`, `CollectEnds`, `NoTaskIsStranded`, `SignalEnds` and `BecomesReady`:
the prover does not do liveness under fairness or ENABLED. The four violations of
section 3 are TLC's counterexamples.

## 5. What is not modelled

* Bodies, wording and formatting: requests, documents, logs, traces, error texts,
  the `Change` records Apply returns for printing.
* What the Elasticsearch and Temporal clients do with addresses, TLS files and
  credentials: their construction is a step that may fail. Observability, the
  version and config commands, `deploy/` and `terraform/`: no behaviour of their own.
* Requests to Temporal that are still on their way when the process that sent them
  has died: they are carried out or not by the time it exits. Bulk requests that
  outlive their attempt are modelled, in AccountScrape (`inflight`); in Scraper a
  request has done what it does when it is answered or given up on.
* The runs that schedules start, and therefore their overlap policy: that a
  schedule that is deleted and made again may start a run beside one that the old
  schedule started is named as a hazard.
* Schedules deleted or edited by anyone but the exporter.
* The Temporal SDK's poller: it takes tasks until it is stopped. `NewWorker`
  sets no `OnFatalError`; a poller that gave up would leave a process that is
  ready and does nothing.
* A probe interval that is not positive: `Validate` accepts it and
  `time.NewTicker` panics; `WorkerAssumption` rules it out.
* Time, outside Prober and Worker: a timeout may fire at any moment. That a heartbeat is sent after each
  batch only, and may therefore be late, is one of the ways it does.
* `schedule trigger` starts a run and changes no schedule.
* The day of the index: billing's month is taken when the attempt runs, the day
  of the index when the workflow started. An attempt that is retried after
  midnight writes the new day's figures into the old day's index, as the
  attempts of every other collector do.
* Values that cannot be parsed, files that cannot be read: ways for `Load` to
  fail like the objections of `Validate`.
* Within AccountScrape the targets are given, and of two attempts' differing
  content a document keeps which attempt wrote it.

## 6. Plan

Written so far, in this order: Scraper with its contract and proofs,
AccountScrape, Reconciler with its proofs, Collector with its proofs; Worker and
Prober, Config, Factory and ScrapeCommand, billing in Collector and its proofs,
RunContract and ScheduleContract; the proofs about AccountScrape, Worker with
Prober, ScrapeCommand with Config, and `FailsOnlyForCause`. What is left:

1. Collector driving Scraper, and schedules that fire runs while replicas
   reconcile, would be compositions of the modules there are; Scraper allows every
   collector, and `KeepsConfigured` is what the second depends on.
2. Results that have no run yet and follow from invariants there are: that
   documents of a unit are written for one schedule at a time (`OneWriterPerUnit`
   with the overlap policy), and the conditions on accounts under which `Factory`
   hands out nobody else's configuration in a worker.
