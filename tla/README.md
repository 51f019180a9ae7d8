# NetHop in TLA+

NetHop is a transparent proxy for rooted Android devices. A supervisor process
keeps one worker process alive. The worker fetches subscriptions, builds
generations of configuration for the sing-box core, runs the core, installs the
network rules that send traffic to it, and serves a control socket. This
directory holds TLA+ models of the parts of the daemon (`nethopd`) and of its
libraries whose correctness depends on order, failure and time, and of the
conversions between what a user writes and what the core and the kernel are
told. TLC checks them on small instances; TLAPS proves theorems about fourteen
of the twenty for every value of their constants.

Paths below are relative to the root of the repository (`src/` in
`PROJECT.json`); `nethopd/x.rs` stands for `crates/nethopd/src/x.rs`.

## The parts of the system

| Part | What is hard | Module |
|---|---|---|
| Supervisor (`nethopd/supervisor.rs`, `application.rs`) | a worker dies or cannot be observed at any time; window, backoff and recovery interact | `Supervisor` |
| Pid file (`application.rs`, `module/uninstall.sh`) | starters that judge a stale file at once, kills between two system calls | `PidFile` |
| Event hub (`events.rs`, `uds.rs`) | slow clients, filters, wakeups, clients that go away | `EventHub` |
| WebUI payloads (`webui_payload.rs`, `private-payload.ts`) | a request whose caller gave up is carried out all the same | `WebuiPayload` |
| Network executor (`nethop-android/executor.rs`) | a command fails with or without effect, also while undoing | `NetworkExecutor` |
| Network plan, probe, health check (`nethop-android/plan.rs`, `capability.rs`, `health.rs`) | what becomes of a packet; marks, masks and tables of other programs | `NetworkPlan` |
| Core process (`process.rs`, `runner.rs`, `tun_runner.rs`) | SIGHUP is asynchronous; every call may fail; a child must be reaped | `CoreProcess` |
| Rule sets (`ruleset.rs`, `ruleset_update.rs`, `ruleset_provider.rs`) | two files swapped as one; failing renames, kills, a cache that is lost in part | `RuleSets` |
| Worker runtime (`worker_runtime.rs`, `worker_activation.rs`, `worker_application.rs`) | core death, drift, failed cleanup, relaunch after a kill | `WorkerRuntime` |
| Update schedules (`scheduler.rs`, `auto_update.rs`) | the wall clock steps back, a save fails, a command is dropped | `Scheduler` |
| Configuration file (`config_reconciler.rs`, `config_watch.rs`, `worker_config.rs`, `source_config.rs`) | the user saves during a commit or a roll back; identities of sources | `ConfigRuntime` |
| Subscription transaction (`subscription_transaction.rs`, `worker_application.rs`, `nethop-core/generation.rs`) | crash between any two effects on the disk, failing writes | `SubscriptionTransaction` |
| Source updates (`source_update.rs`, `manual_source.rs`, `node_override.rs`) | outages, mirrors, new URLs, files that go with a generation | `SourceUpdate`, `CandidatePool` |
| Download (`nethop-subscription/fetch.rs`) | validators, mirrors, redirects, two ways to reach a server | `HttpFetch` |
| Node benchmark and selection (`node_benchmark.rs`, `selection.rs`, `clash_api.rs`) | measurements of another generation, held-up worker, late answers | `NodeSelection` |
| Control socket (`worker_service.rs`, `worker_application.rs`) | requests that wait run what others queued; stop against start | `Control` |
| Configuration model and composer (`config_model.rs`, `apps.rs`, `capture.rs`, `wifi_scene.rs`, `composer.rs`) | what a document means, and what the core is told | `ConfigModel`, `ConfigApply` |
| Subscription formats (`nethop-subscription`: adapters, `semantic.rs`, `pipeline.rs`) | one node in four formats, told apart or merged by its fingerprint | `NodeFormat` |

Not modelled: the SQLite store and the statistics, the frame codec and the
command line client, the scripts of the Android module (except the uninstaller's
use of the pid file), the user interfaces, and the lifecycle type, which has no
state beyond that of `WorkerRuntime` and `CoreProcess`. `PROJECT.json` lists
every part with its files, and the hazards of the code at the lines where they
bite.

How the parts meet. The supervisor relaunches the worker (`Relaunch` in
`WorkerRuntime`, `Recover` in `SubscriptionTransaction`, `Start` in `RuleSets`).
A request on the control socket queues commands; an update is a command, and
`Control` has only its outcomes, `SubscriptionTransaction` its effects on the
disk in order, `SourceUpdate` the building of the generation and `HttpFetch` the
download of one source. The runtime starts the core through `CoreProcess` and
applies and rolls back network plans through the executor; `WorkerRuntime` sums
up what an apply or a rollback can leave in the kernel, `NetworkExecutor` shows
it command by command, and `NetworkPlan` says what the commands are and what
they do to packets. Everything the worker does is published through the hub.

## Modules

**Supervisor.** `state`, `active`, `failures`, `nextAction` are the fields of
`WorkerSupervisor`; `pc` is the place in `run_supervisor_loop`; `now` is the
monotonic clock in seconds; `alive` holds the worker processes that run,
whether or not the supervisor holds them. The branches of `tick` are the actions
`TickExited`, `TickRunning`, `TickScheduled`, `TickStarted`, `TickStartFailed`
and `TickObserveFailed`; the last returns through the loop's error path, which
stops the worker. Workers exit, and SIGTERM arrives, at any moment. `attempts`
is history: the last five times a start was tried. Failure times are a set:
between two failures at least one delay of a second passes.
`forward_signal` has no caller and is left out.

**PidFile.** One action per system call of `PidFile::acquire`,
`remove_stale_pid_file` and `Drop`, and of the part of `uninstall.sh` that goes
by the file; a process may be killed at each. `met` (whom a start has met alive),
`cut` (an acquire was cut short) and `contested` (two starts have judged the same
stale file) are history.

**EventHub.** One action per critical section of the hub's mutex. The main
thread publishes and serves `subscribe`; each client has a thread. `snapshot`
counts the changes of the runtime state. Of each thread, `seen` (the state its
client was last shown) and `due` (events it asked for and was not sent) are
history.

**WebuiPayload.** The caller goes from `create` over the chunks to `commit`, with
one request at a time in the socket's `queue`; `TimesOut` makes it stop listening
and go on, as the bridge does, while its request stays. The worker serves the
queue in order; `Consume` is the request that uses the payload. A store entry has
a `name` (under way or committed), its `data` and whether it is `old`.

**NetworkExecutor.** A plan is the steps `1..N`; `kernel[i]` says whether step
`i` is in force. A command that fails may have taken effect (a timeout). For a
step of `Restores` the rollback sets something back rather than deleting it.
`completed` is `completed_steps` of the receipt the caller holds, or `NoReceipt`;
`caller` is who called (`enable_capture`, `disable_capture`, `rebuild_network`,
`stop`), since they differ in what they do with the receipt after an error.

**NetworkPlan.** Devices are what the probe can report, policies what
`CapturePolicy` can say. `Build` makes the plan of `plan.rs`, rule by rule;
applied, the rules stand in `netfilter`, `routes` and `rules`, and the properties
walk them like the kernel does. `netd` may rewrite a built-in chain.

**CoreProcess.** The worker's `handle` (`RunningCore`), the file
`core-active.json`, the child and what it has `loaded`; a SIGHUP under way is
`hup`. Check, start, probe, `stage_reload`, `commit_reload`, `rollback_reload`,
observation and stop are actions; every call may fail. A write of the file is
`atomic_write`, which may report an error after its rename. `stray` is history:
the generations of reloads in which a write or a signal failed; what such a
reload leaves in the file is what the next one keeps to go back to.

**RuleSets.** `pair`, `old` and `log` are the files in use, the ones set aside
and the journal; one action is one operation on a file. The undo of
`publish_candidate` carries out all its operations whatever fails, that of
`rollback` keeps the journal; `Due` gives their order. `checked` is history: the
pairs that sing-box accepted together.

**WorkerRuntime.** One action per call of the worker's loop. `rules` is what is
in the kernel: nothing, all, an incomplete remainder, or chains whose jump was
lost, which the rollback cannot remove because "Bad rule" reads as absence. Over
such leftovers a TPROXY plan is refused (`CanPlan`: the probe finds the chains);
a TUN plan asks neither for the port nor for the chains, and what its apply does
then depends on what it meets (`Met`, `LeftoversMet`).
`restartIn` and `failures` are kept as time left and ages, so that the state
space stays finite. `Hazards` chooses whether network commands fail, the worker
is killed, and jumps are lost; `restarts` and `reported` are history.

**Scheduler.** One engine for the sources and one per resource, each with the
records it loaded; deadlines are hours of the wall clock `now`, which may be set
back. A job runs from `due` over the command queue to the save of its result,
step by step. **ConfigRuntime.** The file, the module's entry and the registry
against the worker's copies of them; a watcher that may be lost; a commit or
rollback step by step, in which a write may fail before or after it has replaced
the file (`FailedWrite`, `FailedPersist`; `stray` is history: the bindings of
such writes). A document is its list of sources and its name.

**SubscriptionTransaction.** One action is one effect on the disk; `pc` says
what the worker does next and `Crash` may come at any of them. A configuration
document is a model value that stands for its bytes and digests. A file write
is atomic (write, sync, rename); with `IoFaults` it may report an error before
or after the rename. `Begin` to `Complete` is the request handler, `Undo*` and
`Abort*` its error paths, `TakeCommand` to `RecordResult` the update it runs
from the command queue, `Recover*` and `Load` the start of a worker. `tx.published`
and `lost` are history.

**SourceUpdate, CandidatePool.** Refresh, import and rebuild of a generation from
bodies that are fetched, cached or imported; a node is a number, a body a set of
them. `CandidatePool` has `convert_sources`, `dedupe_sources` and the round robin
of `build_candidate_pools` as operators. **HttpFetch.** One fetch: URLs and
mirrors, proxy first and then directly, resolution, redirects, validators of the
cache; servers change what they serve at any time, and may answer 304 to a
request that was not conditional, which `fetch_with_agent` takes. `seen` is
history.

**NodeSelection.** The stored intent, the selector in the core, the benchmark
thread and the two decisions (early and final) of the worker; time is the phase
of the operation. `blind` is history: the selector was moved by others after the
early decision's snapshot, or there is none. **Control.** The socket, the request in service, the command
queue and what brings commands into it: requests, the schedule, the scene, the
restart deadline. `asked` and `answer` are history.

**ConfigModel, ConfigApply.** A document is a record of the fields of
`nethop.toml`; `ConfigModel` has its validation, its change plan, the capture
policy, the packages and scenes, and the rules the composer writes, as
operators, next to reference definitions of what the document means.
`ConfigApply` is the worker that puts documents into effect. **NodeFormat.** The
four adapters, the semantic checks, the fingerprint and the outbounds, on fields
instead of text. What a provider writes is not derived from the adapters: a table
per format (`UriKeys`, `VmessKeys`, `ClashKeys`, `SingboxKeys`, `SurfboardKeys`)
says under which key the format has a field, so that an adapter that leaves a
key out makes two nodes one, or one node two. `Told` is what the program is told
of a node, up to the losses named below.

`MC*` modules give the constants. Since the parts of a run do not share state, a
run's module holds several side by side: the initial state chooses one (`part`)
and the others stay parked.

## Runs

| Run | Parts | Properties | Shows |
|---|---|---|---|
| `supervisor` | `Supervisor`, `PidFile`, `EventHub`, `WebuiPayload` | `SingleWorker`, `CrashLoopIsThrottled`, `OneSupervisor`, `UploadIsWhole`, `SupervisionGoesOn`, `NothingIsLost`, `ClientsAreServed` | never two workers; a crash loop slows down; no path parks the supervisor; two supervisors only after two starts met over a stale file; a client misses nothing without being told and catches up; a payload arrives whole, once or not at all, and no file stays |
| `device` | `NetworkExecutor`, `NetworkPlan`, `CoreProcess`, `RuleSets` | `ReceiptCovers`, `FailedApplyAddsNothing`, `TrafficFollowsPolicy`, `AppliedThenGone`, `CoreIsAccountedFor`, `RuleSetsAreCurrent`, `DeviceSettles` | a receipt covers what is in force; packets go where the policy says; a plan passes its own verification and goes without trace; the core runs what is recorded; the two rule sets stay a pair; a stop ends |
| `worker` | `WorkerRuntime`, `Scheduler`, `ConfigRuntime` | `StateIsHonest`, `DirectWhenDown`, `ServiceComesBack`, `NotTooOften`, `IdentitiesAreKept`, `ServicesKeepUp` | the published state is the actual one; no runtime means no rules; a service comes back; updates are spaced out and not forgotten; identities follow URLs; the worker catches up with the file |
| `updates` | `SubscriptionTransaction` with failing writes, `SourceUpdate` | `PublishedIsSealed`, `PointerAdvances`, `RecoveryIsIdempotent`, `SourcesAreKept`, `StoresMatch`, `PoolIsFair` | what the pointer names exists and is not rewritten; a partial recovery changes nothing for the next; an outage takes no nodes away; the files match the generation; the pool is fair |
| `subscription` | `SubscriptionTransaction` with crashes alone, `NodeSelection`, `HttpFetch` | `TransactionIsWhole`, `OutcomeWasServed`, `SwitchesAreEarned`, `WorkEnds` | a published transaction is completed; a fetch returns what was served; one round moves the selector once and for a reason; recovery, round and fetch end |
| `control` | `Control`, `NodeFormat`, `ConfigModel` with `ConfigApply` | `StopIsObeyed`, `CompletedIsTrue`, `NodesKeepTheirMeaning`, `ConfigurationIsHonoured` | a disabled service stays down; a request answered as completed was carried out; a node means the same in every format; a document is composed as it is meant |
| `transaction_unpublished`, `runtime_restarts`, `runtime_relaunch`, `runtime_residue`, `benchmark`, `config_in_effect` | one part each | one each | violated, see below |

Runs with a type invariant check it too (`TypeOK`, `PartsTypeOK`). Each property
of a passing run has a mutant in `PROJECT.json`: a plausible bug in one
definition that makes TLC find the property violated.

**Bounds.** The supervisor's window is 10 s and its recovery delay 3 s (300 s and
60 s in the code are scaled down; the delays 1, 2, 4 are the code's): five starts
fit in one window, which `CrashLoopIsThrottled` needs, and the horizon leaves the
longest delay room. Three processes meet over the pid file: one that dies and two
that follow. Two clients for one slot and a ring of two events: a client is
overtaken, resyncs and is overtaken again. Two uploads of two chunks: a late
request of one meets the other's. The executor has five steps of both kinds and
four faults, so that apply, undo and rollback can each fail more than once. Plans:
marks of three bits, two candidates, foreign rules that conflict by mask only,
every policy over four users, every device of the probe's answers. The core has
three generations and three troubles, so that a reload follows one that failed,
the rule sets two versions and two mishaps
(which can lose a file). The runtime has four faults (three fill
its restart budget) and three sets of hazards: none, lost jumps alone, and
failing commands, kills and lost jumps together. Schedules have two sources, one resource and one upset;
configurations five documents (`moved` gives a URL another name and place, `taken`
gives the name of one source to a new URL before it) and three events, so that a
save can fall into a roll back. Transactions have two documents and two or three
generations, so that one can follow a published one, be interrupted, and be
followed by another; two crashes let the recovery itself be interrupted. Sources: two, one with a mirror
and a changed URL, and a pool smaller than their nodes. A fetch has a URL, a
mirror and a redirection target, one way over a proxy. Selection has two
generations, one operation and two events, and once more a pool of three nodes
with one event, since only then can the node that is best differ from the one
that is used and the one that was used at the snapshot. Control has three requests and
troubles together, of every kind. Documents and nodes are the cases of
`MCConfigCases` and `MCNodeCases`, one for each branch of the conversions; a node
is told in every format that has its fields, and once with every field that
its format does not know.

`CHECK_DEADLOCK FALSE` is set throughout: the supervisor returns, a blocked
recovery waits for a person, and the bounds on faults, time and events end runs.

**Fairness.** The supervisor's loop and the worker's loop are single threads
that wake for their deadlines (`next_wakeup_in`), so their steps are weakly
fair; a loop that keeps sleeping lets time pass, so the supervisor's clock is
strongly fair and the schedule's and the benchmark's time weakly. Recoveries, a
fetch, a commit and a rule set update are sequential functions, and the
supervisor relaunches the worker, so their steps and `Relaunch` are weakly fair.
The threads of the hub are scheduled, and the main thread does not stop between
replacing the snapshot and publishing it. The core handles a signal and opens or
closes its TUN interface eventually; that it exits is not assumed. A payload's
file ages and the worker's periodic cleanup comes. Nothing is assumed of
failures, commands, clients or signals. In a run of several parts each fairness
condition carries the part it is about.

## Proofs

Every theorem holds for all values of the constants; the bounds that keep TLC's
state spaces finite are arbitrary numbers in them. The constants' assumptions
(`PolicyAssumption`, `TransactionAssumption`, `ExecutorAssumption`,
`RuntimeAssumption` and the hypotheses of the theorems) give their types and
little more; what more there is stands below. Where a module of proofs is about
several parts, all but the one it extends are instances with a prefix, and their
assumptions are hypotheses of the theorems; TLC evaluates them for the values of
the runs.

| Module | Theorem | States |
|---|---|---|
| `SupervisorProofs` | `TypeCorrect`, `OneWorkerAtATime`, `CrashLoopsSlowDown` | `[]TypeOK`, `[]SingleWorker`, `[]CrashLoopIsThrottled` |
| | `PidTypeCorrect`, `PidFileExcludes` | of `PidFile`: `[]TypeOK`; `[]` of its three properties |
| `EventHubProofs` | `HubLosesNothing` | `[](NoSilentLoss /\ WaitingIsUpToDate /\ SlotsAreCounted)` |
| | `HubNeverGoesBack` | the action property `NeverBackInTime` |
| `WorkerPartsProofs` | `UploadsArriveWhole` | of `WebuiPayload`: `[]UploadIsWhole` |
| | `TypeCorrect`, `ReceiptIsComplete`, `FailedApplyIsUndone` | of `NetworkExecutor`: `[]TypeOK`, `[]ReceiptCovers`, `[]FailedApplyAddsNothing` |
| | `CoreTypeCorrect`, `CoreStaysAccountedFor` | of `CoreProcess`: `[]TypeOK`, `[]CoreIsAccountedFor` |
| `RuleSetProofs` | `RuleSetsStayCurrent` | `RuleSetsAreCurrent`: two invariants and an action property |
| `WorkerRuntimeProofs` | `TypeCorrect`, `HonestState`, `DownMeansDirect` | `[]TypeOK`, `[]StateIsHonest`, `[]DirectWhenDown` |
| | `SchedulesAreKept` | of `Scheduler`: the action properties `SpacedOut`, `LaterSeen` |
| `ControlProofs` | `TypeCorrect`, `DisabledStaysDown`, `AnswersAreTrue` | `[]TypeOK`, `[]StopIsObeyed`, `[]CompletedIsTrue` |
| | `RoundsSwitchOnce`, `SwitchesAreMeant` | of `NodeSelection`: `[]OneSwitchPerRound`; the action property `MeantSwitch` |
| `SubscriptionTransactionProofs` | `TypeCorrect`, `PublishedGenerationsExist`, `TransactionsAreWhole` | `[]TypeOK`, `[]PublishedIsSealed`, `[]TransactionIsWhole` |
| | `PointerNeverGoesBack`, `RecoveryCanBeRepeated` | the action properties `PointerAdvances`, `RecoveryIsIdempotent` |
| | `RegistryIsFollowed` | of `ConfigRuntime`: `[]RegistryFollows` |
| | `FetchedWasServed` | of `HttpFetch`: `[]OutcomeWasServed` |
| `SourceUpdateProofs` | `UpdatesKeepSources`, `UpdatesMatchStores` | `[]SourcesAreKept`, `[]StoresMatch` |

The inductive invariants, and why they are needed:

- **Supervisor.** Types and `SingleWorker` are inductive together; the type of
  the deadline needs that the failure list after `record_failure` is finite, not
  empty and of past times (`RetainedType`). For `CrashLoopIsThrottled`,
  `Throttle` says that every start but the last is *answered*: a failure lies
  between it and the next one, or the start is further back than the window.
  Four answered starts inside the window make four failures in the list, so
  `record_failure` must have chosen the recovery delay.
- **PidFile.** While no two starts judge the same file (`Uncontested`), whoever
  owns or runs has created the file that is there, and a file about to be removed
  belongs to no live process. `Encounters` ties `met` to the file: it appears and
  vanishes under a start only by the hand of another that is alive.
- **EventHub.** `NoSilentLoss` speaks of clients that are not behind; `HubInv`
  follows every open client (`Fits`): what is due to it is in the ring or older
  than the ring's first event (`DueIsKept`), nothing ahead of it in the ring is
  older than what it was shown (`AheadIsLater`, for `NeverBackInTime`), and the
  latest state was shown, is due, or was overwritten (`LatestIsShown`), except
  between the replacement of the snapshot and its event. `Ordered` keeps sequence
  numbers and states of the ring in step. `HasRing` is the one assumption: the
  capacity is not zero, which `EventHub::new` checks, and the clients are finitely
  many.
- **NetworkExecutor.** `ReceiptCovers` says nothing of a receipt that is being
  replaced, nor of who called. `ReceiptInv` adds that only `rebuild_network` keeps
  a spent receipt, and that a spent one without an earlier failure has nothing in
  force beyond it; `ApplyInv` adds that an apply at step `i`, or an undo without
  failures down to `i`, has added at most the steps below or up to `i`.
- **CoreProcess.** `CoreInv` adds what the place in the worker's code says of the
  handle (`Held`, `Pending`) and where file, record and core stand while a reload
  is under way: a core with a SIGHUP to come will run what is in the file
  (`WillRun`), and the file is the recorded or the pending generation
  (`Followed`), or in each place one of a reload that failed (`stray`).
- **RuleSets.** `FilesInv` follows the pair through the renames and the undo,
  operation by operation: at every place, with at most two mishaps, the files set
  aside together with those in use make a pair that was checked, once a journal
  is whole, and none is lost by one mishap alone. `UnpublishInv`, `RollbackInv`
  and `FailingInv` are its parts for the three ways back; `AcceptedInv` carries
  it over to the core, `LoadedInv` says no file is moved under a running core,
  `CacheInv` that a cache entry's body is its validator's. The invariants of
  `RuleSetsAreCurrent` state how far that goes: to lose a file takes two mishaps,
  to mix the pairs three, and the code allows both.
- **WorkerRuntime.** `NothingHeld` (a dead worker holds nothing), `CandidateLeft`
  (a runtime was built on a candidate that is left) and `CalmKernel` (without
  the worst hazards, rules without a receipt are no rules).
- **Scheduler.** A source is taken when the record in memory says so, while
  `SpacedOut` speaks of the last result that was saved. `KeyOK` ties the two
  records of a key: once a result was saved the record in the database lies a
  shortest delay (and its jitter) after it, and while the worker runs the record
  in memory has the database's deadline and was observed no earlier. A resource's
  record may run ahead of the database when a save fails; a source's may not,
  since the worker exits then. `PolicyAssumption` is what `SchedulePolicy::new`
  checks. `PowerIs` and `MarkedIs` bound the backoff.
- **ConfigRuntime.** `Bound`: from the end of a start the active registry is that
  of the configuration in use, and so was the one a request keeps to go back to;
  `Saved` says it of the copy a failed commit restores, and that a commit that
  does not promote its binding binds what is bound already. Each has the exception
  of `RegistryFollows`: a registry that a failed write left (`Astray`). `WorkPlace`
  says which steps belong to which kind of change.
- **Control.** `Obedient` is the heart: while the service is disabled and nothing
  was asked past the configuration, either a stop is the next command and no
  start follows it, or nothing runs, is scheduled or is queued. `Served` says
  what is known of the request that runs the queue.
- **NodeSelection.** `RoundInv`: a round that is not marked
  (`fast_mutation_committed`) has no acknowledged change, and a marked one is past
  its early decision, so neither decision adds a second change. An early switch
  acknowledged too late is reported as deferred and marks the round all the same
  (`EarlyEnd`).
- **SubscriptionTransaction.** Removals threaten `PublishedIsSealed`: the update
  discards what it prepared, and recovery removes the journal's generation.
  `PointerInv` adds that what is prepared is the successor of the pointer, and
  that what runs is not later than the pointer; `ControlInv` adds that nothing
  runs during recovery and that the generation recovery is about to remove is not
  the pointer's, because the decision and the removal see the same pointer.
  `Whole` adds for `TransactionIsWhole` that a journal names the documents of the
  transaction that wrote it and that, once its generation is published, the new
  document is on the disk or staged (`NewOnDisk`, `JournalNames`,
  `PublicationInv`, `RestInv`). `OtherSteps` shows once which actions leave all
  of these alone.
- **SourceUpdate.** `UpdInv` ties the caches, the update under way, the candidate
  and the stores together. `CacheInv`: a cache holds what was served for its key
  and holds something if anything was, unless it was spoilt; `GatherInv` carries
  that over to the bodies gathered so far, and `SealedInv` to the candidate, which
  is `SourcesAreKept`. For `StoresMatch`, `ManualInv` and `OverInv` say which file
  belongs to which generation between the steps of a commit, and `HealthInv` that
  a source shown healthy is in the published generation or a refresh of all is
  under way; `ReportInv` is what the report must satisfy for that while the
  sources are gathered. `SourcesAssumption` says that no configuration uses an
  unknown URL and that no server's body is mistaken for a broken file.
- **HttpFetch.** `CopyInv`: the cached body is one its URL has served, with that
  body's validator; `FetchInv`: what the attempt under way carries was served
  while the fetch ran. `Validators` is the one assumption about the world: a
  server has another validator for another body. Without it a "not modified"
  says nothing. An answer 304 that nobody asked for says nothing either: then the
  theorem says that the outcome is the cached body and that the cache keeps the
  validator of that body.
- **WebuiPayload.** There may be requests in the queue that nobody waits for.
  `OneOfAKind` says that no two of an upload are alike, `Awaited` which one its
  caller waits for, and `Fitting` that every append in the queue is the chunk
  that comes next or comes too late to be taken (`PayloadInv`). A text is not
  empty, which the caller checks.

**Only model-checked.** Liveness under fairness (`SupervisionGoesOn`,
`ClientsAreServed`, `DeviceSettles`, `ServiceComesBack`, `ServicesKeepUp`,
`WorkEnds`) is out of the prover's reach. `PoolIsFair`, `NodesKeepTheirMeaning`,
`ConfigurationIsHonoured`, `TrafficFollowsPolicy` and `AppliedThenGone` are about
what folds and recursive functions over sequences compute, which needs induction
over data; they are checked over all inputs of their bounds. So is the second
half of `IdentitiesAreKept`, that a URL keeps its identity: the identities of a
document are a recursive function along its sources. So is, of
`SwitchesAreEarned`, that the target is better than the node it replaces:
`ChooseAutoTarget` walks the pool with a recursive function. That a round
switches once, under auto and for the generation it measured, is proved. The
types of `EventHub`, `Scheduler`, `ConfigRuntime`,
`SourceUpdate`, `HttpFetch` and `WebuiPayload` are proved as far as their
invariants need them (`HubShape`, `ScheduleShape`, `WorkShape`, `Shape`,
`FetchShape`, `PayloadShape`); their `TypeOK` is model-checked.

## Where the code and its documents differ

With a run that shows it:

- `transaction_unpublished`: a crash after the configuration was written and
  before the pointer moved keeps the new configuration;
  docs/12-subscription-selection-and-node-optimization-tdd-task-list.md:602
  says the old state is kept.
- `runtime_restarts`: a successful start clears the restart budget, so a core
  that starts and dies is restarted without limit;
  docs/00-nethop-system-design.md:404 says at most three times in five minutes.
- `runtime_relaunch`: a relaunched worker does not clean up first, as
  docs/00-nethop-system-design.md:410 says; it meets the old rules, and the
  capability probe refuses to plan over them.
- `runtime_residue`: when the second apply of a repair cannot be undone, the
  stop that follows rolls back a spent receipt, succeeds, and reports no failed
  cleanup; docs/00-nethop-system-design.md:370 says every failed step leaves a
  diagnostic.
- `benchmark`: a held-up worker or a late controller makes the elapsed time of a
  report exceed what the report's validation accepts, and the `expect` on it
  aborts the worker; docs/13-rust-node-benchmark-engine-design.md:739 says the
  operation ends as `internal_error`.
- `config_in_effect`: a change of routing that is saved and not yet composed when
  the worker restarts is never composed: the new worker reads it as its active
  configuration, compares only the digest of the sources with the generation
  (`current_generation_matches`) and starts the old one under the new digest;
  docs/06-configuration-toml-refactor-design.md:915 says the old configuration is
  never reported as the file being in effect.

Met while modelling, without a run of their own; the properties that come near
them state their exceptions:

- *Network plan.* The verification demands a listener on `inbound_port` in every
  mode (`health.rs:45`), which a TUN core does not open, so that the periodic
  verification of a running TUN fails (`NetworkPlan!RunningVerifies` states the
  opposite of docs/00:398). A plan for TUN without IPv6 always fails; a TPROXY
  plan for UDP only never verifies; a jump that netd removes from the mangle
  `OUTPUT` chain is not noticed (docs/00:484).
- *Rule sets.* A journal that is torn (created, not yet written) blocks every
  later start (docs/00:602). `publish_candidate` removes the journal also when
  its restoration failed.
- *Pid file.* Two starts that judge the same stale file may both run; an empty
  file refuses every later start.
- *Core.* A reload may be committed before the core has read the file. A write of
  `core-active.json` that fails after its rename (`worker_config.rs:428`) leaves
  the new file although the reload is reported as failed
  (`CoreRunsWhatIsRecorded` states the exception).
- *Fetch.* A 304 to a request without validators is taken as the cached body
  (`ureq_adapter.rs:507`), whichever URL that came from.
- *Selection.* The early decision compares with a node it has read once
  (`worker_application.rs:2774`), so that after a choice of the user or an
  activation in between it may move the selector to a node that is slower than
  the one in use; docs/14:1648 says that auto keeps strictly to the tolerance.
- *Updates.* An update that cannot prepare a candidate returns `Ok`, so its
  transaction completes with the new configuration
  (docs/10-subscription-selection-and-node-optimization-refactor-design.md:372).
  A refresh of all drops a source whose cache cannot be written
  (`source_update.rs:226`). A crash between the write of the overrides and the
  pointer leaves overrides of no generation.
- *Runtime.* Rules whose jump other programs have removed stay when the runtime
  is withdrawn: the batch that rolls the chain back is refused as a "bad rule",
  which `indicates_absent` (`executor.rs:498`) takes for absence; docs/00:406 says
  that the device is direct before every attempt. The worker keeps no capture intent, so a restart enables a capture
  that was disabled by command
  (docs/27-core-warm-capture-hot-switch-refactor-design.md:848). A Wi-Fi scene
  that turns the proxy off during backoff does not cancel the restart, and a
  scheduled update starts the core under such a scene (docs/06:459).
- *Schedules.* The stop of a scene drops a queued update while it stays marked as
  pending (`worker_application.rs:1695`; `dropped` in `Scheduler`). A clock behind
  the last saved observation makes a relaunched worker exit (docs/00:899).
- *Configuration file.* A save while the watch is lost is not noticed
  (docs/06:690; `missed` in `ConfigRuntime`), and a rollback overwrites a save of
  the user (docs/06:853). Sources are matched with the registry one after another,
  by URL or else by name (`source_config.rs:102`), so a new URL under the name of
  a source that comes later takes that source's identity; docs/06:402 says that a
  source with an unchanged URL keeps it. `SameUrlSameId` states the exception
  (`NameTaken`). A write of the registry that fails after its rename leaves a
  binding that is not in use (`Astray`). A whitelist may hold UID 1
  (`config_model.rs:1394`), which `capture_with_application_uids` takes for the
  mark of unresolved packages and drops (`config_model.rs:613`); a whitelist of
  nothing else then captures everything (`SelectsAsConfigured` states the
  exception).
- *Control.* `CoreStop` leaves a queued `Start` in place; a wait for `ServiceStart`
  answers `completed` also after a failed start; a request whose client gave up is
  carried out.
- *Formats.* The Clash adapter ignores `alpn`, `http-opts` and the `cipher` of
  VMess, which docs/02:749-752 say are mapped, and refuses `reality-opts` and
  `fingerprint`, which they say are mapped too; `vmess://` links lose an `aid` in
  quotes. A semicolon in a plugin option is not escaped when the options are
  joined (`pipeline.rs:1264`), so that the rest reads as another option; if that
  makes an option come twice the exported outbound cannot be imported. A Reality
  short id without its key is ignored. `Ignored`, `Told` and `Clear` state these.

## Left out

Parsers' tokenizers, size limits and diagnostics; the text of commands and of
answers; read-only requests; the rotating log files; the SQLite store, whose
transactions are the database's; system calls behind processes and netlink.
Components do not yet refine an abstract specification of the network
controller: `WorkerRuntime` assumes of an apply and a rollback what
`NetworkExecutor` shows, by hand.
