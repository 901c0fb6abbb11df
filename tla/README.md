# Blackcell: a TLA+ model of the runtime

Blackcell runs plans of coding work. A client submits an intent, a plan (a graph
of nodes, declared or generated by a model) and a run of it. Worker processes claim the
nodes under fenced leases, work on each in a Git checkout of its own with a model
provider, and record what happened. Everything durable is an event in one SQLite ledger
or an artifact named by its digest; the state of a run is the fold of its stream.

A succeeded run is then reviewed by a second worker with another model provider, and
a succeeded review is verified by a third, deterministic one.

All source paths below are relative to `src/src/blackcell/`.

## Inventory

| Component | State | Operations | What makes it correct |
| --- | --- | --- | --- |
| Event ledger (`kernel/store.py`, `database.py`, `events.py`) | rows, stream heads | `append`, `append_many` with expected sequences and idempotency keys | gap-free streams, one row for a key, no lost update |
| Run lifecycle (`orchestration/run_lifecycle.py`) | the folded run: nodes, lease, tokens, retention, cancellation, outcome | one transition for each of 16 event types; a completeness check at the end of every batch | one lease, unique tokens, dependency order, one dispatch, truthful and final outcome, no dead end |
| Runtime service (`bootstrap/runtime_service.py`) | none of its own: reads a stream, decides, appends | admit requests, cancel, claim and prepare, record outcome, reconcile at startup, maintain checkouts | stale decisions are refused; a restart leaves no lease behind; an answer is the truth |
| Execution worker (`bootstrap/execution_worker.py`, `execution_process.py`) | the current cycle, lost in a crash | `serve`, `run_once` | the provider is called once, work is never lost, the quota is kept |
| Generated plans (`orchestration/execution_plan.py`, `execution_runtime.py`, `bootstrap/execution_plan.py`) | the execution events of a run; attempts and checkouts | compile a draft, admit, execute, repair, replan, resume, cancel | no call is repeated, the budget is kept, no writer's work is lost, every run ends |
| Git checkouts and changes (`adapters/execution/`) | directories on disk | create, inspect, commit, remove; apply changes with rollback | what the ledger says is retained is there; changes apply as a whole or not at all |
| Evidence (`orchestration/execution_artifacts.py`, `replay.py`) | linked artifacts of a node | store per stage, outcome manifest, replay | a replay accuses only harmed evidence |
| Review lifecycle and worker (`orchestration/review_lifecycle.py`, `review.py`, `bootstrap/review_*.py`) | the folded review with its lease; the worker's cycle | claim, renew, dispatch, succeed, fail, requeue, reconcile; admit a proposal | one provider call, the renewed lease is the one used, executor # reviewer, every succeeded run decided |
| Verification lifecycle and worker (`orchestration/verification*.py`, `bootstrap/verification_*.py`) | the folded verification; the worker's cycle | claim, complete, fail, requeue; matrix and verdict; replay | one report for one snapshot, by somebody not involved; the verdict says what the evidence says |
| Artifact store, local recovery (`kernel/artifacts.py`, `adapters/recovery/local.py`) | files and rows; bundles; a restored root | put; backup, verify, prune, restore | no row without bytes; a bundle is whole |
| Projections (`kernel/projections.py`) | checkpoint rows | load, rebuild, save | a rebuild from a checkpoint is the full fold |
| Runtime daemon (`bootstrap/daemon.py`, `process.py`, `worker_process_lock.py`) | child processes, role locks | spawn, watch, stop | one worker for a role; nothing is left running |
| Bounded processes (`adapters/bounded_process.py`) | a process group, two draining threads | run | it returns and leaves nothing |
| Model gateway (`gateway/`) | profiles, a prepared call | prepare, invoke | data goes only where the policy lets it |
| HTTP API (`interfaces/http/`), quotas (`runtime/quotas.py`) | requests in progress | register, accept, submit, cancel | repeated and racing requests agree with the record |
| Presentation, command line, TUI, configuration, telemetry, provider adapters, Kernform | none | parsing, formatting, calling external tools | not modelled |

How they interact: the API process and the worker processes share only the
ledger and the file system. There are no messages and no locks between them but
SQLite's write lock and one process lock per worker role. Every
operation of the service is *read the stream, decide on the copy, append with the
sequence that was read*. The hard behaviours follow from that: two actors deciding
on the same read, a process that dies between an effect (a provider call, a Git
command, a file operation) and its record, a lease that expires under a running worker,
a cancellation that arrives at any point.

`PROJECT.json` lists the hazards with their lines.

## Modules

| Module | Models | Checked in |
| --- | --- | --- |
| `Absent`, `Jobs` | the constants the modules share, with their assumptions | |
| `RunGrammar` | the events of a run, `fold_run_lifecycle`'s checks (`...Accepted`) and assignments, its completeness check (`Complete`), batches | |
| `RunLifecycle` | one run to which anybody may append whatever the fold accepts: the abstract specification of a run, refined by `ExecutionWorker` | `MCLifecycles` |
| `ReviewLifecycle`, `VerificationLifecycle` | the folds of a review and of a verification stream, and each as a specification: anybody may append what the fold accepts | `MCLifecycles` |
| `RunGrammarProofs`, `RunLifecycleProofs`, `ReviewLifecycleProofs`, `VerificationLifecycleProofs` | the theorems about the three streams | |
| `ExecutionWorkerProofs`, `ReviewPipelineProofs` | the theorems about the workers | |
| `StoresProofs` | the theorems about `EventStore`, `Checkpoints`, `LocalState`, `Admission`, `TextChanges` | |
| `ProcessesProofs` | the theorems about `Daemon`, `BoundedProcess`, `Gateway` | |
| `PlanCompiler` | `compile_plan`: from a provider's draft to an ordered plan | `MCLifecycles`, and used by `GeneratedExecution` |
| `ExecutionWorker` | worker process, service operations, API clients, checkouts, expiry, crashes | `MCExecutionWorker` |
| `ExecutionJournal` | `ExecutionRunProjection`: the execution events of a generated run | |
| `GeneratedExecution` | coordinator, attempts, start-or-resume, the canceling client | `MCGeneratedExecution` |
| `ReviewPipeline` | the review and the verification worker, composed through the ledger | `MCReviewPipeline`, `MCReview` |
| `ReviewVerdict` | evidence, admission of a review, verdict, replay of the report | `MCReview` |
| `EvidenceReplay` | the artifacts of a node and their replay | `MCReview` |
| `Gateway` | a model call | `MCReview` |
| `EventStore` | the ledger | `MCStores` |
| `Checkpoints` | projection checkpoints | `MCStores` |
| `LocalState` | artifact store, backups, restores | `MCStores` |
| `Admission` | requests for projects, intents, plans and runs | `MCStores` |
| `TextChanges` | a change proposal applied to files and committed | `MCStores` |
| `BoundedProcess`, `Daemon` | one command; the daemon and its components | `MCProcesses` |

### RunGrammar and RunLifecycle

The folded run is a record `RunState`: status, per-node status, attempts, token,
retained flag and cleanup status, the cancellation flag and the lease (`active`,
`worker`, `prepared`, `dispatched`). The code compares lease digests, worktree
spec digests and inspection digests; each is determined by the lease's token, so
the token stands for them (`OnLease`). An inspection is one of *none, unchanged,
committed, dirty*, which is all that the fold tells apart. `late` says that an
event is recorded after its lease expired.

The fold accepts an event or raises; a batch is appended only if the fold of
stream and batch succeeds, including the final check (`Complete`) that a run is
never left half transitioned. `RunLifecycle!Step` is that: any batch of one or two
events the fold accepts (`Grows`); `Next` bounds the length for TLC. It does not say who sends them: a confused worker, two
workers, or an operator are all covered. `RunConsistent` is the conjunction of what must
agree in a run: lease, tokens, dependencies, dispatches, outcome, retention.

Not modelled: the parsing of payloads, and the evidence check of
`_validate_worktree_evidence` (base commits and path policy), which can only refuse
more.

### ExecutionWorker

`runs` holds each stream folded, `queue` and `order` the ledger order of queued runs
and node successes, `disk` the checkout of each lease. They survive a crash. `w` is the
process: where it is in `serve`, `run_once`, `_execute` or the maintenance, and
in state *append* the batch it is about to append with the sequence it was built
on. `todo` holds the positions in `queue` or `order` that a reconciliation or a maintenance
has still to visit, least first, and `claimed` the node of the cycle under way. Reading and appending are separate steps for the worker (`Stage`, `AppendBatch`) and
for clients (`LoadForCancel`, `AppendCancel`), so that all interleavings occur.

Each action is one stretch of code between two points where something else may
happen: a Git command, a provider call, an append. Every `_require_active` is
a test of `ShouldCancel` in the action that follows it. The two `except` clauses
of `_execute` are `Refused` (a `RuntimeApiError`) and `Failed` (anything else);
`ClaimConflict` is a cycle that ends without an outcome; a refusal that nobody
catches goes to *down*, the same as a crash.

`Crash` may happen in every state and may tear the Git operation under way
(`Torn`). `Faults` lets Git, provider, checks and artifact storage fail, `Expiry`
lets a lease expire. `Modes` are the values of `serve`'s argument `once` that a start
may choose.

Abstracted: which ready node of a run goes first (any), the provider's
proposal, the commands of the checks. The text of changes and the artifacts have
modules of their own; here applying and storing are part of an action and may fail. Not
modelled: the storage quota of `serve`, which only makes the process idle.

### PlanCompiler, ExecutionJournal, GeneratedExecution

`PlanCompiler` keeps of a draft what its rules relate: ids, dependencies, whether a task
writes, checks. `OrderSound` and `WritersSound` compare the layered topological order and
the rule on writers with their definitions on all drafts of three tasks.

`ExecutionJournal` has, for each event type of `ExecutionRunProjection.apply`, what it
accepts and what it folds to. A commit is the set of workspaces whose changes it holds,
so that lost work can be seen; the four amounts of a budget are one number, as the code
treats them alike.

`GeneratedExecution` is the process. `Record` is the journal's `append`: a known
idempotency key is answered, an event the fold refuses ends the process, since nothing
in `serve` catches that. `Begin` is `process()`, `Fence` to `AdmitPlan` are
`compile_and_admit`, `Resume` to `Terminate` are `execute()` with the attempt of
`ProductionAttemptExecutor` between `StartAttempt` and `Verify`. `trees` are the
checkouts by worktree spec, which lacks the plan: a second revision may meet the first
one's. `called` and `spent` are history. The authority that work units give to a worker
is left out: it can only refuse a start.

### EventStore

A call is one step, as `append_many` runs in one `begin immediate` transaction.
A caller sends any batch, built on any earlier state of the streams (`Seen`), with
sequences that may be off by one (`skew`), with keys that are new, repeated in the
batch, or already stored. `Retry` is a batch that is stored completely, `AppendNew`
one that is new or of which a prefix per stream is stored. Refused calls change
nothing and are not steps.

### Checkpoints, LocalState, Admission, TextChanges

`Checkpoints`: loading a checkpoint, reading the stream after it and saving are
transactions of their own, taken by runners that interleave with appends to this and to
other streams. A folded state is the set of positions that went into it.

`LocalState`: `put_bytes` places the file, commits the row, and only then may an event
name the artifact; a writer may stop anywhere. A backup copies the database of one
moment and then the files its rows name, verifies, publishes and prunes file by file; a
restore locks the target, copies, verifies and publishes. Processes may end at every
step.

`Admission`: a handler validates, reads, pins the plan's commit, and records, each a step
of its own, while another handler does the same. Requests for one id may differ in
their body; callers may repeat them; a handler may be lost.

`TextChanges`: each file operation may raise before or after its effect, leave its
temporary file, or be the last; the rollback is made of operations that may fail too.
`commit_changes` compares and commits.

### ReviewLifecycle and VerificationLifecycle

As `RunGrammar`: one operator for each check of the fold and one for each
assignment. A review's lease digest covers token, worker and expiry, so a lease is
known by token and expiry, and renewing makes another lease. `attempt` and
`fencing_token` are always equal and are one `token`. A snapshot stands for the
digests that must agree between all leases of a job. `dispatches` and `reports` are
history variables. The time of an event is what its author wrote, so the
specification allows any clock.

### ReviewPipeline

`worker_process_lock` admits one process for a role (`Daemon` checks that), and only it
appends to the streams of its role; an operation of `ReviewRuntimeService` or
`VerificationRuntimeService` is therefore one step, although it reads and then
appends. What interleaves are the two workers, the runs that succeed, the clock
and the crashes. `reviewer` and `verifier` are the processes with the locals of
`run_once` and `_execute`; `reviews` and `verifications` are the folded streams.

A start takes any of the `Configs` that `SeparateAuthority` admits, so that an id may
be executor under one and reviewer under the next; the checks against that are those
of `claim` (`Involved`). A claim that is refused changes nothing and is not a
step. Evidence, artifacts, the provider and admission may fail (`Faults`): inside
`_execute` that is a recorded failure, while the candidate is built it ends the
process. `_provider_budget` is `ProviderLatency`; its error branch is in the model and
`WorkersHoldLeases` shows that it is never taken. `Generated` are the runs that end with
`execution.run.terminated` instead of `run.succeeded`.

### ReviewVerdict, EvidenceReplay, Gateway

`ReviewVerdict` follows one review: the evidence that is built, every context
that differs by one item, every admissible proposal with at most one finding, the matrix
of rows with their reasons, the verdict, and the replay of the stored report.

`EvidenceReplay` follows one node through the stages of `_execute` that store artifacts,
with a cancellation or an error after each, then harms one artifact and replays. A digest
is the content; a check may print the text of its own command.

`Gateway`: a request is prepared, the profiles may change, the prepared call is made if
preparing it again gives the same, and the answer is admitted or refused. In the program
`invoke` does both at once; `invoke_prepared` is public and its caller may wait.

### BoundedProcess and Daemon

`BoundedProcess`: the command is a leader and one child that may write, close pipes,
fork, exit, ignore SIGTERM, or leave the session; `Drain` are the two threads, `Poll`
the loop of `run`, `Terminate` and `ForceKill` the signals with their grace periods.

`Daemon`: two daemons on one data directory, each with an API and a worker; spawning and
killing may fail, a daemon may be killed and leave its components behind. A worker takes
its role's lock, reconciles and serves.

## Runs

A run that combines modules picks one of them in the initial state and lets only that
one step, so its state space is the sum, not the product; the modules that interact are
composed in one specification (`ExecutionWorker`, `GeneratedExecution`, `ReviewPipeline`).

| Run | Instance | Shows |
| --- | --- | --- |
| `lifecycles` | a run of three nodes, one of which depends on the other two, with 4 tokens at most; a review and a verification with 3 principals, 2 snapshots, 3 tokens and times up to 4; all drafts of three tasks | `RunConsistent`, `NoDeadEnd`, `TerminalFinal`, `CancelStops`, `ReviewMovesForward`, `VerificationMovesForward`, `PlansSound` |
| `execution_crash` | chain of two nodes, the first one writes; both modes, a client, expiry, faults, 2 crashes | `ProviderOnce`, `WorkerHoldsLease`, `LedgerMatchesDisk`, `CycleTruthful`; `ImplementsRunLifecycle`: every run's stream grows by steps of `RunLifecycle` |
| `execution_retention` | three runs of one node, limit 1, faults, 1 crash | `RetentionBounded` |
| `execution_recovery` | chain of two, a client, expiry, 2 crashes | `SurvivorsEnd`, `RunsFinish` |
| `generated` | four drafts (a chain, a fork, two parallel writers, a single task), 2 revisions, 2 attempts, budget 4 with calls of 1 or 2, all failure classes, refusals, a client, 1 crash | `CalledOnce`, `NoWorkLost`, `WithinBudget`, `ExecutionFinal`, `GeneratedRunsEnd` |
| `review` | 2 runs, 2 configurations that exchange the roles, faults, 1 crash, lease 2, times up to 3; a review of 2 nodes with 1 finding and 2 dimensions; a node with 2 checks and 1 harmed artifact; 4 gateway policies | `ReviewProviderOnce`, `WorkersHoldLeases`, `NoOrphans`, `Independent`, `VerdictSound`, `ReplayFaithful`, `GatewaySound` |
| `review_progress` | 2 runs, 1 configuration, 2 crashes, lease 3 with a call of at most 2 | `RunsReviewed` |
| `stores` | 2 streams, 2 keys, 2 contents, batches of 2, 4 rows; 2 runners, 5 events; 3 artifacts over a quota of 3, 2 bundles, 1 retained, 2 restores; 2 handlers, 2 projects, 2 bodies; 2 paths, 2 texts, 2 modes | `GapFree`, `AnswerInLedger`, `NoUnseenEvent`, `CheckpointsExact`, `ArtifactsDurable`, `RecoveryComplete`, `AdmissionSound`, `ChangesAtomic` |
| `processes` | one command with one child; 2 daemons with 2 components and 2 faults | `NothingLeftRunning`, `ProcessReturns`, `OneWorkerPerRole`, `DaemonEnds` |
| `execution_broken_checkout`, `generated_resume`, `review_generated` | | violations, see below |

Why the bounds are enough. Nodes interact through dependencies and the single
lease, so two nodes (or three with a join) show every relation between an earlier
and a later node. `MaxFence` allows each node a first attempt and one or two more.
`MaxSeq` exceeds the longest stream the other bounds allow in the worker runs.
A second crash can hit the recovery from the first. Three runs with a limit
of one make a retention queue. Two streams and batches of
two give stored prefixes, cross-stream batches and keys repeated within a batch.
In the pipeline two runs give an order to process and one job to leave behind while
another is worked on; the clock can pass the end of a first lease, and the end of a
renewed one only in `review_progress`; the second configuration makes every id of
the first take another role, the supervisor's with a surviving lease included. A
process also ends, without using up the crash bound, when a candidate cannot be built
or reconciliation is refused. A generated run replans once in the code too; two attempts
give one repair; a budget of four is used up, overdrawn and left over. Three tasks are
the fewest with two writers that are ordered only through a third. One backup at a time
is what the documentation describes; two bundles with one retained let the pruning meet
a restore. Two handlers and two bodies give a race between equal and between different
requests. Two paths give a change that fails after another was applied.

`CHECK_DEADLOCK FALSE` is set because the systems do stop: a run that is over and
cleaned up, a worker with nothing left to do, a ledger at its bound, a command that ended.

Symmetry is used only in runs without liveness: the two independent nodes, the
principals and the snapshots of `MCLifecycles`; in `MCStores`, where only one module
steps, the modules share model values and with them the symmetry of streams, keys and
contents, of runners, of artifacts of one size, of restores, of handlers, projects and bodies.

### Fairness

`ExecutionWorker!FairSpec` assumes weak fairness of the worker's steps (a running process is
scheduled, and each of its external calls is bounded by a timeout), of
`Restart` (`adapters/daemon_systemd.py` writes `Restart=on-failure`, the daemon
exits when a child does and starts all of them again), of `SubmitRun` and of
`AppendCancel` (a request under way is answered). Crashes, expiry, faults and
the start of a cancellation are never forced. Crashes are bounded by
`MaxCrashes`: with unboundedly many nothing could be promised. `ReviewPipeline!FairSpec`
and `GeneratedExecution!FairSpec` assume the same of their processes: weak fairness of
each, its start included. `BoundedProcess` assumes that the threads of the runner are
scheduled, that its grace periods end, that a process that was sent a deadly signal goes,
and that the deadline passes; nothing is assumed of the command. `Daemon` assumes that a
daemon's loop runs and that a component that was told to stop or killed ends.

### Violations

- `execution_broken_checkout` (`LeaseInvalidated`): a canceled run whose checkout cannot be inspected is
  never reconciled. The reconciliation events leave it canceling without a lease,
  which the fold's completeness check refuses. The same happens when the checkout is
  missing and an earlier node retains its own: `_record_missing_canceled_node` writes
  `retained_worktree: False` on the run, which the fold compares with the nodes.
  `execution_recovery` shows that these are the only exceptions.
- `generated_resume` (`SafelyResumed`): the worker ends between the verdict on an attempt (replan,
  escalation, failure) and the event that ends the run. `execute()` then takes the
  decided task up again, the journal refuses, and so at every start. `GeneratedRunsEnd`
  shows that this (`Stranded`) is the only way for a generated run not to end.
- `review_generated`: a succeeded generated run is offered for review, but `claim` demands
  an event of type `run.succeeded`, which such a run does not have. The worker meets it
  again in every cycle and reviews no later run.

Disagreements without a run: `execution-worker --once` exits 0 for a claim-conflict
(`bootstrap/execution_process.py:336`), where `docs/guides/execution-worker-configuration.md:82`
says that a node reached a terminal transition. A check that prints the exact JSON of its
own command gives evidence that replays as failed (`Collides` in `EvidenceReplay`). A
descendant that leaves the session with a pipe open makes `close()` wait for it
(`ProcessReturns` excepts it). Two backups at once may prune each other's bundle.

## Proofs

The theorems hold for every value of the constants that satisfies the named `ASSUME`s:
for every plan, number of runs, workers, handlers, runners, daemons, artifacts or
profiles, and for every bound, where a run of TLC has a small instance. They cover every
safety invariant of the runs but those listed at the end, and six of the action properties.

Each follows the same argument: an inductive invariant holds initially, one
lemma for each action (or for each group of actions that change the same part) shows that a
step keeps it, and it implies the property.

### The run: `RunGrammarProofs`, `RunLifecycleProofs`

`RunLifecycleProofs` proves every property of a run that `lifecycles` checks:
`RunSafety` is `RunConsistent`; `NoDeadEndSafety`, `TerminalFinality` and
`CancellationFinality` are the others. The parts of `RunConsistent` are theorems of their own
(`LeaseSafety`, `FenceSafety`, `DependencySafety`, `DispatchSafety`, `OutcomeSafety`,
`RetentionSafety`); `TypeCorrect` gives the type and `LeaseOrder` that tokens and attempts
never go back. Assumed is that the plan is a function on its nodes without cycles (which
`interfaces/http/contracts.py` enforces), and that `None` is none of them.

The inductive invariant (`Invariance`) is `IInv == Sound(run) /\ Complete(run)`. None of the
properties is inductive alone: that a token is unique needs that `maxFence` bounds
all tokens; that a claim cannot reuse a dispatched node needs the link between
`active`, `dispatched` and the node's status; that an outcome is truthful needs that
a node that is over stays so. `Sound` is the conjunction of these parts and is
preserved by every single event; `Complete` is re-established by every *batch*,
whatever its events did in between, because the fold checks it at the end. So the
step proof goes event by event for `Sound` (one lemma for each) and batch by batch for
`Complete`. The absence of dead ends follows from `IInv` with acyclicity: in the set
of nodes that have not succeeded there is one whose dependencies all have. The three
action properties follow from the same lemmas.

The lemmas about single events and batches are in `RunGrammarProofs`, stated of any run
state, so that the proofs about the worker use the same ones. Its second half says what
each kind of event does to the fields the worker depends on (`ClaimEffect` ...
`CleanupEffect`).

### The execution worker: `ExecutionWorkerProofs`

`ProviderCalledOnce`, `LeaseHeld`, `LedgerAndDisk`, `TruthfulCycles`, `RetentionSafety` and
`RunsImplementLifecycle` prove what `execution_crash` and `execution_retention` check,
with any number of runs, clients, crashes and lost leases. The last one is the refinement:
every step of the system is, for each run, a step of `RunLifecycle` or leaves the run
alone, so that all theorems of `RunLifecycleProofs` carry over to the worker's runs.

The invariant (`WorkerInv`, theorem `WorkerInductive`) has three layers.

- *One run* (`RunOK`): `Sound` and `Complete` as above; a node that is not pending has
  a token.
- *One run, its checkouts and its calls* (`DiskOK`): the conjuncts of `LedgerMatchesDisk`, and
  that calls made are at most dispatches recorded. This is inductive only because an
  event that is about to be appended is *true* of the checkout (`TrueEvent`): a success is
  recorded for a committed checkout, a failure with the inspection that was made, a
  cleanup as done when the directory is gone.
- *The process* (`WorkerAt`): at each place of the code, what it holds (`Holding`: the
  lease, unless it is about to append a claim or an outcome that may be refused), how
  far the work is (`Progress`), which batch it is about to append, and to which
  continuations acceptance and refusal lead (`Leads`).

The difficulty is interference: between the read and the append of the worker a client may
request a cancellation. It does not invalidate the invariant because such an event
leaves node, token, lease and retention of the run alone (`SameWork`), and because the
append of a batch built on the older sequence is refused (`AppendRefused`) and goes where
`Leads` says. A crash keeps the two durable layers and empties the third.
`RetentionSafety` needs that a claim is made only when the quota is satisfied, so
at most one success is added before the next maintenance, and that no other event
increases the number of retained successful checkouts (`BatchRetention`).

### Review and verification: `ReviewLifecycleProofs`, `VerificationLifecycleProofs`, `ReviewPipelineProofs`

The first two prove the properties of the review and verification streams in `lifecycles`
for every set of principals and snapshots and every bound: at most one dispatch
(`ReviewDispatchedOnce`), one report exactly when completed (`VerificationReportsOnce`),
and `ReviewGoesForward` and `VerificationGoesForward` for the action properties. Typing and the
count are inductive together (`IInv`): that a dispatch is the first follows from the
status alone only because every other status is tied to a count of 0 or 1. The action
properties follow from the lemmas about a single accepted event.

`ReviewPipelineProofs` proves `ReviewProviderOnce`, `WorkersHoldLeases`, `NoOrphans` and
`Independent` for every set of runs and of configurations that separate the roles within
each of them. `PipelineInv` relates each process to the stream of its job
(`HoldsReview`, `HoldsVerification`): token *and* expiry in memory are those on record, so
that a renewal cannot leave the worker with the old lease, and the place in `_execute` tells
whether the dispatch is recorded and the call made. `Attended...` says that a lease no one
works on waits for reconciliation. `Independent` needs that author and snapshot of a claimed
job are fixed from then on. Assumed is `MaxLatency < Lease`, which
`ReviewWorkerPolicy` demands.

### Stores: `StoresProofs`

| Theorem | Property | Inductive invariant, and what it adds |
| --- | --- | --- |
| `GapFreeSafety`, `AnswerSafety`, `SeenSafety` (together `LedgerSafety`) | `GapFree`, `AnswerInLedger`, `NoUnseenEvent` | `EventInv`, the types and `GapFree`. A batch may have a stored prefix in each of its streams; the positions of the new events are counted by cardinality (`PlaceInjective`, `PlaceAhead`), and the lemmas `AppendGapFree`, `AppendAnswer`, `AppendSeen`, `RetryAnswer` treat one call each |
| `CheckpointSafety` | `CheckpointsExact` (action property) | `CheckpointInv`: a checkpoint in memory or in the row is exact of *some* prefix, and stays so as the log grows |
| `ArtifactsSafety` | `ArtifactsDurable` | `ArtifactInv`: a writer between file and row has its bytes on disk, and the quota has room for it |
| `CopiesSafety`, `RecoverySafety` | `CopiesWhole`, `RecoveryComplete` | `CopiesInv`: every bundle, also half copied or half pruned, is of one snapshot; `LatestInv`: the victims are older than the latest. `CopiesSafety` holds for any number of backups at a time; `RecoverySafety` assumes at most one, and is false for two (each prunes by a list made before the other published) |
| `AdmissionSafety` | `AdmissionSound` | `AdmissionInv`: what a handler found on its way (parents, pin) is still so when it records, because nothing recorded or pinned changes |
| `TextSafety` | `ChangesAtomic` | `TextInv`: the files are the start with the first *k* operations done, where a rollback knows *k* up to one |

### Processes: `ProcessesProofs`

`DaemonSafety` (`OneWorkerPerRole`) rests on `LocksHeld` and on what a daemon knows of
the children it has waited for (`Watched`); `ProcessSafety` (`NothingLeftRunning`) on `Drained`
and `Supervised`, and on the fact that nothing that ended comes back (`Lessens`);
`GatewaySafety` (`GatewaySound`) on `Permitted`, which a prepared call satisfies at the
moment it is made because preparing it again gave the same. Profiles are any finite
sets with different ids (`ModelGateway.__init__` refuses others), so that a first one in
the order of priority exists (`FirstExists`).

### Only model-checked

- Liveness (`SurvivorsEnd`, `RunsFinish`, `GeneratedRunsEnd`, `RunsReviewed`,
  `ProcessReturns`, `DaemonEnds`): TLAPS has no proof rule here for fairness and `ENABLED`.
- `PlansSound` and `ReplayFaithful`: the rounds of `_topological_order`, the ancestors and
  the stored rows are computed by recursion over the draft and by a fold over the stages;
  what they return for every input needs induction over data.
- `VerdictSound`, and `CalledOnce`, `NoWorkLost`, `WithinBudget` and `ExecutionFinal` of
  `GeneratedExecution`: nothing stands against a proof, they are not done yet.

## Not modelled

- Provider adapters, command line, TUI, presentation, telemetry, Kernform: they call
  external programs or format; no durable state depends on them but through the calls
  that are modelled.
- Configuration files but for the separation of roles: their values are `CONSTANTS`.
- Authentication and the parsing of requests, events and artifacts: what is malformed is
  refused before any state changes.
- Read models (`query_runs`, presentation windows, event lists, artifact downloads):
  they change nothing.
- Work units and their budgets, the promotion candidate: they restrict a worker's
  authority or report.
- Git plumbing, path policy and sandbox arguments; the JSON schema validator of the
  gateway.

## Plan

Done: the core (`RunGrammar`, `RunLifecycle`, `ExecutionWorker`, `EventStore`), the
review and verification streams and their workers, generated plans, evidence and verdict,
stores, recovery, admission, processes, gateway; the proofs of all safety properties of
runs, worker, pipeline, stores and processes, and of the refinement of `RunLifecycle`.

Left are proofs about `GeneratedExecution` (`ExecutionFinal`, `CalledOnce` and `WithinBudget`
first: they depend on the tasks of a plan but not on their order; `NoWorkLost` needs the
ancestors of a writer) and of `VerdictSound`, row by row of the matrix.
