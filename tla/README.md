# stores: verification project

`stores` is a schema-driven record store over SQLite with a multi-agent task
workflow built on it: tasks are planned, reviewed, executed, reviewed again and
landed on `main` by agents that a long-lived daemon starts, while people at a
command line push rows along, stop them or repair them. This directory holds
TLA+ models of the parts that decide whether that goes right, the
configurations TLC checks them with, and the theorems TLAPS proves about them.

All paths below are paths of the repository with the prefix `src/` left out
where it only repeats: `integrate.rs` is `src/src/flow/builtins/integrate.rs`,
`submit.rs` and `drive.rs` are in `src/src/handlers/`.

## 1. Inventory

Everything the system knows is in one SQLite database and one git repository.
There are no messages: components talk by writing rows that others poll. A
handler is one `IMMEDIATE` transaction; agents, builtins and drives do their
work *between* transactions, and that is where the hard behaviours are.

| Component | State | Operations | Talks to |
|---|---|---|---|
| **Task workflow** (`handlers/submit.rs`, `handlers/transition.rs`, `flow/builtins/mod.rs`, `handlers/lifecycle_overlay.rs`, `stores/tasks/schema.yaml`) | `tasks` row: status, plan, `plan_review_log`, current phase and cycle, `cycles`, `blocked_reason`, overlay columns; `transition_history` | `submit-plan`, `submit-plan-review`, `submit-execute`, `submit-review`, `submit-wrap`, `mark_drive_failed`, `resume`, `accept`, `reject`, `amend`, `abandon`, `close-out-of-band`, `activate`, `deactivate`, on-entry follow-ons (`start`, `skip-plan`, ...) | every other component reads the row or its history |
| **Drive loop** (`handlers/drive.rs`, `handlers/next_action.rs`) | process: the role it works for, the brief it gave; column `drive_pid` | check owner, record owner, next-action, brief, run agent, submit, report a failed runner | task workflow, runners |
| **Auto-drive and watchdog** (`flow/builtins/auto_drive.rs`) | `dispatch_locks` of agent auto-drive, `drive_pid`, log mtimes | dispatch a drive, sweep dead and silent drives, scan zombie tasks | task workflow, drive loop, dispatcher |
| **External review lane** (`flow/builtins/external_review.rs`, `handlers/external_review*.rs`) | `external_reviews` rows by attempt, with head and status | claim, run, hold for tooling, retry, pass, REVISE back to the task, supersede | task workflow, worktree, accept precheck, integration lane |
| **Integration lane** (`flow/builtins/integrate.rs`, `flow/freshness.rs`) | `tasks` row: integration step, attempts, shas; `main`, candidate branch; locals of the run | start, refresh, review and test the candidate, take the slot and the lock, merge, push, roll back, record | git, resource locks, external reviews |
| **Resource locks** (`handlers/resource_locks.rs`) | one row per resource: owner, fencing token, expiry | acquire, release, check ownership, recover stale | integration lane, operator |
| **Daemon dispatcher** (`handlers/agents_run.rs`) | `dispatch_locks`, cursor into `transition_history`, `daemon_starts` | poll, claim, run, finish, retry, route failure to `deploy_blocked`, exec itself when its binary is stale | every builtin |
| **Engine runner** (`flow/engine_runner.rs`, `subscriber_edges.rs`, `predicate.rs`) | the same locks | evaluates subscriber edges after a transition | dispatcher |
| **Activation queue** (`handlers/activate.rs`, `builtins/activate_queued.rs`) | `activation`, `depends_on`, queue order | activate, deactivate, release a queued task when dependencies are done and no other task is active | task workflow, auto-drive |
| **Post-integration chain** (`builtins/release_to_integration.rs`, `accept_merge.rs`, `cargo_install.rs`, `schema_migrate.rs`, `cleanup_worktree.rs`, `user_escalation.rs`) | statuses after `accepted` | release, install, migrate, clean up, escalate | dispatcher, git, shell |
| **Observations, intake, architecture reviews** (`handlers/observation_arch_gate.rs`, `architecture_reviews.rs`, `intake_route.rs`, `disposition.rs`) | their rows and contract columns | log, investigate, gate, route, resolve | promotion subscribers |
| **Promotion and scaffolding subscribers** (`builtins/auto_promote.rs`, `auto_scaffold.rs`, `auto_resolve_observation.rs`, `investigator.rs`, `gatekeeper_router*.rs`) | `linked_observations`, contracts | observation to task, worktree for a task, task to resolved observation | observations, task workflow |
| **Row verbs** (`handlers/add.rs`, `update.rs`, `list.rs`, `show.rs`, `brief*.rs`, ...) | any row | one INSERT or UPDATE, or rendering | |
| **Schemas, validation, DDL** (`schema/mod.rs`, `validate/mod.rs`, `codegen/ddl.rs`) | none | pure functions of a schema and a row | all |
| **Migrations** (`handlers/migrate.rs`, `framework_migrate.rs`, backfills) | the database | run once | |
| **Runners** (`runner/*.rs`) | child processes | spawn an agent, collect its answer | drive loop, builtins |
| **Terminal interface** (`tui/*.rs`), **command line** (`cli/*.rs`) | none of their own | read and draw; parse and call | all |
| **Policies, configuration, notifications** (`flow/policies_yaml.rs`, `config.rs`, `ntfy.rs`) | files | read at start; send | daemon |

### What makes each component correct

* **Task workflow.** No phase is skipped; only the plan that was approved is
  executed; the review trail is written once; a review always has something it
  is a review of; a failure keeps what was done; every task comes to rest; the
  overlay columns say what the schema declares.
* **Drive loop.** One drive works on a row; a late answer of a drive that was
  given up changes nothing it should not; what an agent was shown is what its
  answer is recorded against.
* **External review.** A REVISE moves the task only when it is about the work as
  it stands; acceptance needs a PASS for the current head.
* **Integration lane.** `main` is written by one run at a time, only with what
  was reviewed and tested, on the very commit it was tested on; what is
  reported integrated stays; what is on `main` already is not landed again; the
  row says what happened; every run returns and leaves no lock behind.
* **Resource locks.** At most one holder; nobody but the holder, or time, takes
  a lock away.
* **Dispatcher.** An agent runs on a row in one daemon at a time and no oftener
  than its policy allows; what is settled is not reopened; a retry that is due
  is taken.
* **Auto-drive, watchdog, engine runner.** One drive per row; a row with work to
  do and no drive gets one; a row is not given up before it was tried.
* **Post-integration chain.** The daemon's binary never goes back; a step says
  only what has been done; a landed row is deployed or says it is not.
* **Observations and promotion.** An observation is ratified only once a review
  of it has let it go, promoted to one task at a time, and closed when that task
  shipped; decisions of people are not overwritten by late reports.
* **Activation queue** (not modelled). One active unblocked task at a time; a
  task is released only after the tasks it depends on.

### What is hard

Steps of two drives, or of a drive and the watchdog, in an order nobody wrote a
test for; state checked in one statement and used in another (`drive_pid`, the
freshness evidence, the head of a branch); answers that arrive after the row has
moved on and come back to the same status; processes that die between a
transition and the statement after it; a lock that expires under a holder who is
waiting for `git push`; a rollback of `main` that others have built upon;
resumes that read the history of an earlier life of the task; locks that are
unique per row and agent and outlive what they were taken for; daemons that
restart over the locks of their predecessor; reviews of one thing opened twice,
each after a look that found none; statuses nothing moves a row out of.
`PROJECT.json` lists each hazard with the line where it bites and the properties
about it, or the reason why there is none.

## 2. The modules

| Module | What it is |
|---|---|
| `ResourceLock` | one resource of `resource_locks`: the rows, and each operation as an action or a guard |
| `IntegrationLane` | the builtin `integrate` for any set of tasks, with git, the lock (EXTENDS `ResourceLock`), people and crashes |
| `SerialLanding` | abstract: what the lane promises about `main` |
| `LaneRefinement` | the refinement mapping from the lane to `SerialLanding` |
| `IntegrationLaneProofs` | theorems about `IntegrationLane`: types, the lock, what is merged |
| `LandingProofs` | theorems about what the lane's rows say of `main`, and the refinement of `SerialLanding` (EXTENDS `IntegrationLaneProofs`, `LaneRefinement`) |
| `TaskWorkflow` | a task row with its drives, watchdog, external reviews and people |
| `TaskWorkflowProofs` | theorems about `TaskWorkflow` |
| `Dispatch` | `agents run`: daemons, `dispatch_locks`, the starting line, claims, retries |
| `DispatchProofs` | theorems about `Dispatch` |
| `Deploy` | the agents of the post-integration chain, dispatched by `Dispatch` (EXTENDS it), and `reconcile-accepted` beside them |
| `DeployProofs` | theorems about `Deploy`, on top of those of `DispatchProofs` (EXTENDS both) |
| `AutoDrive` | how a task gets, keeps and loses its drive: builtin, watchdog, engine runner, the drive's own bookkeeping |
| `AutoDriveProofs` | theorems about `AutoDrive` |
| `ReviewLane` | attempts at external reviews, the processes that claim them, the tasks they judge |
| `ReviewLaneProofs` | theorems about `ReviewLane` |
| `Observations` | observations, rulings over them, investigator, promotion to tasks, resolution |
| `ObservationsProofs` | theorems about `Observations` |
| `MC...` | one per module that TLC runs: model values, symmetry, functions for a `.cfg` |

### IntegrationLane and the code

The columns of the `tasks` row, its `external_reviews` rows (`review[t]`, in the
order of their attempts; only those that passed or were superseded are in it),
the refs and the locals of `integrate::run` are the variables; `pc[t]` is the place
where the run of task `t` stands. A run is cut at every database statement that
commits on its own and every git command, because runs of different tasks can
overlap. One daemon runs a lane to its return inside its poll
(`agents_run.rs:run_dispatch`), but the pid file keeps out only a second
`--detach` daemon: a daemon in the foreground, one pass by hand and the recovery
verb `run-integration` (`cli/dispatch.rs:421`) are further processes on the same
database and repository. The lane's own defences (the singleton index on the
merging row, the fencing lock, the wait for the merge slot) and its test
`g_concurrent_integration_serializes_correctly`, three threads in `run`, are
written for that. Two runs of the *same* task are not modelled:
`start-integration` accepts only `integration_queued`, so they overlap only if
someone retries a blocked task and runs it by hand before the blocked run has
returned. The actions are named after what
`run` does, in its order: `Start` (start-integration), `CaptureBase`,
`CheckStaleBase`, `Refresh`/`RefreshFails`, `CheckReviewedHead`,
`MarkRefreshDone`, `MarkTaskReviewDone`, `PreLandPasses`/`PreLandFails`,
`MarkTestingDone`/`MergeWaitTimesOut`, `AcquireLock`/`LockBusy`,
`FreshEnough`/`Stale`, `CheckOwnership`, `Merge`/`MergeFails`, `MarkMergeDone`,
`Push`/`PushFails`/`ResetMain`, `MarkDeployDone`, `RecordLanded`,
`MarkVerifyDone`, `FireBlocked`, `Return`. A verb fired on a row that has left
`integrating` is an error that ends the run (`FireStep`), which is how people
taking a row away mid-run is modelled (`Abandon`, `CloseOutOfBand`). `Crash` is
the death of the process at any point: no `Drop`, no further write.

A reviewed task (tier T2 or T3) starts at `in_review`. `ImportPass` adds a passed
row about the candidate and `main` as they are; `Accept` is the verb with its
precheck and the release to the lane. As in the code a review is only ever
inserted: a newer one leaves the older `passed`, `Passed` and `IsLatest` are the
query of `latest_passed_er_row`, and after `CheckStaleBase` has superseded the
latest the one before it is found again, and its head does not match
(`CheckReviewedHead`). How a review comes to pass is the matter of `ReviewLane`.
`ResetMain` may leave `main` as it is, because the code does not look at the
result of `git reset`.

Data. A commit of `main` is the first-parent chain leading to it, a sequence of
*landings* (task and attempt, and what it brings along); a candidate head is the
commit of `main` it sits on, the foreign landings it carries and a revision.
That is exactly what `merge-base --is-ancestor`, `rebase`, `merge --no-ff`,
`reset --hard` and the freshness comparison can tell apart. The lock's clock is
reduced to live, lapsed and never.

### TaskWorkflow and the code

Each handler is one transaction and so one action: the status change, the
overlay columns, the history row and the on-entry follow-ons fired in the same
transaction are all in it (`ready` and `complete` are left in the transaction
that enters them and are no states). A drive is cut where the code leaves the
database: owner check, owner record, next-action, brief, and then the agent
thinks (`pc = "running"`) until it submits, fails or dies. The drive remembers
the status it saw and what the brief showed, so a late answer is the same
`Submit...` action taken when the row has moved on, or `Refused`. `history`
keeps the four facts of `transition_history` that `compute_resume` and
`interrupted_status_for_drive_failure` can tell apart. Plans and commits are
numbered in the order they are made.

`bypassed` is the one history variable: it records that a task has been through
one of two ways around the plan gate that the code has (a resume that reaches
behind a rewind, and an external REVISE that overrides a failed planning step).
The invariants are stated for tasks that were not; section 3 says how the first
of the two disagrees with the documentation.

### Dispatch and the code

A piece of work is a pair of a row and an agent, the key of `dispatch_locks`.
`lock[w]` is that table: `state` stands for `terminal_reason` and `finished_at`
(both NULL while open), `retry` for `next_retry_at` before and after its time.
A daemon's locals follow `run_daemon` and `poll_once_with_guard`: `Boot` takes
the highest history id, `CheckSeeded`/`Seed` write the starting line
subscription by subscription, `Consider` is a row of the forward query whose
policy and predicate pass, `TryClaim` the unique INSERT, `Finish` the command
and the update after it, `FindRetryable` the SELECT of the retry pass and
`ClaimForRetry` its compare-and-swap, which compares status and attempt with
what that SELECT read, clears `finished_at` and only then looks at policy and
predicate (`RetryPasses`, `RetryHalted`, `RetryGatedOut`). A daemon may die at
any step, `exec` itself (`Crash`), or lose the update that finishes a lock
(`FinishLost`; the code ignores that error). Verdicts of policies and
predicates are an input that changes (`Regate`). Any number of daemons run: the
pid file keeps out only a second `--detach`.

### Deploy and the code

`Deploy` EXTENDS `Dispatch` with the three agents of the shipped
`docs/agents-yaml-example.yaml` that follow `integrated`. A job is cut where the
builtins leave the database: `Builds`, `Promote` (the private daemon binary is
replaced by rename), `MarkInstalled`; `Migrates`, `MarkMigrated`; `Cleans`. A
binary is the set of landed rows whose code it contains. The daemon checks the
postcondition after the command (`Returns`), finishes the lock, and in a further
statement routes a failure to `deploy_blocked` (`Route`). `Reconcile` is
`tasks reconcile-accepted`, which runs the same builtins with no lock. Steps are
written with a history row `integrated -> integrated`, which is the edge the
next agent subscribes to.

### AutoDrive and the code

One daemon; `task` has the columns the passes read (status, `drive_pid`,
whether a starting marker was written, the latest external review, whether
submit-wrap was done), `lock` the row's auto-drive lock with pid, age, heartbeat
and whether it is older than the daemon's epoch, `marker` the current-run marker
in the worktree, `drive` the processes. `daemon.pc` walks through the passes of
one poll in the order of the code: forward claim (`Claim`, `RunSkips`,
`RunSpawns`, `RunRecords`, `RunResult`), sweep, silent drives, handoff
(`HandsOff`), engine runner (`Redrives`), zombies (`Buries`). Spawning a process
and recording its pid are separate steps with a `Crash` in between;
`CrashInRedrive` dies inside the transaction of the engine runner, whose child
lives on. Thresholds (`no_output_secs`, heartbeat grace, claim window) are
passed by actions of time. `Brief` is the timing assumption: no verb arrives for
a row, and no grace (ten seconds and more) runs out, within the few statements
of a launch, of the last pass or of a drive between two agents; and an agent
takes longer than a launch. Without it the sleeps of the code would be races of
any two statements.

### ReviewLane and the code

A review is its id; of a task only status, reason, wrap and branch head are
kept. `worker[p]` is a process inside `external_review::run`, or the daemon's
tick (`engine_runner::tick`): `Begin`, `Claim` (cap counted again under the write
lock, `external_review.rs:119`), `Prepare`/`RebaseConflicts`, `Answers`, `Fails`,
`Hold`, `Record`, `Fire` (the REVISE is fired in a transaction of its own after
the verdict is recorded). `Mint`, `Promote`, `List`, `Pick` are the tick,
`TryClaim`, `Poll` the daemon's poll, which claims a dispatch lock first. People
import a pass, create a pending attempt, accept, recover a stale base (a read
and a later transaction). `shown` is a history variable: the head whose diff the
reviewer was given.

### Observations and the code

`obs[o]` keeps status, the pending flag, `clearable_by_ruling`,
`reframe_acknowledged`, whether the contract was rewritten after each reframe,
and the task it was promoted to; `ruling[r]` an architecture review. Adding a
ruling is two steps because `add.rs` looks for an open one before its
transaction (`AddChecks`, `AddWrites`). `IssueVerdict` is the whole of
`issue_verdict_in_tx`, with the effect of the verdict on every covered
observation and the superseding of an earlier ruling. `Confirm` is the verb with
the automatic ratification in its transaction, guarded by `Passes`
(`enforce_u1_architecture_gate` and the acknowledgement of a reframe). The
daemon's builtins `investigator`, `auto-promote` and `auto-resolve` run one at a
time; `auto-promote` looks for a task and mints one in two transactions
(`LookForTask`, `Mint`, `MintFails`), `auto-resolve` closes the linked
observations one after another (`ResolveNext`), and both are run again, without
locks, by the sweeps of a start (`Sweep`). One daemon, the one the pid file of
`agents run --detach` keeps unique.

## 3. The runs

Every property of every passing run has a mutant in `PROJECT.json`: a plausible
bug in a definition of the model under which TLC finds that very property
violated with the same configuration.

### Passing runs

| Run | Instance | Shows |
|---|---|---|
| `lane_push` | 2 tasks, one of them externally reviewed, up to twice; one of the two has 2 attempts; pushes and their rollbacks may fail | types; one writer of `main`; integrated work is and stays on `main`; the row agrees with its evidence; what lands is what was tested, on the commit it was tested on, and is not on `main` already; the lane implements `SerialLanding` |
| `lane_people` | 2 tasks, no push, one crash, one lapsed TTL, one act of a person on `main`, a branch or the lock | nobody takes a live lock from its run |
| `lane_returns` | 2 tasks, no push, one crash, fairness | every run of the lane ends |
| `flow_work` | T3, one drive, 2 phases, both limits 2, a failure, a stalled drive, a resume, fairness | types; no phase is skipped; a task in work comes to rest |
| `flow_lives` | T2, 2 drives, limits 1 and 2, a resume, an amend, an external review | reviews have their target and are final and only approved plans run, across the lives of a task and with answers that come late |
| `dispatch` | 2 daemons, 1 row, an agent with two edges and 2 attempts, a crash, a rate limit, a changing predicate, fairness | an agent runs on a row once at a time and as often as its policy allows; what is settled stays settled; a retry that is due is taken |
| `deploy` | 1 daemon, 1 operator, 2 rows, the three agents, a crash, one failure, fairness | types; the daemon's binary never goes back; a step says only what was done; a landed row is deployed or says it is not |
| `autodrive` | 1 row, 2 processes, a fault, one return of the row to work, fairness | types; one drive per row; a resumed row is not given up before it was driven; a row with work to do gets a drive |
| `review` | 1 task, 1 daemon, 1 person, cap 1, 2 attempts, a revision, a landing on `main`, a failure or death, an act of a person; fairness | types; the cap; one reviewer per attempt; what is accepted was passed; what is sent back was objected to; a task in review is judged and a pending attempt dispatched, unless a process died within a review |
| `observations` | 1 observation, 2 rulings, 3 tasks, one of: an edit, a task of a person, a death of the daemon, a failing mint | the flag of an observation under review stays up until a review lets it go, and only then it is ratified; one task at a time; decisions stand |
| `observations_served` | 2 observations linked to one task, in either order; one of them routed in with its review; 3 tasks, 2 of: a task of a person, a death, a failing mint; fairness | what is ready is promoted; what shipped is closed, link by link, also after a death between two closings |

### Disagreements

One run checks a sentence of the repository against the model, and TLC finds it
violated; `PROJECT.json` quotes the sentence with its line.

| Run | The sentence | What happens |
|---|---|---|
| `lane_review_lost` | the lane guarantees that external review PASS applies to what lands | a reviewed task has one review, made on the unpushed merge of its neighbour; that merge is reset, a `stale_base` block supersedes the review, and after `retry-integration` the next attempt finds no passed review, skips both review checks and lands |

The others were met while modelling, most of them as counterexamples to a
stronger form of a property the runs check now; they have no run of their own.

*Integration lane*

* `docs/integration-lane.md:212-216` has a failed push undone by the reset. A
  candidate refreshed while the merge stood brings the work back. A reset that
  fails goes unnoticed (`integrate.rs:631-639`): the row says `push_failure` and
  the work is on `main`, where no retry can ever report it (`NeverLandsTwice`:
  its scope is empty). A commit a person makes between the look at `HEAD^` and
  the reset is dropped with the merge.
* `docs/integration-lane.md:230` has stale locks recovered by acquire. A run that
  died while merging keeps the singleton index, so nobody gets to acquire.
* `integrate.rs:688-689` keeps `main` protected until the final transition. The
  TTL (600 s) lapses during a push; the rollback drops the next task's landing.
* `integrate.rs:167-169` wants every exit path to finalize the attempt and fire a
  verb; `MergeWaitTimesOut` (`:840`) does neither and the row stays `integrating`.
* `docs/integration-lane.md:153` wants one record per entry into `integrating`;
  a crash between `Start` and `CaptureBase` leaves none.
* `docs/integration-lane.md:39` says only `merging` holds the lock; it is held
  from `AcquireLock` to `Return`, through deploying and verifying.
* `docs/integration-lane.md:114-116` says a stale review is superseded;
  `CheckReviewedHead` only blocks the row.

*Task workflow and drive*

* `docs/engine-health.md:80` has rejected plans not route to executing on resume.
  After a rewind by a resume and one more drive failure at planning,
  `interrupted_status_for_drive_failure` (`submit.rs:1954-1985`) answers with the
  status of an older failure, and a NOT_READY plan goes to executing.
* The gate goes to the last entry of the phase and cycle (`submit.rs:1436`), but
  the reviewer was shown the first (`drive.rs:1984`).
* `docs/primitives.md:70` has `reviewed_plan` be what the agent saw at dispatch;
  it is read at submission.
* `submit.rs:2071-2072` says infrastructure failures keep phase and cycle;
  `ResumeTarget` knows only the watchdog's reason, so a `RunnerFails` that the
  drive reports itself (`drive.rs:242-268`) starts over at planning, cycle 1.
  A resume to planning keeps `current_phase` (`submit.rs:2087`).
* `drive.rs:618` says duplicate owners are refused; `CheckOwner` and
  `RecordOwner` are two statements, and two drives started together both pass.
  `flow_lives` includes this: the review trail survives it.
* `stores/tasks/schema.yaml:348` declares the overlay columns of `abandon`;
  `MoveBare` leaves them alone, as does an external REVISE (`transition.rs:1045`),
  which also increments `current_cycle` past every limit.
* `docs/philosophy.md:111` says `skip-plan` is fired for T1 tasks; nothing fires
  it for one released from the queue (`add.rs:644`): it waits for the watchdog
  to block it and a person to resume it.

*Dispatcher and post-integration chain*

* `dispatch_locks` is unique per row and agent, so a second entry into the same
  edge is never served by the daemon; `stores/tasks/schema.yaml` says of
  `retry-integration` that it must go through `integration_queued` again, and
  `docs/agents-yaml-example.yaml:51-55` counts on the second entry. It takes
  `run-integration` by hand.
* A daemon that starts (a second one, or after a crash) writes skip-historical
  locks for every agent that never had a lock, over transitions that wait to be
  dispatched; one that dies while seeding leaves an agent half seeded, which the
  next takes for seeded.
* A retry whose predicate is false after the claim (`agents_run.rs:2867`,
  `:1641-1648`) leaves its lock open, and nothing looks at open locks again. The
  compare-and-swap of a retry is subject to ABA: a rate limit gives the lock the
  same status and attempt back, and a daemon with an older list claims it
  before its cooldown is over.
* The guard on a stale binary ends the poll after the claim
  (`agents_run.rs:1467`), and leaves the lock without a run.
* `docs/adr/0001-task-engine-lifecycle-and-integration.md:112-120` lists
  cargo_install as a resource of capacity 1; nothing takes it, and of two
  overlapping installs (daemon and `reconcile-accepted`) the older can promote
  last. `BinaryHasLanded` and `NeverOlder` are stated for those that do not
  overlap. The postcondition of cargo-install fails if another process already
  moved the row on.
* `agents_run.rs:2223-2229` pins the routing of a failure to the subscriber whose
  effect it concerns, by comparing statuses; as every step stays at `integrated`, a
  failing cleanup-worktree flips a row that is `schema_migrated` to
  `deploy_blocked`. `retry-deploy` wants the status `deploy_blocked`, which no
  longer occurs (`stores/tasks/README.md:31`).
* `reconcile-accepted` runs a finished row again; `cleanup-worktrees` takes an
  integrated row whose schema-migrate has not run; schema-migrate calls the
  `stores` of `PATH` while cargo-install promotes the private binary only.

*Auto-drive and watchdog*

* After reject and amend, `drive_pid` and the lock of the old drive are still on
  the row, and the sweep blocks it before a drive was started, where
  `agents_run.rs:2338` and `auto_drive.rs:1100` promise a re-entry after amend.
  `ResumedIsDriven` is therefore about resume.
* A row resumed while the marker of its last run is fresh (15 minutes, longer
  than `no_output_secs`) is skipped and then blocked as never recorded, or, if
  its disowned drive submits and dies, stranded in `in_review` (`stint = "early"`).
* Redispatches of the watchdog do not look at `drive.max_parallel`
  (`docs/agents-yaml-example.yaml:341-344`); a task whose wrap runner keeps
  failing is respawned without bound; a handoff does not reset `heartbeat_at`; a
  redispatch writes the lock after the child was started.

*External reviews*

* `flow/engine_runner.rs:412-414` has every pending row without a live claim
  eventually dispatched. A process that dies within a review leaves the row `running` for
  ever, and with it a place under the cap; its open lock hides a pending row;
  its recorded REVISE is never fired and the task stays in `in_review`.
  `TasksAreJudged` and `PendingIsDispatched` except this (`Orphaned`).
* `recover-stale-base` reads the held rows outside its transaction
  (`recover_stale_base.rs:98`) and updates without looking at the status: a row
  claimed or answered in between is superseded under its reviewer. More than
  `max_parallel` reviewers run then, an objection is ignored by accept, and
  `record_terminal` brings the row back.
* A REVISE about an older head moves a blocked task when another REVISE about
  the current head exists (`docs/engine-health.md:146`); one about an older head
  leaves the task in `in_review`, where the reconciler counts it as attended.

*Observations*

* `docs/adr/0002-inlet-triage-and-observation-routing.md:232` has at most one open gate per observation. Two adds
  that race both pass (`add.rs:33-76`), and then the end of one clears the gate
  of the other: also after a reframe that is not acknowledged, and also a hold.
* `docs/gatekeeper-design.md:287-289` rejects ratification until the review
  returns one of four verdicts; withdrawing the review, or `create`, does as well.
* `enforce_u1` (`observation_arch_gate.rs:85-150`) asks only that the named
  ruling is closed and of the clearing kind: an amend superseded before a person
  ratified it clears the gate, as does an older ruling while a newer is open
  (`clearable_by_ruling` is an ordinary field). A superseding ruling that leaves
  out an observation of the old one leaves it pending for good.
* Outputs 4 and 5 of `docs/gatekeeper-design.md`: `create_primitive_task` clears
  the gate, so that the observation is promoted to a second task; a hold does
  not hold back tasks in `in_review`.
* An observation that went through `needs_info` can be confirmed but not become
  ready, as ratify fires only on confirm; `investigated` has no way out; a third
  `needs_info` leaves the intake row where it is (`intake_route.rs:301`).
* A ready observation whose promotion failed once, or whose daemon died before
  minting, is never promoted: the sweep wants `task_id`. One that was closed
  before the poll still gets a task. Auto-resolve stops at the first linked
  observation it cannot move; a task closed out of band before an executor
  committed resolves nothing, because the commit a person names goes to the note
  of the history row and not where `auto_resolve_observation.rs:109` looks. Two daemons in the foreground can both mint at their start.

*Activation queue* (not modelled)

* `docs/subscriber-classes.md:44` wants `activate_queued` to run regardless; no
  shipped `agents.yaml` subscribes it; `drive` and auto-drive do not look at the
  lifecycle `queued` (`docs/task-engine-architecture.md:47`, `:304`); the guard of
  `drive` on `depends_on` (`drive.rs:1707-1753`) wants the transient status
  `accepted` while release counts `integrated` as done (`activate.rs:250`); resume
  unblocks a row without asking for capacity (`:263`); an abandoned row still
  armed in the queue makes the whole pass fail.

### Bounds, and why they are enough

Every bound is a constant named in its module, a conjunct of a guard, and stands
for nothing in the code. `CHECK_DEADLOCK` is off: when all rows are closed and
the bounds are spent the system stops.

*Lane.* Two tasks are what every conflict over `main` takes: one that merges and
one that was checked before, after or in between. Two attempts allow a retry
after each kind of failure, of a push and its rollback too. In `lane_push` one
task is reviewed and the other is not, so that both kinds meet; two reviews are
what it takes to find the older one again once the newer is superseded. The run
is cut in two places, named in its `.cfg`: one of the two tasks has one attempt
only (`OneRetries`), and a review is made while its task waits for one, in
review or blocked (`ReviewsWhileWaiting`); the theorems about the same properties
know no such limits. Work that a failed push leaves on `main` is met in both ways: the reset
failed, or a neighbour refreshed onto the merge lands with it after the reset.
`lane_review_lost` has neither cut and one review. No passing run claims that
reviewed work lands reviewed. One crash, one lapse and one act of a person each
leave the hazard they stand for: a held slot, a lock without its holder, a head or
a `main` that is not the one that was checked. The runs without crashes
(`lane_push`) and without pushes (`lane_people`, `lane_returns`) split the state
space, not the behaviours a property is about: a rollback needs a push, a held
slot needs a crash. Tasks are symmetric in `lane_people` only, where none is
reviewed.

*Workflow.* One drive is enough for everything a drive and the watchdog do to
each other after the drive's death, two for late answers and for drives that
start together. Two phases and two plans let a phase number mean two different
things; eight executions in `flow_work` are more than two limits of two, two
phases and one resume allow, so that it is the limits and not the bound that end
its loops. In `flow_lives` two executions let a phase be executed again after it
was superseded; with a stalled drive besides, it passed with 4.0 million states.
The second resume that `interrupted_status_for_drive_failure` needs to look
behind the first is in the theorems only. The real limits (5 plan reviews, 4
revisions) are constants, 1 or 2 here, so that both sides of each are reached.
Tier T1 has no passing run of its own; the theorems hold for it.

*Dispatch and deploy.* Two daemons and one lock are every race over that lock;
the theorems cover any number. Two edges and two attempts let a lock be claimed
for one edge and retried while the other is taken. In `deploy` cargo-install has
two attempts, so that a lock can cool down, and two rows let one build contain
the other; the daemons are one because builtins of two daemons on one row are
excluded by `OneRunAtATime`, and an operator beside it is in the run.

*Auto-drive.* Two processes are one drive and the one that should not be there.
Larger instances that passed: two faults, so that the replacement fails too (1.6
million states); three processes, two faults (6.7 million); two processes, one
fault, two returns (1.8 million). The run has one row: that rows which compete
for `max_parallel` all get their drive is not checked. The safety properties are
theorems, for any number of rows.

*External reviews.* Two attempts, one revision and one landing allow an older and
a newer verdict about the same or another head. A failing review and a death share
a bound. Larger instances that passed: two revisions and three acts of people (8.2
million states), two tasks and two daemons without people (8.5 million), a death
with two acts of people (7.7 million), the liveness properties with two revisions
(1.2 million) and with a failure besides a death (0.6 million). The safety
properties are theorems, for any bounds.

*Observations.* Two rulings are what a race of two adds, a superseding and a
ruling beside an older one take; three tasks are one that is minted, one after it
was abandoned, and one of a person. `MaxEvents` is one budget for what comes
from outside, so that each kind happens, alone. `observations_served` has two
observations and two events, because a task with two links takes one and the
death between the two closings the other. Its `.cfg` names what is cut for
that (`TwoLinked`): the second observation is neither reviewed nor ratified; the
review of the first comes with it from intake and may give it a task; statuses
auto-resolve treats like open or like resolved are left out; tasks that people
add link both, in either order, and one task at most is abandoned. The last two
keep a task for every mint: without them `ReadyIsPromoted` would wait for one the
bound denies. The daemon looks at rulings nowhere; they act on it by flags,
statuses and `task` only. Larger instances that passed: one observation, two
rulings, two tasks, two events (8.6 million states, safety). The eventualities
passed too with one observation under a ruling of any verdict, three tasks and
one event.

### Fairness

Nothing is asked of people, of the external reviewer as a person, or of a
restart after a crash: the eventualities of the daemon hold while it is up.

* `lane_returns`: weak fairness of the steps of a run (one thread that makes
  progress or crashes), of `Start` (a queued row is dispatched or run by hand in
  the end) and of the passing of time.
* `flow_work`: weak fairness of the steps of a started drive (agents answer: a
  runner has a time limit), of the daemon's dispatch of an active row without
  owner, and of the watchdog's sweep of rows whose owner is dead. A deactivated
  row is allowed to stay where it is, because the daemon dispatches none.
* `dispatch`, `deploy`: weak fairness of each daemon that is up (commands return:
  a builtin or agent has liveness limits) and of the time that makes a retry due.
  Which row it takes up first is left open, as each is claimed once and retried a
  bounded number of times.
* `autodrive`: weak fairness of the daemon's poll, of each drive process and of
  the thresholds that pass by time; a heartbeat or marker ages only when nobody
  writes it.
* `review`: weak fairness of a process inside a review, of the daemon's
  tick, of submit-wrap and of retry times. Minting is asked to be strongly fair:
  polls of the same daemon can take the tick's turn again and again, and the
  loop of the daemon alternates them.
* `observations_served`: weak fairness of the daemon's own steps.

## 4. What is proved

For any constants that satisfy the modules' assumptions: any set of tasks,
drives, daemons, agents, observations or rulings, all limits, any bounds.

| Theorem | Says | Argument |
|---|---|---|
| `IntegrationLaneProofs!TypeCorrect` | `[]TypeOK` | `TypeOK` is not inductive: `ResetMain` sets `main` to `base[t]`, which could be `NoSha`. With `BaseKnown` (a run past the capture has its base) it is. |
| `IntegrationLaneProofs!Fencing` | `NoForeignRelease`, TTLs lapsing included | tokens of different runs differ; a step deletes by token, or deletes lapsed rows; an attempt number, and so a token, is kept while the run is in its guarded section |
| `IntegrationLaneProofs!MutualExclusion` | `[]OneWriterOfMain`, if no TTL lapses under a run (`MaxLapses = 0`) | `Serial`: types, at most one lock row, none lapsed, and every run between acquire and release holds the row. One row names one owner. Without the hypothesis it is false: a lapsed TTL lets a second run in. |
| `IntegrationLaneProofs!MergesWhatWasChecked` | `LandsAsTested`, if besides nobody commits or locks by hand (`MaxOutside = 0`) | `HeadNamed` (the head a run checked is still the branch's head and is the one in its row) and `AllChecked` (a run that passed the freshness check is on the `main` of its evidence): the lock keeps other runs off `main` between check and merge |
| `LandingProofs!IntegratedStays` | `[]IntegratedIsOnMain`, if `MaxLapses = 0` | `Standing`: besides, the landing of a run that has merged is on `main`, on top of all integrated work, and the base it would roll back to holds all integrated work; so a rollback drops nothing reported. It needs `Serial` (one run at a time between merge and return) and `Answered` (a run's last attempt is in progress until it is answered). With a lapse it is false: the rollback of one run drops the next one's landing. |
| `LandingProofs!RowsMatchEvidence` | `[]RowMatchesEvidence`, if `MaxLapses = 0` | `Fitting`: a row is queued, blocked or integrated only while its run has nothing left to write; relies on `Answered` and `Standing` |
| `LandingProofs!LandsOnce` | `NeverLandsTwice`, if `MaxLapses = 0`; failing pushes and rollbacks, crashes and people on `main`, branches and rows are allowed | `AllBringNew`: a run that recorded a scope has work that is not on its base, is tested on that base, and past the freshness check `main` lacks the work; on `Serial`, so that nobody else writes `main` in between but people, who bring their own. With a lapse a second run may carry the work onto `main` between check and merge. |
| `LandingProofs!LandsSerially` | `ImplementsSerialLanding`, if `MaxLapses = 0` and `MaxOutside = 0` | each step maps to `Test`, `Land`, `TakeBack`, `Report` or a stutter of `SerialLanding`; `AllBounded` (attempts stay within the abstract bound) and `Tips` (what a run past its merge may reset is the tip of `main`) complete the mapping invariant |
| `TaskWorkflowProofs!TypeCorrect` | `[]TypeOK` | inductive as it is, with lemmas that a nonempty set of entries has a first and a last, so that the gate is written to an entry that exists |
| `TaskWorkflowProofs!NoPhaseSkipped` | `[]EveryPhasePassed` | `PhaseInv`: every phase number below `current_phase` has a passed entry. `cycles` only grows and gates stay, and the phase advances only on a PASS of the current one. |
| `TaskWorkflowProofs!ReviewTarget` | `[]ReviewHasTarget` | `TargetInv` adds the rows that will come back to code_review: a row blocked while it was there keeps its target until `resume` restores the status |
| `TaskWorkflowProofs!FinalReviews` | `ReviewsAreFinal` | from `TargetInv`: the entry a review writes to is the last one, which has no gate yet |
| `TaskWorkflowProofs!ApprovedPlan` | `[]ApprovedPlanRuns` | `ApprovedInv` adds the rows a drive failure interrupted beyond the plan review; a plan or a plan review is written only in statuses where approval is not claimed |
| `DispatchProofs!TypeCorrect` | `[]TypeOK` | part of `IInv` below |
| `DispatchProofs!NeverTwice` | `[]OneRunAtATime` | `Accounted`: work that a daemon holds has an open lock (`HeldIsOpen`); only an absent lock is inserted, and only one that is not open is claimed for a retry |
| `DispatchProofs!PolicyBounds` | `[]RunsWithinPolicy` | `Accounted` also counts: every run is charged to the lock's attempts, rate-limited, or the one an open lock stands for, and an attempt is left whenever it may run again (`ByPolicy`); a retry list holds only failures with an attempt left (`ListedInTime`); a retry that is claimed but not let through was not run (`NotRunYet`) |
| `DispatchProofs!SettledForGood` | `SettledStays` | from the same invariant: what is in a retry list and settled by now differs from its snapshot in status or attempt, so the compare-and-swap fails |
| `DeployProofs!DeployTyped` | `[]DeployTypeOK` | `DeployInv` puts together the dispatcher's `IInv`, `Grounded` (whatever is seeded, listed, claimed or run is about a row that has landed) and `OnLanded` (so is every job) |
| `DeployProofs!MarkedIsInstalled` | `[]BinaryHasLanded` | `Sure`, while no two installs have overlapped: a build that waits to be promoted has all of the present binary and the row it is for, and a job about to mark a row has it in the binary |
| `DeployProofs!BinaryGrows` | `NeverOlder` | from `Sure` |
| `AutoDriveProofs!TypeCorrect` | `[]TypeOK` | `Typed` adds that a live process has a row, and that the daemon has a launch exactly in its launching steps |
| `AutoDriveProofs!NoTwoDrives` | `[]OneDrivePerRow` | `Watched`, until a start is excused: a drive somebody looks after is the one on record (`Recorded`); one process at most starts on a row (`OneStarts`), and none drives beside one that found the row free (`CheckedAlone`); a daemon about to start a drive has read of the one there is, or sees it by its marker (`LaunchSees`), and one about to record its child knows of no other (`RecordKnows`) |
| `AutoDriveProofs!ResumeIsTrusted` | `ResumedIsDriven` | `Resumed`: until it is driven, a row resumed in peace has no process, no marker and no pid (`Idle`), no launch that read of one (`NotLaunched`), and no lock that the silent-zombie pass would take up (`Spared`) |
| `ReviewLaneProofs!TypeCorrect` | `[]TypeOK` | `TasksTyped`, `ReviewsSound` and `WorkersSound`; a process remembers only attempts that exist |
| `ReviewLaneProofs!ReviewedOnce` | `[]OneReviewer` | `WorkersSound`: who answers for an attempt holds it running or superseded (`Placed`), and only a pending or held attempt is claimed |
| `ReviewLaneProofs!CapRespected` | `[]CapHolds` | `Capped`: running rows are at most `Cap`; the reviewers of attempts that were not superseded inject into the running rows |
| `ReviewLaneProofs!AcceptanceIsReviewed` | `AcceptedAsReviewed` | a recorded verdict is about the head that was shown; the precheck's latest attempt at the head is the greatest one |
| `ReviewLaneProofs!LateReviewsAreHarmless` | `RevisesWhatStands` | a REVISE moves a task that is in review at the head it is about, or a blocked one when a REVISE about its head is on record |
| `ObservationsProofs!TypeCorrect` | `[]TypeOK` | part of `IInv` below |
| `ObservationsProofs!FlagHolds` | `[]FlagStaysUp` | `FlagUp` says it of `Released`, which unlike `LetGo` cannot be taken back: an update may withdraw the acknowledgement of a reframe, so what counts is that the gate can only be passed with one. `RulingsSound`: rulings cover logged observations, and only amends await a person. |
| `ObservationsProofs!PromotedOnce` | `[]OnePromotion` | `LooksFirst`: a daemon about to mint for an observation is the only one that mints, and none of the tasks minted for it stands |
| `ObservationsProofs!RatifiedAfterReview` | `RatifiedUnderReview` | from `FlagUp`: as long as no review let go the flag is up, and `Passes` then asks for a clearing ruling or an acknowledged reframe |
| `ObservationsProofs!DecisionsAreFinal` | `DecisionsStand` | from the same invariant, verb by verb: what a late report, a verdict or a shipped task may write leaves a decided status decided |

The inductive invariants of the newer modules are `IInv == TypeOK /\ Accounted`
(`DispatchProofs`), `IInv == TasksTyped /\ ReviewsSound /\ WorkersSound /\ Capped`
(`ReviewLaneProofs`) and `IInv == TypeOK /\ WorkSound /\ RulingsSound /\ FlagUp /\
LooksFirst /\ OnePromotion` (`ObservationsProofs`). All were checked with TLC on
the instances of the runs before they were proved. `TypeOK` of `Dispatch` and
`Observations` is proved and no longer part of a run.

The candidates for `Standing`, `Fitting`, `AllBringNew`, `Tips`, `Sure`, `Watched` and
`Resumed` were checked in the same way, the last two also with two rows and three
processes (20 million states, not to the end).

Each module's constants have one assumption (`LaneAssumption`,
`WorkflowAssumption`, `DispatchAssumption`, `DeployAssumption`,
`AutoDriveAssumption`, `ReviewAssumption`, `ObservationsAssumption`): null values
are none of the things they stand in for, limits are positive, bounds are
naturals; `Task` is finite in `ReviewLane`; the null sha of the lane is not the
empty history. The hypotheses `MaxLapses = 0` (no TTL lapses under a run) and
`MaxOutside = 0` (nobody commits, edits a branch or takes the lock by hand) are
part of the theorems that have them, and named above with what breaks without
them. The runs do not all satisfy them: `lane_push` has no
lapse and nobody by hand, `lane_people` has both and no push.

Every invariant and every action property of the runs is the subject of a
theorem, and so is the refinement. Only model-checked: liveness (`RunsReturn`,
`ComesToRest`, `RetriesAreTaken`, `DeploysSettle`, `WorkIsTakenUp`,
`TasksAreJudged`, `PendingIsDispatched`, `ReadyIsPromoted`, `ShippedIsResolved`),
which with ENABLED is out of the prover's reach; and the disagreement, which is a
counterexample. No model computes by recursion over data, so there is nothing
that would need induction over it.

## 5. What is not modelled, and the plan

Left out of the modelled components: `depends_on` and tier changes of a task in
work, free-form `update` of tasks, the statuses after `accepted` as seen from the
workflow (the lane starts at `integration_queued`), runner selection and
rate-limit fallback of drives, telemetry and briefs as text; two runs of the lane
for one task; the validation and detaching of daemons; several rows under the
cap of auto-drive, and tasks that share a worktree; the lifecycle of intake rows
and its cap of two recon rounds, merge targets, clusters, cascades and the
waiting columns of observations, the router that writes an intake row from an
agent's answer; several daemons in `Observations` and `AutoDrive`. The lane takes
what shell commands and git may answer as a choice, and does not model a
conflict resolved by hand inside a worktree otherwise than as an edit of the
branch.

Not modelled at all, for good: rendering, the command line and the terminal
interface (they decide nothing), schemas and DDL (pure), migrations (run alone),
runners (child processes, a choice of answers), policies and notifications. They
are more than half of the source. The activation queue is not modelled
because its guards bind nobody in the program as it stands: drives, auto-drive
and resume go past them, and no shipped configuration runs it (section 3), so a
model of the queue alone would show what the program does not keep.

What is left, in this order:

1. `OneDrivePerRow` without the excuse of two coinciding starts, for the starts
   the daemon makes itself; what holds of the lane when a lock does lapse, as a
   theorem about the landings of the run that lost it.
2. `AutoDrive` with two rows under the cap, once its state space is cut down.
3. The intake lifecycle with its recon rounds, beside `Observations`.
4. The dispatcher's work of `Dispatch` inside `AutoDrive` and `Observations`,
   which model the locks they need themselves.
