# Sidecar: models, model checking and proofs

Sidecar watches a repository (CI, git, logs, metrics, uptime, schedules), decides
with a model whether a signal deserves a repair, lets a coding agent work in an
isolated git worktree, freezes its work as a *repair change set*, verifies and
evaluates that change set, and commits, publishes or records it. This directory
holds TLA+ models of that program, the TLC instances that check them, and
TLAPS proofs of the results that matter most.

Paths below are relative to `src/internal/` unless they start with `README.md`,
`schema.sql` or `openspec/`.

## 1. The system

| Component | State it keeps | Operations | Hard behaviours | What makes it correct |
|---|---|---|---|---|
| Improvement loop `loop/loop.go` | none of its own: locals of one `Run` call, the once-a-day retention stamp | `Run`, its failure handlers, `discardWorktree`, the detached `runReview` | concurrent calls on one database, a process that stops anywhere, ignored database errors, tools that touch the approved index | one task row per failure, nothing published unapproved or ungated, every call ends, status and notifications and audit trail agree |
| Repair change set `changeset/` | the index, the branch tip and the working tree of the worktree | `Prepare`, `VerifyPrepared`, `Commit`, `VerifyCommitted` | self-commits, moved HEAD, commit hooks, excluded artifacts | the commit is the approved snapshot |
| Task worktree `worktree/` | a directory and the branch `sidecar/<id>` | `Create`, cleanup, `DeleteBranch` | every git command may fail half way | no leaked or prematurely deleted branch |
| Delivery `output/delivery.go` | the remote branch, the change request | `ResolveDelivery`, `push`, `Publish` | lost answers, an existing request, label failures, sources that disagree | the request is opened where the branch was pushed, and what is on the remote is recorded and kept |
| Task store `store/task.go`, `schema.sql` | `tasks`, `task_events`, token sums | insert, status update, append, sum | check-then-insert races, faults | unique signal key, forward-only status |
| Verification `verification/` | the processes of a command, a bounded output buffer | `Preflight`, `RunOne` | timeouts, children that outlive their shell, output limit | a result tells what happened; all commands pass or the repair is dropped |
| Evaluator `evaluate/` | the tool guard's counters and result cache, two phases | `Evaluate`, `runPhase`, `ParseVerdict` | turn limits, repeated calls, no verdict, cancellation | a verdict was said, a missing one is never a pass |
| Triage `triage/`, configuration `config/` | none | read a stream, parse, resolve the autonomy level | malformed, doubled, empty or missing answers | a failed triage only suggests |
| Agent trace `agenttrace/`, `store/trace.go` | pending batch, sequence numbers, request count | `Handle`, `Flush`, `append`, retention | a store that fails in the middle, a process that stops | what is stored is a beginning of the run, and every request is metered once |
| Daemon `daemon/`, `cli/attach.go` | a bounded channel of signals, `done` | `Start`, `Stop`, `run` | a full channel, stop during a call | signals are handled one at a time, in order |
| Adapters `adapter/*` | seen sets, `lastSeen`, windows, firing state | poll, tail, fire, stop | restarts, rotation, re-arming, cancelled sends | what lasts is reported, and once |
| Workspace memory `memory/`, `store/memory.go` | memory rows | `Save`, `Update`, `Remove`, `Retrieve` | insert-then-delete update, embedding failures, two callers | no memory is lost, doubles have a reason |
| Notifications `notify/` | filters | `Fire` | a failing or stalling transport | every subscriber is called |

How they interact: an adapter sends a signal into the daemon's channel; the
daemon's only goroutine calls `Loop.Run`; `sidecar task` calls it from a process of
its own. `Run` calls the store, triage, the worktree, the agent runtime (an
external library that runs the tools and calls back `OnStop`), the change set,
verification, the evaluator, delivery and the dispatcher, in that order, and a
trace collector observes the agents. Concurrent calls meet in three places only:
the database, the repository's branches, and the provider. The adapters share
nothing but the channel, and the helpers of one call never run at the same time.

The modules follow that structure. `RepairLoop` is the composition of everything a
call does, at the granularity at which calls, tools, crashes and reviewers
interleave: triage, verification, evaluation, traces and delivery appear in it as
one or two steps with all their outcomes. A module of its own opens each of those
steps and checks what `RepairLoop` takes for granted about it. In front of it,
`Daemon` and a module per adapter model the way of a signal to the handler. Two
abstract specifications say what is promised without the mechanism: `TaskLifecycle` of a
task and its change request, `DurableTrace` of the trace of an agent run.

## 2. Modules

### The loop

| Module | What it is |
|---|---|
| `ChangeSet` | operators for one worktree: repositories as records of HEAD, branch tips, index and working tree; what tools may do to them; the operations of `changeset.go` |
| `RepairLoop` | `Loop.Run` for a set of runs, with the database, git, the provider and the notifications; properties |
| `TaskLifecycle` | the abstract specification: what a task row and its change request may do |
| `MCRepairLoop` | the definitions the configurations need: keys, base tree, sets of policies and decisions |

Every call of `Run` has a program counter `pc`; one action is one stretch of `Run`
between two points where something else can intervene, so an action contains
everything its stretch does. `Dedup` is the existence check, `CreateTask` the insert;
`BudgetGate`, `Triage`, `StartRunning` follow the code; `AttachWorkspace`,
`CreateWorktree` and `CreateWorktreeFails` are the two workspaces; `Preflight` looks
for the commands; `CodingFails`, `CodingIncomplete` and `CodingCompletes` are the
three ways the agent ends; `PrepareChangeSet`, `PrepareFails`, `CommandPasses`,
`CommandFails`, `IndexDrifted` and the `Evaluation...` actions are the gates;
`NothingToCommit`, `CommitRepair` and `CommitFails` are the commit closure;
`PushBranch`, `PushFails`, `OpenChangeRequest`, `ReuseChangeRequest` and
`RequestFails` are the delivery.

All of the code's endings have one shape: an audit event, the status, the
notification, then the worktree and its branch. `Conclude` decides an ending
(`plan`), and `Record`, `Notify`, `DiscardWorktree` and `Exit` carry it out one step
at a time, so that a crash can fall between any two of them. The endings differ in
`plan.drop`: the worktree is discarded before the status (incomplete coding, nothing
to auto-commit), after the notification, or not at all.

`ToolActs` is every tool that runs in the worktree: the coding agent's, a
verification command, the evaluator's. It edits files, stages, commits, and moves
HEAD to another branch, to history the base is not part of, and back. `CommitResults`
lets a commit hook replace the committed tree. `Review` is the detached reviewer.
`AutomationOpensCR` is a provider that opens change requests by itself. `Crash` stops
a process at any point; a daemon crash takes its reviewers with it. `NewDay` is
midnight.

Data is abstract. A tree gives each path a version; two trees have the same manifest
and digest exactly when they are equal, so comparing snapshots is comparing trees.
Excluded paths are a set. Event rows are the set of their types. Token counts are
small numbers a stage reports, 0 standing also for usage that was never reported.

Switches say what the environment may do: `DBFaults` (a database call fails; the code
ignores the error of every status write but the first, and of every event),
`GitFaults` (git fails to set up, inspect or clean up a worktree), `Crashes`,
`ExternalCRs`, `Memory` (reviewers exist), and `AgentRefs` (where tools move HEAD).

`TaskLifecycle` knows two things per task: the status column and the change request.
The status only moves forward, one key owns one row, a change request is opened only
while the task runs, a draft ends in `needs_review`, a completed task has no draft, a
suggestion has nothing. `RefinesLifecycle` maps its variables to `task` and `cr`.

### The way of a signal

| Module | State and actions |
|---|---|
| `Daemon` | `attach.go` (`main`, `at`), the pollers and cron goroutines (`looping`, `offered`), `d.signals` (`channel`), `d.run` (`handler`). `StartAdapter`/`StartFails`/`StartHandler` are `Daemon.Start`; `Send` and `GiveUp` are the two branches of an adapter's select; `Interrupt`, `StopAdapter`, `AdapterStopped`, `CloseDone` and `ProcessExits` the end of `attach`, where the schedule adapter's `Stop` waits for its running jobs |
| `GitAdapter` | `lastSeen`, the batch of a poll, and a repository that people commit to, check out, rewrite and collect (`ancestors`, `branch`, `current`). `Poll` is `newCommits`, `SendCommit` one turn of its loop |
| `CIPollers` | the three pollers as one module with `Provider` telling them apart: the fetched page (`todo`), the seen map, the signal under way (`pending`), and the loop's key check (`keys`, `dropped`). `Restart` loses the seen map |
| `GitLabContext` | the three requests that enrich a GitLab failure, each read up to a limit (`JobPage` jobs and the lines of 64 KiB of a log, `MaxRead`; a page of files; a page of pipelines), and the pure functions on what was read: `ExtractErrorContext`, `ReadDiff`, `DetectFlake`, applied to every log, diff and history up to a bound |
| `MetricsAdapter` | `state` of the backend's rules, the poll (`pc`), `seen`, and what is still to send. `PollAnswers` is the diff of a poll against `seen`, `PollFails` an early return |
| `Uptime` | a round over the endpoints in order: `CheckHealthy`, `CheckFailing`, `Diagnose`, one `AskPeer` per question of `checkCross`, `Send`. Endpoints change health between any two |
| `LogTail` | a followed file: inodes, offset, half-written lines; rename, truncation, removal; `Reopen`, `ReadLines` |
| `LogProcess` | a followed command: its shell and child, the pipe, os/exec's copy, the scanner, the killer goroutine, `Stop` |
| `LogMatcher` | what `processLine` and the re-arm loop share under the lock: armed rules, `lastMatch`, the rate window |

### What a call relies on

| Module | State and actions |
|---|---|
| `Triage` | the stream of a triage run, piece by piece, with runtime errors and usage: prose, `null`, objects with or without `should_act` and `change_type`, broken and cut ones. `Decide` decodes what was collected, a missing field as Go's zero value, and resolves the autonomy level |
| `AgentTrace` | the collector (`trace`: sequence, text buffer, pending batch, failure flag, request count), the runtime that emits events through a queue, the loop that drains it, and the database with its three outcomes (done, failed, done but answered with an error). A role tells coding agent, evaluator and detached reviewer apart, because the loop reacts differently to a failure of each |
| `DurableTrace` | the abstract specification of a trace: rows are the first events and only grow, a failure ends the numbering, what was buffered then is written as a whole or not at all, a complete trace has a row for every event. `TraceIsDurable` maps it to the collector: `numbered` is the sequence number, `rows` the stored numbers, and the state comes from the phase of the run and the failure flag; the buffer, the queue and the database's answers disappear |
| `TraceRetention` | expired rows, the time since the last batch, quiet time, the batches so far; `CleanUp` is one batch, `Restart` forgets the stamp. `PerTick` and `MaxQuiet` describe a workload: the code bounds neither the rows of a day nor the time without a task |
| `Verification` | one `RunOne` after the other: processes, their group and the pipe they hold, the buffer, the deadline; `Finish`, `Kill` and `FinishKilled` are the select of `RunOne` |
| `Evaluator` | the investigation and the reserved request: the runtime's turns, the guard's counters, the observer, the parse of the collected text, the classification of errors |
| `DeliveryTarget` | the resolution of provider, repository, base branch and token from every configuration, remote, signal and environment |
| `Notifications` | `Fire` over the configured notifiers, with the connection and answer of each |
| `MemoryStore` | `Save`, `Update` and `Remove` by several callers, one step per call to the embedder or the database |

External code is marked so in `PROJECT.json`: git as people use it, providers, the
operating system's pipes and processes, the agent runtime, the mail server.

### Composition for TLC

`MCSignals` and `MCWork` put the modules of the last two tables together. The parts
of each share no state: two adapters meet only in the channel, which `Daemon` has
with adapters that send at any time, and the services of a call run one after the
other and hand on results. Interleaving them would multiply state spaces without
adding a behaviour to any part. So `part`, chosen in the initial state, says which part
a behaviour explores, and the others stay where they started; what is checked is
every behaviour of every part. Fairness is each part's own, conditional on `part`.
`MCWork` explores `AgentTrace` three times: with traces stored and usage per request, with
traces switched off (`Untraced`), and with a runtime that reports sums (`Summed`).

`MCCIPollers` is one more instance of `CIPollers`, with two projects of one provider.

### Proof modules

`RepairLoopProofs` and `RepairOutcomeProofs` extend `RepairLoop`, `BudgetProofs` extends
`RepairLoopProofs`; `AgentTraceProofs` extends `AgentTrace`. `LogProofs` and
`SignalsProofs` extend `MCSignals`, `EnrichmentProofs` extends `MCWork`, and `WorkProofs`
extends `EnrichmentProofs` and `AgentTraceProofs`: their theorems are about the
composition that TLC runs, so each part is proved about under the names and the instances
that the run uses.
Section 4 says what they prove.

## 3. Runs

| Run | Instance | What it shows |
|---|---|---|
| `one_task` | one run, all 6 policies, all 6 triage answers, 2 commands, a source path and an excluded path with 2 versions each, tools with git, hooks, crashes; 3.0 million states | `TypeOK`; the remote branch is the approved snapshot and holds no excluded change (`PublishedIsApproved`); nothing is delivered past the gate (`NothingShipsUngated`); unjudged repairs wait for a person (`HumanGated`); branches that remain hold approved work (`OnlyApprovedBranchesRemain`); what was announced is what is recorded (`NotifiedAsRecorded`); the status is never ahead of the audit trail (`AuditExplainsOutcome`) |
| `one_task_faults` | one run, triage skips or ships, database, git and process may fail; 0.6 million states | `RefinesLifecycle` under every fault; a pushed branch is never deleted (`PushedBranchIsKept`) |
| `dedup` | two daemon runs and two other processes, one key shared by one of each | the unique index decides the race (`AtMostOneTaskPerKey`), and a call that returns without a row leaves one with its key behind (`OnlyDuplicatesAreDropped`). What became of that row is not part of it: its call may have crashed, and the failure is not tried again |
| `daemon_runs` | two daemon runs with detached reviewers, two commands, tools that leave git alone (what they do to it is `one_task`'s subject), budget 1, at most 1 token per stage, midnight, no crash and no database fault; `FairSpec`; 0.29 million states | `EveryCallReturns`, `EveryTaskSettles`; `BudgetOvershootBounded`: the overshoot is limited to three stages per process past the gate and one review per run |
| `signals` | the parts of `MCSignals`, every safety property of the adapters; 1.1 million states | below |
| `signals_live` | the same parts, smaller, with fairness | below |
| `work` | the parts of `MCWork` | below |
| `branch_switch` | one run, tools may move HEAD | *violated*: `PublicationIsVerified` |
| `reused_change_request` | one run, automation opens change requests | *violated*: `NeedsReviewIsDraft` |
| `crash` | one run, `FairSpec`, crashes | *violated*: `EveryTaskSettles` |
| `signal_keys` | two CircleCI projects, the loop's key check | *violated*: `DuplicatesWereWorkedOn` |
| `triage_silence` | `Triage` by itself, answers of one piece | *violated*: `OnlyTheModelDrops` |

### `signals` and `signals_live`: can a signal be lost, doubled, reordered, or wrong?

| Property | Of | What it says |
|---|---|---|
| `NothingLostOrReordered` | `Daemon` | what an adapter has begun to send is handled in its order and without a gap, whatever is full |
| `CommitsAreAccountedFor` | `GitAdapter` | a commit is reported after what it is built on; what `lastSeen` hides was reported or there at the start |
| `RememberedIsReported` | `CIPollers` | a run is sent at most once by a process, and what the seen map hides was handed on or is being handed on |
| `SignalledOncePerEpisode` | `MetricsAdapter` | one signal per firing of an alert, failed polls in between included |
| `OutageIsReal` | `Uptime` | failure type and cross check are true of endpoints that did not change during the round |
| `NoBurstMissed`, `QuietPeriodRespected` | `LogMatcher` | an armed rate rule fires on the line that completes a burst; no rule fires again before its quiet period, and the rate rule only on a burst |
| `FollowedLogsAreRead` | `LogTail`, `LogProcess` | lines are scanned in order, once, and without a gap until the file is rotated; a command whose goroutine has returned was read to its end |
| `EverySignalIsHandled` | `Daemon` | a signal that is offered is handled, unless the command is interrupted |
| `StoppingEnds` | `Daemon`, `LogProcess` | `Daemon.Stop` ends with cron jobs blocked on a full channel; the logs adapter's `Stop` ends with commands still running |
| `WhatLastsIsReported` | all adapters | a commit that stays, a failure that stays on the page, an alert, an outage, a line of the file end up reported; a log rule that fired is armed again |

### `work`: what a call takes for granted

| Property | Of | What it says |
|---|---|---|
| `EnrichmentIsFaithful` | `GitLabContext` | of what was read of a log, the excerpt keeps the tail and the first errors within the limit; a diff is whole, for the files that were listed, or absent; a flake alternates among other pipelines than the failed one. Checked against reference definitions on every input of the bounds. What is not read is a divergence, see there |
| `TriageFailsSafe` | `Triage` | no failure and no cut, broken or repeated answer drops a signal or ships a change: a drop needs `null` or one object that decodes without `should_act: true`, shipping an object that names the type and the operator's configuration. That an object may be silent about `should_act` is what `triage_silence` shows |
| `TraceIsDurable` | `AgentTrace` | the collector implements `DurableTrace`, whatever it buffers and whichever write fails, is lost, or is committed without an answer. That the rows are a beginning of the run's events (`StoredIsInitialSegment`), and all of them after a run without a failure (`DrainedIsComplete`), follows; both are proved as theorems of their own |
| `SpendIsAccounted` | `AgentTrace` | a request is never counted twice, is counted when nothing failed, and a run whose usage cannot be stored asks no more (the reviewer excepted, see *Divergences*) |
| `BacklogBounded` | `TraceRetention` | the expired rows in the table never exceed those of one round (a day and the longest quiet time) and, for every batch so far, the excess of a round over a batch: a workload that fits a batch has a bounded table, any other lets it grow at that rate; a failed batch does not count |
| `ResultsAreTrue`, `CommandsEnd` | `Verification` | long output does not fail a command and is marked as cut; a timeout leaves no process of the group; only the last result is a failure; the commands end unless a detached child holds the output |
| `VerdictWasSaid`, `ReviewIsBounded` | `Evaluator` | a pass or reject was said by the model in the phase that decides; incomplete only after the reserved request; the guard never lets a call run twice, requests stay within the limit, usage is summed over both phases |
| `DeliveryIsResolved` | `DeliveryTarget` | the change request is opened where the branch is pushed; a missing or contradictory source is a failure, never a guess |
| `SubscribersAreCalled` | `Notifications` | when `Fire` returns, every subscriber was called once, in the order of the configuration, whatever the others did |
| `FiresReturn` | `Notifications` | `Fire` returns unless a mail server stalls for ever |
| `MemoryIsKept` | `MemoryStore` | a memory nobody removed always has a row, of its category; two rows only during an update, after a failed delete or when two callers met |

Each module's `TypeOK` is part of `SignalsTypeOK` or `WorkTypeOK`.

### Bounds, and why they are enough

*The loop.* Runs share nothing except keys, the token sum and the daemon's turn, so
the change-set properties are checked with one run and a rich repository, the database
properties with several runs and a poor one. Two versions tell changed from unchanged;
one source and one excluded path tell filtered from kept; two commands make "all but
the last" differ from "all". Two runs with a shared key and two without make both
deduplication answers meet. `MaxCost` bounds what one stage reports.

*Signals.* A channel of capacity 2 with a cron, a polling and a joining adapter of two
signals each fills up and blocks all three; capacity 1 in `signals_live`. Two old and
two new commits on two branches (`Fresh`, bounding `latest`) make a checkout, a rewrite
and a collected `lastSeen` possible between two polls. `MaxRun` runs and a page of
`Window` let one run scroll off; `MaxRestarts` one lost seen map. Three rules of which
two share an identifier; one place in the outgoing channel, so that a send blocks. Three
endpoints are the least for which the cross check has two peers; the four healths of
`signals` and the three of `signals_live` cover every failure type and both answers of a
peer. `Threshold` 3 in a `RateWindow` of 2 ticks, with quiet periods of 1 and 2, let
window, quiet period and re-arming overlap; ages saturate. Two inodes and five lines let
a rotation fall before, within and after a read. A pipe of one line blocks its writer.

*Work.* The lengths of `GitLabContext` stand for 150 lines, 30 of tail, 100 of fallback,
2 around an error, and so on, scaled so that excerpts overlap, collide with the tail and
run over the limit; every log up to `LogLines`, every file list and every history in the
bounds is an input. `MaxRead` is below `LogLines` and `JobPage` below `Jobs`, so that a
log loses its end and a failed job is not listed. `MaxPieces` 2 is enough for a doubled
answer, for prose or a cut object around one, and for `null` by itself. `MaxPending` 3 stands for 32 events and `QueueCap` for the
observer's queue: a flush happens in the middle, at the end, and with an empty buffer;
`MaxRequests` and `MaxSequence` bound a run. `Cap` and `PipeSize` 2 with `MaxWrites` 4
writes cut the output within a write. `MaxTurns` 4 and two calls, of which one is a
verification command, reach every reason of the guard for stopping; one turn, and the
limit of eight as the smaller of the two, are left to the proof. `MaxEntries` is one configured repository next to every
remote and environment. `MaxFires` 3, `MaxRows` 4 and `MaxCalls` 4 let a cancelled call
precede another and two callers meet in the middle of an update. With `Day`, `MaxQuiet`,
`PerTick` and `Batch` a round has five rows more than a batch, so the backlog grows;
`MaxBatches` bounds how often.

### Fairness

`RepairLoop!FairSpec` gives weak fairness to the steps of each call, nothing else: Go
runs a runnable goroutine, and model turns, commands and requests have turn limits and
timeouts. Tools, reviewers, midnight, automation and crashes are not fair; an agent that
acts for ever is excluded by the turn limit.

In `SignalsFairSpec` each part has the fairness of its own goroutines, under the
condition that the part is the one explored: tickers tick, the handler returns (that is
what `EveryCallReturns` says of it), the killer goroutine, the copier and the scanner
run. Four actions have strong fairness, each because a select or an answer outside the
program can be available again and again without staying so: `Daemon!Send` (Go's
channels serve blocked senders in order), `MetricsAdapter!PollAnswers` (a backend that
keeps answering now and then), and the CircleCI step that finds a pipeline's workflows
ended. People, endpoints, alerts, writers of logs and interrupts are not fair. `work`
has the fairness of `Verification` and of `Notifications`: deadlines pass, and
goroutines run; commands, children and servers need not do anything.

Deadlock is checked in the runs of the loop, where `Terminated` is the one state in
which everything has ended. It is off where parts are composed and in `signal_keys`:
an adapter that was told to stop and a call of a service that has returned really stop.
That nothing stops early there is what the liveness properties say.

### What the violated runs say

* `branch_switch`. `VerifyCommitted` compares `base..HEAD`, `push` sends the branch
  `sidecar/<id>`. When a tool has run `git checkout -b other` the two differ: the
  commit goes to `other`, the comparison succeeds, and the remote receives the task
  branch as it was, possibly with what the tool had committed there. `README.md:140-143`
  promises the comparison of what is pushed. `PublishedIsApproved` is the part that
  holds: with HEAD on the task branch.
* `reused_change_request`. `Publish` takes an open change request as it is; the task
  becomes `needs_review` although the request may be ready to merge.
* `crash`. Nothing looks for rows that a stopped process left `pending` or `running`;
  `attach` itself stops without waiting for the handler.
* `signal_keys`. `SignalKey` is `ci.failure:<id>` without provider or project. CircleCI
  numbers pipelines per project, so the second project's failure with a number is
  dropped as a duplicate of the first's.
* `triage_silence`. `json.Unmarshal` takes an object without `should_act`, such as `{}` or
  the error object of a gateway, and `null` when it is the whole text; the field keeps its
  zero value and the signal is recorded as skipped. The comment at `triage/triage.go:47`
  says that triage "on any failure" acts "rather than dropping the signal", and
  `README.md:81` the same of malformed and empty answers.

### Divergences

Further places where a document or a comment says something the code does not do. Each
is a definition of the named module, false in the model; listing it in the
configuration of the run that explores the module yields the counterexample.

| Definition | What is said | What happens |
|---|---|---|
| `GitAdapter!HistoryIsNotReprocessed` | "pre-existing history is never reprocessed" (`README.md:62`) | `lastSeen..HEAD` after a checkout holds old commits of the other branch (`adapter/git/git.go:86`) |
| `Uptime!CrossFailMeansAllDown` | "`cross:FAIL` (all endpoints down)" (`README.md:377`) | one peer down is enough (`adapter/uptime/diagnostics.go:194`) |
| `GitLabContext!LargeDiffNamesEveryFile` | "larger diffs SHALL fall back to the complete changed-file list" (`openspec/changes/ship-sidecar-enablement/specs/ship-sidecar-enablement/spec.md:35`) | one page of the reply is read (`adapter/gitlabci/gitlabci.go:340`) |
| `GitLabContext!LogKeepsItsEnd` | "tail line %q must always be retained" (`adapter/gitlabci/enrichment_test.go:32`), of the job's log | `io.LimitReader` reads the first 64 KiB: a longer log has lost its end before the extract is made (`adapter/gitlabci/gitlabci.go:254`) |
| `GitLabContext!FailedJobIsNamed` | signals include "the failed job" (`openspec/changes/ship-sidecar-enablement/specs/ship-sidecar-enablement/spec.md:32`) | the first 20 jobs are listed (`adapter/gitlabci/gitlabci.go:210`) |
| `TraceRetention!BatchTakesAll` | "the retention job deletes it in a bounded batch" (`openspec/changes/durable-agent-execution-tracing/specs/durable-agent-execution-tracing/spec.md:185-186`) | 1000 rows a batch and a batch a day: what a day and a quiet time have more stays, and adds up (`loop/loop.go:991-994`) |
| `Triage!DuplicatesAreTolerated` | "tolerating code fences and duplicate responses" (`triage/triage.go:177-178`) | first `{` to last `}`: two objects do not parse and the default applies |
| `Triage!TriageSpendCounts` | "(input+output+cache) across triage + coding + evaluator" (`README.md:628`) | triage counts input and output only, and nothing when the answer does not parse (`triage/triage.go:84`) |
| `MCWork!ReviewerIsStopped` | no further model requests after usage persistence fails (`openspec/changes/durable-agent-execution-tracing/specs/durable-agent-execution-tracing/spec.md:132-133`) | the reviewer's run is not cancelled (`loop/loop.go:962`) |
| `AgentTrace!SpendIsRecorded` | "Record evaluator token spend even on error" (`loop/loop.go:571`) | a request is counted before it is stored, so after a failed store the aggregate is skipped too |
| `Evaluator!FailureIsError` | a provider, runtime or persistence failure is `evaluation_error` (`openspec/changes/deterministic-agent-completion/specs/deterministic-agent-completion/spec.md:147-149`) | text is parsed before the error is looked at (`evaluate/evaluate.go:272`) |
| `Evaluator!CancellationIsError` | so is a cancellation (same lines) | `context.Canceled` is taken for a boundary (`evaluate/evaluate.go:379`) |
| `Evaluator!VerdictEndsInvestigation` | "A valid verdict terminates the evaluator immediately" (`openspec/changes/deterministic-agent-completion/design.md:102-103`) | the run is drained before its text is parsed (`evaluate/evaluate.go:334`) |
| `DeliveryTarget!TokenIsOfProvider` | `GITHUB_TOKEN` or `GITLAB_TOKEN` "according to the resolved provider" (`openspec/changes/provider-aware-change-delivery/design.md:31-32`) | the fallback prefers `GITHUB_TOKEN` (`loop/loop.go:1017`) |

Four more appear as the conditions under which a property holds. A *rename* loses the
lines written to the old file since the last read (`adapter/logs/logs.go:176`): with
`Rotations = {"rename"}` and two inodes `WhatLastsIsReported` is false. A *child* that
inherited the pipe of a followed command blocks `Stop` (`adapter/logs/logs.go:224`,
whose comment says `Stop` "unblocks promptly"): with `HasChildren = {c1}` `StoppingEnds`
is false. A *detached* child of a verification command keeps `RunOne` waiting past its
timeout (`verification/verification.go:163`), the exception in `CommandsEnd`. A *mail
server* that accepts and stalls blocks `Fire` (`notify/email.go:56`, though
`notify/notify.go:31` says a notifier "must not block for more than a few seconds"), the
exception in `EveryFireReturns`. And a memory's old row whose delete failed is never
deleted later, though `memory/store_adapter.go:146-148` calls the doubling brief:
`DuplicatesAreExplained` keeps such memories apart (`undeleted`).

Met while reading, not modelled: `README.md` says `suggest-only` runs have `bash`,
`loop.go:358-364` gives them `read_file` only; `README.md` says commits use the Sidecar
identity with signing off, `changeset.go:85-88` leaves both to git's configuration.

## 4. Proofs

Theorems are about the specification of the run; none uses its fairness. They hold for
every value of the constants that satisfies the modules' named assumptions: constants
have their types, `NoTree` is no tree, `NoKey` no key. The hypotheses beyond that are in
the statements.

| Theorem | Statement | Argument |
|---|---|---|
| `RepairLoopProofs!TypeCorrect` | `[]TypeOK` | inductive; one step per action, on lemmas that `Prepare`, commits and tools stay inside `Repos` and that `Goto`, `Log`, `Spend` and `Conclude` keep their variables' types |
| `OneTaskPerKey` | `[]AtMostOneTaskPerKey` | `RowInv` adds that a call past the insert owns a row; without it the final status write could make a row appear without the uniqueness check |
| `PublicationApproved` | `[]PublishedIsApproved` | `PublicationInv` adds that nothing is pushed before `deliver`, that a snapshot never holds an excluded change, and that at `deliver` the tip is the snapshot; after the push neither moves |
| `GateHolds` | `[]NothingShipsUngated` | `GateInv` follows the change set from the entry of the gate (commands counted, diff handed over, never empty) to its exit (passed, or empty with the branch at the base) and to the outcome |
| `HumanGateHolds` | without `ExternalCRs`, `[]HumanGated` | `HumanInv` ties change request, draft flag, decided status and written status; it needs `GateInv` to know that a draft is never empty |
| `LoopRefinesLifecycle` | without `ExternalCRs`, `RefinesLifecycle` | `LifecycleInv` gives the row's status from the program counter and restricts what may have been decided; then each step is a lifecycle step or leaves row and request alone |
| `RepairOutcomeProofs!PushedBranchSurvives` | `[]PushedBranchIsKept`, under every fault | `KeptInv`: a call that ships has its branch from the worktree on, and one that has pushed never plans to discard it |
| `DroppedWereDuplicates` | without `DBFaults`, `[]OnlyDuplicatesAreDropped` | relative to `RowInv`: a call that got past the insert owns a row, so one that returns without was refused by another's, whose call may since have ended in any way |
| `ToldAsRecorded` | without `DBFaults`, `[]NotifiedAsRecorded` | `ToldInv`: the plan's notification fits its status, the row has that status from `Record` on, and `Notify` comes once, whichever of the two orders of recording and discarding was taken |
| `AuditIsComplete` | without `DBFaults`, `[]AuditExplainsOutcome` | `AuditInv`: the events that exist and those the plan appends explain the planned status; a draft has its reason, a delivery its verified change set |
| `RemainingBranchesAreApproved` | without `GitFaults`, `[]OnlyApprovedBranchesRemain` | `BranchInv`: no branch without an attached worktree to discard it with, and a call that is not going to discard its branch has the approved, non-empty snapshot at its tip |
| `BudgetProofs!BudgetOvershootIsBounded` | finitely many runs, without `DBFaults`: `[]BudgetOvershootBounded` | the tokens spent alone say nothing of what is still coming, so `DebtInv` counts the payments the calls past the gate may still make (`Debts`, a finite set of pairs of call and stage): spent tokens plus all debts at the highest price stay below the bound. `Accounted`, one step per action: tokens are spent only by paying a debt, debts are made only while the budget lasts. `TurnInv` (one call of the daemon at a time, a reviewer only after coding) limits the debts to three per process and one per run |
| `AgentTraceProofs!StoredEventsAreABeginning` | `[]StoredIsInitialSegment` | `Segmented`: the buffer is empty or holds exactly what follows the stored rows; a lemma per operation of the collector, for each outcome of the database |
| `DrainedTraceIsComplete` | `[]DrainedIsComplete` | `Whole`: as long as nothing failed, rows and buffer together are all events |
| `RequestsCountedOnce` | `[](SpendCountedOnce /\ RequestsAreMetered /\ NoRequestAfterFailure)` | that no request is counted twice says nothing of what is still on its way: `CountedOnce` adds the usage events in the queue and the request under way to those counted, and the sum is at most, without a failure exactly, what was begun; `RowsAreCounted` makes the rows the first counted requests; `FailureStops` says a failure has cancelled the runtime |
| `TraceIsTyped` | `[]TypeOK` | `TypedInv` bounds what the queue and the usage of the run may still add; that the buffer stays below a batch needs `MaxPending` not to be zero, which is the only bound that is not just a number |
| `CollectorImplementsLog` | `TraceIsDurable` | by refinement: `Segmented` gives the rows as `1..n`, a lemma per operation says that rows and numbers only grow (`DrainGrows`) and what the last flush may leave; a step before the failure is a `Record`, the flush a `Close`, after a failure nothing but the flush changes a row |
| `WorkProofs!TraceTableIsBounded` | `[]BacklogBounded`, for every workload | `Backlog`: what is expired has expired since the last batch or is the excess of an earlier one; a batch turns the rows of a round into at most one more excess. Nothing is assumed of how workload and batch compare: when a round fits a batch the excess is zero and the bound is a constant |

The theorems of `SignalsProofs` are about `SignalsSpec`. `SignalsInv` is the conjunction of
an inductive invariant per part; `PartsMoveAlone` shows that a step of the composition is a
step of one part and a stutter of the others, so each part is proved by itself.

| Theorem | Statement | Argument |
|---|---|---|
| `SignalsTypeCorrect` | `[]SignalsTypeOK` | part of each invariant below; that the channel keeps its capacity and the rate window its size is in it |
| `SignalsArriveInOrder` | `[]NothingLostOrReordered` | `DaemonInv`: a polling adapter offers its last signal or none (`OffersItsLast`), what it has in the channel is in its order (`QueueInOrder`), and until it is stopped none is missing between the two (`NoGap`); it begins with nothing (`NotStartedYet`), so a failed start that stops adapters in reverse order keeps it |
| `CommitsAccounted` | `[]CommitsAreAccountedFor` | `GitInv`: what is reachable is closed under parents, whatever is rewritten or collected (`AncestryIsClosed`); commits are numbered after their parents (`NumbersGrow`); the batch in hand is built on what was reported before it (`BatchIsBuilt`) |
| `RunsReportedOnce` | `[]RememberedIsReported` | `CIInv`: what was sent is in the seen map and not up for sending again (`SentIsRemembered`), whatever page the provider returns |
| `AlertSignalledOnce`, `SuppressedWasSignalled` | `[]SignalledOncePerEpisode`, `[]SeenWasSignalled` | the seen set tells exactly whose counter is one already |
| `OutagesAreReal` | `[]OutageIsReal` | `UptimeInv`: an endpoint is in hand exactly while it is diagnosed, and the peers still to be asked are its (`OneFailingEndpoint`); when nothing changed, `down` is the number of those already asked that are down (`CountsPeers`) |
| `BurstsAreNoticed`, `RulesKeepQuiet` | `[]NoBurstMissed`, `QuietPeriodRespected` | `MatcherInv`: the window the code prunes only on a match has as many young entries as an exact one (`SameCounts`), a disarmed rate rule keeps no matches (`RateRule`), and a rule that is armed has been quiet for its period (`QuietWhenArmed`); the second is an action property |
| `LogsAreFollowed` | `[]FollowedLogsAreRead` | `FileInv`: lines are numbered in the order they are written (`LinesGrow`), what is past the read position is later than all that was scanned (`ScannedIsBehind`), and before a rotation the position is exactly behind the scanned lines (`FollowsTheFile`); `CommandInv`: `Wait` has returned only when the shell is gone and the copying ended, which takes that nobody can write any more or that a line was too long (`WaitMeansOver`) |

The other theorems of `WorkProofs` are about `WorkSpec`, with `WorkInv` and
`WorkPartsMoveAlone` in the same way.

| Theorem | Statement | Argument |
|---|---|---|
| `WorkIsTyped` | `[]WorkTypeOK` | part of the invariant of each part; most of the work is that the results of folds have a type at all: the excerpt of a log, the files of a diff, the entries of a dispatcher |
| `EnrichmentHolds` | `[]EnrichmentIsFaithful` | `EnrichmentInv`, a fact about the fold behind each of the three functions. *Log*: for every text that was read (`LogIsRead`), the tail is reserved before the context of an error is taken, so tail and first errors both fit (`KeepLine`, by induction over the lines). *Diff*: what has been summed is the sum of the files read so far, and once it is too large it stays so (`AddFile`). *Flake*: the statuses kept are those of the first finished other pipelines, in their order (`KeepStatus`), so neighbours among the statuses are neighbours among the pipelines |
| `TriageIsSafe` | `[]TriageFailsSafe` | inductive with the types: the decision is one step, and `StreamEndsSafely` follows it through every fall-back; what is decided on is the only thing that closes a brace (`ObjectIsAlone`), and `null` names no type that ships (`NullShipsNothing`) |
| `SpendAccounted` | `[]SpendIsAccounted` | `TraceInv`, which is `SpendInv` of the instance of `AgentTraceProofs` with the constants of the way explored; that its steps are those of `MCWork`'s own instance is shown action by action |
| `TracesAreSound`, `TracesAreDurable` | `[](StoredIsInitialSegment /\ DrainedIsComplete /\ BacklogBounded)`, `TraceIsDurable` | the results of `AgentTraceProofs` for each of the three ways of tracing, by the same instances |
| `ResultsTellTheTruth` | `[]ResultsAreTrue` | `ChecksInv`: the shell is in the group until its exit is known (`ShellIsKnown`), what is kept is what was written up to the cap (`BufferIsFull`), a command begins only after those before it passed (`RunsAfterPassed`); a result is true when it is recorded (`RecordedIsTrue`) and is not touched again |
| `VerdictsWereSaid`, `ReviewsAreBounded` | `[]VerdictWasSaid`, `[]ReviewIsBounded` | `ReviewInv`: a verdict in the text is the one object the model said in this phase (`TextIsSaid`), requests and tool calls stay within the phase's limits (`PhaseIsBounded`), the final phase ends without its request for a reason only (`FinalRequestIsMade`), the usage of the phases so far never exceeds the requests and equals them when it is reported one by one (`UsageIsSummed`), and a call that was executed is remembered as seen (`ExecutedWasSeen`) |
| `DeliveryMeetsBranch` | `[]DeliveryIsResolved` | inductive as it stands; on the lemmas that `Known` picks the first candidate that is known (`KnownOfThree`, `KnownOfTwo`) |
| `EverySubscriberCalled` | `SubscribersAreCalled` | `NotifyInv`: the calls of the round so far are exactly the subscribed entries that the round has reached, in order (`CallsInOrder`); entries are a sequence however many notifications are left out (`EntriesAreASequence`) |
| `MemoriesAreKept` | `[]MemoryIsKept` | `MemoryInv`: every row of a memory that was not removed has itself or a later one left, and an update deletes a row only when it has a successor (`NewestIsKept`); what an update has read is its row's category (`ReadIsCurrent`). On a memory whose calls did not meet and whose deletes worked there is one call at a time (`CallsMeetNowhere`), it has read the only row (`ReadIsTheOnly`), and two rows are an update about to delete the old one (`TwoRowsAreUpdated`) |

The hypotheses are needed. `reused_change_request` is a counterexample to `HumanGated`
with automation; a database that fails loses status and events by design of the code
(errors are ignored), and a `git branch -D` that fails leaves what it should remove.

Every invariant, every action property and both refinements that a passing run checks
are proved. What is only model-checked is liveness, because the prover does not reason
about fairness and `ENABLED`: `EveryTaskSettles`, `EveryCallReturns`,
`EverySignalIsHandled`, `StoppingEnds`, `WhatLastsIsReported`, `CommandsEnd` and
`FiresReturn`.

Induction over data is done without the induction theorems of the library, whose operator
parameters the provers cannot instantiate. `EnrichmentProofs` proves induction for *sets* of
numbers (`Induction`, `BoundedInduction`) from well-foundedness, and shows for `FoldLeft`
that the sequence of its intermediate results exists (`FoldExists`). As an operator cannot
be passed to a lemma either, there is one such lemma per fold (`FilesFold`, `EntriesFold`
and so on), each with the same proof. What is wanted is then an ordinary induction over
that sequence.

Some definitions are written by position so that they can be reasoned about without
induction: the youngest matches of `LogMatcher` (`Younger`), the order of
`NothingLostOrReordered`, and the first known candidate of `DeliveryTarget` (`Known`).
The assumptions of the modules say what kind of value each constant is, and where they
say more it is what the code provides: sets of endpoints,
files and patterns are finite, the bound on the lines of a file is not zero, an order of
adapters is a sequence of them, a batch of trace events has at least one (it is 32 in the
code), the tail of a log excerpt is no longer than the excerpt, no field of the autonomy
configuration is called "none", and the configured notifications are a list. How much work
there is is never assumed: the rows that expire and the time without a task are
parameters of `TraceRetention`, and its bound is in terms of them.

## 5. Not modelled, and assumptions

* What a command or the evaluator reads is not state: that tests run on the working
  tree and not on the approved index is a hazard the models do not see.
* Ignored errors of status writes leave a row pending or running; `RefinesLifecycle`
  permits that, and the properties that would not are for a database that answers.
* Weakenings named in the properties: `OnlyDuplicatesAreDropped`, `NotifiedAsRecorded`
  and `AuditExplainsOutcome` are for a database that answers,
  `OnlyApprovedBranchesRemain` for git cleanups that work.
* In `ReuseChangeRequest` and `AutomationOpensCR` the base and the repository of the
  request are the delivery target's.
* Configuration: parsing, defaults and most of the validation (`config/config.go`); the
  modules start from configurations that passed it.
* Workspace memory: retrieval, ranking and formatting, which only read; embedding
  providers, which appear as a call that may fail.
* Exclusion patterns are a set of paths: the glob matcher is string work. Messages,
  prompts, skills, HTTP encodings, the cut of long texts in a trace are left out.
* `output/pr.go` has no caller in the program.
* The agent runtime is a library: it appears as the tools it runs, the events it emits
  and the ways it ends.

## 6. What is left

1. The validation of configurations as functions against the rules the documents give,
   composed with `DeliveryTarget` and `Triage`, which take its results for granted.
2. Memory retrieval: workspace and session scopes, the token budget of what is injected.
3. The loop with the details of its services: `Evaluator` and `Verification` as
   refinements of the steps of `RepairLoop` they stand for.
