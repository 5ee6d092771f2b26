------------------------------ MODULE RepairLoop ------------------------------
(***************************************************************************)
(* The improvement loop, internal/loop Loop.Run, for a set of runs that    *)
(* share one database and one repository.  A run handles one signal: an    *)
(* attached daemon handles its signals one after the other; a `sidecar     *)
(* task` invocation, or a signal seen by another attached daemon, is a     *)
(* process of its own.  A run that has passed the budget gate triages the  *)
(* signal, lets the coding agent work in a worktree, freezes the repair as *)
(* a staged change set, verifies and evaluates it, and commits and         *)
(* publishes it or turns it into a suggestion.  Nearly every decision ends *)
(* in the same order of side effects: audit event and status, then         *)
(* notification, then worktree and branch.                                 *)
(***************************************************************************)
EXTENDS Integers, FiniteSets, ChangeSet

CONSTANTS
  Runs,         \* the signals handled, each by one call of Loop.Run
  DaemonRuns,   \* those the attached daemon handles, one at a time
  Keys, NoKey,  \* deduplication keys; NoKey: the signal is never deduplicated
  SignalKey,    \* the key of each run's signal
  Policies,     \* the configurations a run may have loaded
  Decisions,    \* the answers triage may give
  Commands,     \* how many verification commands are configured
  AgentRefs,    \* where tools in the worktree may move HEAD, {} if they do not run git
  Memory,       \* a reviewer is started when the coding agent stops
  Budget,       \* daily token budget, 0 for none
  MaxCost,      \* bound on the tokens one model stage reports
  DBFaults,     \* a database call may fail
  GitFaults,    \* git may fail to set up, inspect or clean up a worktree
  Crashes,      \* a process may stop at any point
  ExternalCRs   \* automation may open a change request for a pushed branch

AllPolicies ==
  [onError : {"suggest", "fail", "draft-change-request"}, verify : BOOLEAN]
Shipping == {"pull-request", "auto-commit"}
AllDecisions == {"skip", "invalid", "notify", "suggest-only"} \cup Shipping

ASSUME RepairLoopAssumption ==
  /\ DaemonRuns \subseteq Runs
  /\ NoKey \notin Keys
  /\ SignalKey \in [Runs -> Keys \cup {NoKey}]
  /\ Policies \subseteq AllPolicies
  /\ Decisions \subseteq AllDecisions
  /\ AgentRefs \subseteq Refs
  /\ Commands \in Nat /\ Budget \in Nat /\ MaxCost \in Nat
  /\ {Memory, DBFaults, GitFaults, Crashes, ExternalCRs} \subseteq BOOLEAN

Terminal == {"completed", "failed", "skipped", "suggested", "notified", "needs_review"}
Statuses == {"none", "pending", "running"} \cup Terminal
Notes == {"completed", "failed", "skipped", "suggested", "notified", "budget_exceeded"}
Verdicts == {"not_run", "pass", "reject", "incomplete", "error"}
EventTypes ==
  {"budget_exceeded", "triage", "invalid_autonomy", "workspace_prepared",
   "trace_persistence_failed", "coding_incomplete", "coding_completed",
   "repair_change_set_prepared", "repair_change_set_failed",
   "repair_change_set_verified", "verification_failed", "verification_succeeded",
   "evaluation", "evaluation_passed", "evaluation_rejected",
   "evaluation_incomplete", "evaluation_error", "incomplete_handoff",
   "suggestion", "branch_pushed", "delivery_failed",
   "change_request_created", "change_request_reused"}
Points ==
  {"idle", "create", "budget", "triage", "start", "workspace", "preflight",
   "coding", "prepare", "verify", "evaluate", "commit", "deliver", "request",
   "record", "notify", "discard", "exit", "returned", "dead"}

VARIABLES
  (* the database *)
  task,       \* status column of each run's task row, "none" before the insert
  events,     \* types of the task_events rows of each task
  spent,      \* tokens recorded today for the workspace
  (* the calls of Loop.Run *)
  pc,         \* where each call is
  policy,     \* the configuration it runs with
  autonomy,   \* triage's answer
  approved,   \* the snapshot changeset.Prepare returned
  cmd,        \* the next verification command
  verdict,    \* evaluationStatus
  draft,      \* draftChangeRequest
  plan,       \* how the call ends, once decided
  reviewing,  \* runs whose detached reviewer is still working
  (* git and the provider *)
  wt,         \* the worktree directory of each task
  branch,     \* whether the local branch sidecar/<id> exists
  repo,       \* the repository as seen from the worktree
  judged,     \* the staged diff the evaluator was given
  pushed,     \* tree of the remote branch
  cr,         \* change request open for the branch
  notes       \* notifications fired

dbVars   == <<task, events, spent>>
callVars == <<policy, autonomy, approved, cmd, verdict, draft, plan, reviewing>>
gitVars  == <<wt, branch, repo, judged>>
outVars  == <<pushed, cr, notes>>
vars     == <<pc, dbVars, callVars, gitVars, outVars>>

Plans == [status : Terminal, note : Notes, drop : {"never", "early", "late"},
          log : SUBSET EventTypes]
NoPlan == [status |-> "failed", note |-> "failed", drop |-> "never", log |-> {}]

TypeOK ==
  /\ task \in [Runs -> Statuses]
  /\ events \in [Runs -> SUBSET EventTypes]
  /\ spent \in Nat
  /\ pc \in [Runs -> Points]
  /\ policy \in [Runs -> AllPolicies]
  /\ autonomy \in [Runs -> AllDecisions \cup {"none"}]
  /\ approved \in [Runs -> Trees \cup {NoTree}]
  /\ cmd \in [Runs -> Nat]
  /\ verdict \in [Runs -> Verdicts]
  /\ draft \in [Runs -> BOOLEAN]
  /\ plan \in [Runs -> Plans]
  /\ reviewing \subseteq Runs
  /\ wt \in [Runs -> {"none", "attached", "removed", "stuck"}]
  /\ branch \in [Runs -> BOOLEAN]
  /\ repo \in [Runs -> Repos]
  /\ judged \in [Runs -> Trees \cup {NoTree}]
  /\ pushed \in [Runs -> Trees \cup {NoTree}]
  /\ cr \in [Runs -> {"none", "draft", "ready"}]
  /\ notes \in [Runs -> SUBSET Notes]

Init ==
  /\ task = [r \in Runs |-> "none"]
  /\ events = [r \in Runs |-> {}]
  /\ spent = 0
  /\ pc = [r \in Runs |-> "idle"]
  /\ policy \in [Runs -> Policies]
  /\ autonomy = [r \in Runs |-> "none"]
  /\ approved = [r \in Runs |-> NoTree]
  /\ cmd = [r \in Runs |-> 1]
  /\ verdict = [r \in Runs |-> "not_run"]
  /\ draft = [r \in Runs |-> FALSE]
  /\ plan = [r \in Runs |-> NoPlan]
  /\ reviewing = {}
  /\ wt = [r \in Runs |-> "none"]
  /\ branch = [r \in Runs |-> FALSE]
  /\ repo = [r \in Runs |-> FreshRepo]
  /\ judged = [r \in Runs |-> NoTree]
  /\ pushed = [r \in Runs |-> NoTree]
  /\ cr = [r \in Runs |-> "none"]
  /\ notes = [r \in Runs |-> {}]

-----------------------------------------------------------------------------
(* Helpers.                                                                *)

Goto(r, point) == pc' = [pc EXCEPT ![r] = point]

\* AppendTaskEvent: its error is ignored, so a failing database loses rows.
Log(r, types) ==
  \E lost \in (IF DBFaults THEN SUBSET types ELSE {{}}) :
    events' = [events EXCEPT ![r] = @ \cup (types \ lost)]

\* A model stage's usage; 0 also stands for usage nobody reported.
Spend == \E cost \in 0..MaxCost : spent' = spent + cost

\* The call has decided how it ends; log is appended together with the status.
Conclude(r, log, status, note, drop) ==
  /\ plan' = [plan EXCEPT ![r] =
       [status |-> status, note |-> note, drop |-> drop, log |-> log]]
  /\ Goto(r, IF drop = "early" THEN "discard" ELSE "record")

\* Mutant: a failed task keeps its worktree branch.
FailKeepingBranch(r, log) == Conclude(r, log, "failed", "failed", "never")

Fail(r, log) == Conclude(r, log, "failed", "failed", "late")
FailChangeSet(r) == Fail(r, {"repair_change_set_failed"})
\* Mutant: a suggestion announced as a failure.
SuggestAsFailure(r) == Conclude(r, {"suggestion"}, "suggested", "failed", "late")

Suggest(r) == Conclude(r, {"suggestion"}, "suggested", "suggested", "late")
\* Mutants: the failed delivery leaves no event, or throws the branch away.
FailDeliverySilently(r) == Conclude(r, {}, "failed", "failed", "never")
FailDeliveryDiscarding(r) == Conclude(r, {"delivery_failed"}, "failed", "failed", "late")

FailDelivery(r) == Conclude(r, {"delivery_failed"}, "failed", "failed", "never")

Continue(r, point) == Goto(r, point) /\ UNCHANGED plan

Ships(r) == autonomy[r] \in Shipping

\* Mutant: signals without a key are compared like the others.
TaskExistsEmptyKey(key) == \E q \in Runs : SignalKey[q] = key /\ task[q] # "none"

TaskExists(key) ==
  key # NoKey /\ \E q \in Runs : SignalKey[q] = key /\ task[q] # "none"

Active(r) == pc[r] \notin {"idle", "returned", "dead"}

-----------------------------------------------------------------------------
(* From the signal to the coding agent.                                    *)

\* The daemon's handler runs in its only goroutine.
Dedup(r) ==
  /\ pc[r] = "idle"
  /\ r \in DaemonRuns => \A q \in DaemonRuns : ~ Active(q)
  /\ \/ TaskExists(SignalKey[r]) /\ Goto(r, "returned")
     \/ (DBFaults \/ ~ TaskExists(SignalKey[r])) /\ Goto(r, "create")
  /\ UNCHANGED <<dbVars, callVars, gitVars, outVars>>

\* Mutant: no unique index.
CreateTaskUnchecked(r) ==
  /\ pc[r] = "create"
  /\ task' = [task EXCEPT ![r] = "pending"]
  /\ Goto(r, "budget")
  /\ UNCHANGED <<events, spent, callVars, gitVars, outVars>>

\* The unique index refuses a second row; any insert error ends the call.
CreateTask(r) ==
  /\ pc[r] = "create"
  /\ \/ /\ ~ TaskExists(SignalKey[r])
        /\ task' = [task EXCEPT ![r] = "pending"]
        /\ Goto(r, "budget")
     \/ /\ DBFaults \/ TaskExists(SignalKey[r])
        /\ Goto(r, "returned")
        /\ UNCHANGED task
  /\ UNCHANGED <<events, spent, callVars, gitVars, outVars>>

\* Mutant: the budget itself may still be spent.
BudgetGateOffByOne(r) ==
  /\ pc[r] = "budget"
  /\ \/ /\ Budget > 0 /\ spent > Budget
        /\ Conclude(r, {"budget_exceeded"}, "skipped", "budget_exceeded", "never")
     \/ /\ Budget = 0 \/ spent <= Budget
        /\ Continue(r, "triage")
  /\ UNCHANGED <<dbVars, policy, autonomy, approved, cmd, verdict, draft,
                 reviewing, gitVars, outVars>>

BudgetGate(r) ==
  /\ pc[r] = "budget"
  /\ \/ /\ Budget > 0 /\ spent >= Budget
        /\ Conclude(r, {"budget_exceeded"}, "skipped", "budget_exceeded", "never")
     \/ /\ DBFaults \/ Budget = 0 \/ spent < Budget
        /\ Continue(r, "triage")
  /\ UNCHANGED <<dbVars, policy, autonomy, approved, cmd, verdict, draft,
                 reviewing, gitVars, outVars>>

Triage(r) ==
  /\ pc[r] = "triage"
  /\ Spend
  /\ Log(r, {"triage"})
  /\ \E decision \in Decisions :
       /\ autonomy' = [autonomy EXCEPT ![r] = decision]
       /\ \/ decision = "skip" /\ Conclude(r, {}, "skipped", "skipped", "never")
          \/ decision = "invalid"
               /\ Conclude(r, {"invalid_autonomy"}, "failed", "failed", "never")
          \/ decision = "notify" /\ Conclude(r, {}, "notified", "notified", "never")
          \/ decision \in Shipping \cup {"suggest-only"} /\ Continue(r, "start")
  /\ UNCHANGED <<task, policy, approved, cmd, verdict, draft, reviewing,
                 gitVars, outVars>>

\* The one status write whose error is not ignored: the call returns at once.
StartRunning(r) ==
  /\ pc[r] = "start"
  /\ \/ task' = [task EXCEPT ![r] = "running"] /\ Goto(r, "workspace")
     \/ DBFaults /\ Goto(r, "returned") /\ UNCHANGED task
  /\ UNCHANGED <<events, spent, callVars, gitVars, outVars>>

AttachWorkspace(r) ==
  /\ pc[r] = "workspace"
  /\ ~ Ships(r)
  /\ Log(r, {"workspace_prepared"})
  /\ Goto(r, "coding")
  /\ UNCHANGED <<task, spent, callVars, gitVars, outVars>>

CreateWorktree(r) ==
  /\ pc[r] = "workspace"
  /\ Ships(r)
  /\ wt' = [wt EXCEPT ![r] = "attached"]
  /\ branch' = [branch EXCEPT ![r] = TRUE]
  /\ repo' = [repo EXCEPT ![r] = FreshRepo]
  /\ Log(r, {"workspace_prepared"})
  /\ Goto(r, IF policy[r].verify THEN "preflight" ELSE "coding")
  /\ UNCHANGED <<task, spent, callVars, judged, outVars>>

\* When `git rev-parse HEAD` fails, the directory is removed, the branch stays.
CreateWorktreeFails(r) ==
  /\ pc[r] = "workspace"
  /\ Ships(r)
  /\ \E leaked \in {FALSE, GitFaults} : branch' = [branch EXCEPT ![r] = leaked]
  /\ Conclude(r, {}, "failed", "failed", "never")
  /\ UNCHANGED <<dbVars, policy, autonomy, approved, cmd, verdict, draft,
                 reviewing, wt, repo, judged, outVars>>

Preflight(r) ==
  /\ pc[r] = "preflight"
  /\ \/ Continue(r, "coding")
     \/ Commands > 0 /\ Fail(r, {"verification_failed"})
  /\ UNCHANGED <<dbVars, policy, autonomy, approved, cmd, verdict, draft,
                 reviewing, gitVars, outVars>>

-----------------------------------------------------------------------------
(* The coding agent.                                                       *)

\* Tools run in the worktree while the agent codes, while a verification
\* command runs and while the evaluator investigates.
ToolActs(r) ==
  /\ pc[r] \in {"coding", "verify", "evaluate"}
  /\ Ships(r)
  /\ \E g \in ToolMoves(repo[r], AgentRefs) : repo' = [repo EXCEPT ![r] = g]
  /\ UNCHANGED <<pc, dbVars, callVars, wt, branch, judged, outVars>>

\* OnStop starts the reviewer when the runtime stops with reason "completed".
AgentStops(r) ==
  \E review \in {{}, IF Memory THEN {r} ELSE {}} : reviewing' = reviewing \cup review

\* The runtime cannot be built or started, the trace cannot be persisted, the
\* agent fails other than by exhausting its turns, or git cannot be asked what
\* changed.
CodingFails(r) ==
  /\ pc[r] = "coding"
  /\ Spend
  /\ AgentStops(r)
  /\ \E log \in {{}, {"trace_persistence_failed"},
                 IF Ships(r) THEN {"verification_failed"} ELSE {}} : Fail(r, log)
  /\ UNCHANGED <<task, events, policy, autonomy, approved, cmd, verdict, draft,
                 gitVars, outVars>>

\* No normal end, or nothing said.  A run that said something becomes a
\* suggestion.  Here the worktree goes first.
CodingIncomplete(r) ==
  /\ pc[r] = "coding"
  /\ Spend
  /\ AgentStops(r)
  /\ Log(r, {"coding_incomplete"})
  /\ \/ Conclude(r, {}, "failed", "failed", "early")
     \/ Conclude(r, {"suggestion"}, "suggested", "suggested", "early")
  /\ UNCHANGED <<task, policy, autonomy, approved, cmd, verdict, draft,
                 gitVars, outVars>>

CodingCompletes(r) ==
  /\ pc[r] = "coding"
  /\ Spend
  /\ reviewing' = reviewing \cup (IF Memory THEN {r} ELSE {})
  /\ Log(r, {"coding_completed"})
  /\ \/ ~ Ships(r)
          /\ Conclude(r, {"suggestion"}, "suggested", "suggested", "never")
     \/ Ships(r) /\ HasChanges(repo[r]) /\ Continue(r, "prepare")
     \/ Ships(r) /\ ~ HasChanges(repo[r]) /\ Continue(r, "commit")
  /\ UNCHANGED <<task, policy, autonomy, approved, cmd, verdict, draft,
                 gitVars, outVars>>

\* The detached reviewer records its usage after the call has moved on, or
\* stops with the process and records nothing.
Review(r) ==
  /\ r \in reviewing
  /\ Spend
  /\ reviewing' = reviewing \ {r}
  /\ UNCHANGED <<pc, task, events, policy, autonomy, approved, cmd, verdict,
                 draft, plan, gitVars, outVars>>

-----------------------------------------------------------------------------
(* The change set: prepared once, then verified and evaluated.             *)

\* Mutant: the last command is never run.
NextCheckOffByOne(r, done) ==
  IF done + 1 < Commands THEN "verify" ELSE "evaluate"

\* What comes after the commands up to `done` have passed.
NextCheck(r, done) ==
  IF done < Commands THEN "verify" ELSE "evaluate"

PrepareChangeSet(r) ==
  /\ pc[r] = "prepare"
  /\ BaseIsAncestor(repo[r])
  /\ LET g == Prepared(repo[r])
         point == IF Manifest(g.index) # {} /\ policy[r].verify
                  THEN NextCheck(r, 0) ELSE "commit"
     IN  /\ repo' = [repo EXCEPT ![r] = g]
         /\ approved' = [approved EXCEPT ![r] = StagedSnapshot(g)]
         /\ judged' = IF point = "evaluate"
                      THEN [judged EXCEPT ![r] = StagedSnapshot(g)] ELSE judged
         /\ Goto(r, point)
  /\ Log(r, {"repair_change_set_prepared"})
  /\ UNCHANGED <<task, spent, policy, autonomy, cmd, verdict, draft, plan,
                 reviewing, wt, branch, outVars>>

PrepareFails(r) ==
  /\ pc[r] = "prepare"
  /\ \E g \in HalfPrepared(repo[r]) : repo' = [repo EXCEPT ![r] = g]
  /\ FailChangeSet(r)
  /\ UNCHANGED <<dbVars, policy, autonomy, approved, cmd, verdict, draft,
                 reviewing, wt, branch, judged, outVars>>

\* After every command, and after the evaluator, the index is compared with
\* the approved snapshot before the result is looked at.
IndexDrifted(r) ==
  /\ pc[r] \in {"verify", "evaluate"}
  /\ GitFaults \/ ~ VerifyPrepared(repo[r], approved[r])
  /\ FailChangeSet(r)
  /\ IF pc[r] = "evaluate" THEN Spend ELSE UNCHANGED spent
  /\ UNCHANGED <<task, events, policy, autonomy, approved, cmd, verdict, draft,
                 reviewing, gitVars, outVars>>

\* The last command that passes hands the staged diff to the evaluator.
CommandPasses(r) ==
  /\ pc[r] = "verify"
  /\ VerifyPrepared(repo[r], approved[r])
  /\ cmd' = [cmd EXCEPT ![r] = @ + 1]
  /\ judged' = IF NextCheck(r, cmd[r]) = "evaluate"
               THEN [judged EXCEPT ![r] = StagedSnapshot(repo[r])] ELSE judged
  /\ Goto(r, NextCheck(r, cmd[r]))
  /\ Log(r, {"verification_succeeded"})
  /\ UNCHANGED <<task, spent, policy, autonomy, approved, verdict, draft, plan,
                 reviewing, wt, branch, repo, outVars>>

CommandFails(r) ==
  /\ pc[r] = "verify"
  /\ VerifyPrepared(repo[r], approved[r])
  /\ Fail(r, {"verification_failed", "repair_change_set_failed"})
  /\ UNCHANGED <<dbVars, policy, autonomy, approved, cmd, verdict, draft,
                 reviewing, gitVars, outVars>>

\* The evaluator's answer v, with the index found intact.
Evaluated(r, v) ==
  /\ pc[r] = "evaluate"
  /\ VerifyPrepared(repo[r], approved[r])
  /\ Spend
  /\ verdict' = [verdict EXCEPT ![r] = v]
  /\ UNCHANGED <<task, policy, autonomy, approved, cmd, reviewing, gitVars, outVars>>

EvaluationPasses(r) ==
  /\ Evaluated(r, "pass")
  /\ Log(r, {"evaluation", "evaluation_passed"})
  /\ Continue(r, "commit")
  /\ UNCHANGED draft

EvaluationRejects(r) ==
  /\ Evaluated(r, "reject")
  /\ Log(r, {"evaluation", "evaluation_rejected"})
  /\ Suggest(r)
  /\ UNCHANGED draft

LogUnevaluated(r, v) ==
  Log(r, IF v = "error" THEN {"evaluation", "evaluation_error"}
         ELSE {"evaluation", "evaluation_incomplete", "incomplete_handoff"})

PreservesAsDraft(r) ==
  policy[r].onError = "draft-change-request" /\ autonomy[r] = "pull-request"

\* No verdict: the preservation policy decides.
EvaluationPreserved(r) ==
  \E v \in {"incomplete", "error"} :
    /\ Evaluated(r, v)
    /\ LogUnevaluated(r, v)
    /\ PreservesAsDraft(r)
    /\ draft' = [draft EXCEPT ![r] = TRUE]
    /\ Continue(r, "commit")

\* Mutant: without a verdict the last command and the evaluator are tried once
\* more, without a limit.
EvaluationRetried(r) ==
  \E v \in {"incomplete", "error"} :
    /\ pc[r] = "evaluate"
    /\ VerifyPrepared(repo[r], approved[r])
    /\ Spend
    /\ verdict' = [verdict EXCEPT ![r] = v]
    /\ LogUnevaluated(r, v)
    /\ ~ PreservesAsDraft(r)
    /\ cmd' = [cmd EXCEPT ![r] = Commands]
    /\ Continue(r, "verify")
    /\ UNCHANGED <<task, policy, autonomy, approved, draft, reviewing, gitVars, outVars>>

EvaluationAbandoned(r) ==
  \E v \in {"incomplete", "error"} :
    /\ Evaluated(r, v)
    /\ LogUnevaluated(r, v)
    /\ ~ PreservesAsDraft(r)
    /\ IF policy[r].onError = "fail" THEN Fail(r, {}) ELSE Suggest(r)
    /\ UNCHANGED draft

-----------------------------------------------------------------------------
(* Commit and publication.                                                 *)

\* No snapshot was taken, or its manifest is empty.
Empty(r) == approved[r] \in {NoTree} \cup {t \in Trees : Manifest(t) = {}}

NothingToCommit(r) ==
  /\ pc[r] = "commit"
  /\ Empty(r)
  /\ Conclude(r, {}, "completed", "completed",
              IF autonomy[r] = "auto-commit" THEN "early" ELSE "late")
  /\ UNCHANGED <<dbVars, policy, autonomy, approved, cmd, verdict, draft,
                 reviewing, gitVars, outVars>>

\* The commit of HEAD, whatever hooks made of it, is the approved tree.
CommitRepair(r) ==
  /\ pc[r] = "commit"
  /\ ~ Empty(r)
  /\ VerifyPrepared(repo[r], approved[r]) /\ CanCommit(repo[r])
  /\ \E g \in CommitResults(repo[r]) :
       /\ VerifyCommitted(g, approved[r])
       /\ repo' = [repo EXCEPT ![r] = g]
  /\ Log(r, {"repair_change_set_verified"})
  /\ \/ autonomy[r] = "pull-request" /\ Continue(r, "deliver")
     \/ autonomy[r] = "auto-commit"
          /\ Conclude(r, {}, "completed", "completed", "never")
  /\ UNCHANGED <<task, spent, policy, autonomy, approved, cmd, verdict, draft,
                 reviewing, wt, branch, judged, outVars>>

\* The index moved, git commit failed, or the commit is not the approved tree.
CommitFails(r) ==
  /\ pc[r] = "commit"
  /\ ~ Empty(r)
  /\ \/ UNCHANGED repo
     \/ /\ VerifyPrepared(repo[r], approved[r]) /\ CanCommit(repo[r])
        /\ \E g \in CommitResults(repo[r]) :
             /\ ~ VerifyCommitted(g, approved[r])
             /\ repo' = [repo EXCEPT ![r] = g]
  /\ FailChangeSet(r)
  /\ UNCHANGED <<dbVars, policy, autonomy, approved, cmd, verdict, draft,
                 reviewing, wt, branch, judged, outVars>>

\* git push <remote> sidecar/<id>: the task branch, not HEAD.
Push(r) == pushed' = [pushed EXCEPT ![r] = repo[r].tip["task"]]

PushBranch(r) ==
  /\ pc[r] = "deliver"
  /\ Push(r)
  /\ Goto(r, "request")
  /\ UNCHANGED <<dbVars, callVars, gitVars, cr, notes>>

\* The target cannot be resolved, the push is refused, or its answer is lost.
PushFails(r) ==
  /\ pc[r] = "deliver"
  /\ Push(r) \/ UNCHANGED pushed
  /\ FailDelivery(r)
  /\ UNCHANGED <<dbVars, policy, autonomy, approved, cmd, verdict, draft,
                 reviewing, gitVars, cr, notes>>

AutomationOpensCR(r) ==
  /\ ExternalCRs
  /\ pushed[r] # NoTree /\ cr[r] = "none"
  /\ cr' = [cr EXCEPT ![r] = "ready"]
  /\ UNCHANGED <<pc, dbVars, callVars, gitVars, pushed, notes>>

\* Mutant: the draft flag does not reach the provider.
OpenedReady(r) == cr' = [cr EXCEPT ![r] = "ready"]

Opened(r) == cr' = [cr EXCEPT ![r] = IF draft[r] THEN "draft" ELSE "ready"]

\* Mutants: a draft is reported as completed, or with a status nobody knows.
ConcludeDeliveredCompleted(r) == Conclude(r, {}, "completed", "completed", "never")
ConcludeDeliveredAsDraft(r) ==
  Conclude(r, {}, IF draft[r] THEN "draft" ELSE "completed", "completed", "never")

ConcludeDelivered(r) ==
  Conclude(r, {}, IF draft[r] THEN "needs_review" ELSE "completed", "completed", "never")

OpenChangeRequest(r) ==
  /\ pc[r] = "request"
  /\ cr[r] = "none"
  /\ Opened(r)
  /\ Log(r, {"branch_pushed", "change_request_created"})
  /\ ConcludeDelivered(r)
  /\ UNCHANGED <<task, spent, policy, autonomy, approved, cmd, verdict, draft,
                 reviewing, gitVars, pushed, notes>>

\* An open change request for the branch is taken as it is.
ReuseChangeRequest(r) ==
  /\ pc[r] = "request"
  /\ cr[r] # "none"
  /\ Log(r, {"branch_pushed", "change_request_reused"})
  /\ ConcludeDelivered(r)
  /\ UNCHANGED <<task, spent, policy, autonomy, approved, cmd, verdict, draft,
                 reviewing, gitVars, outVars>>

\* Lookup, creation or labelling fails, after the provider may have created
\* the change request.
RequestFails(r) ==
  /\ pc[r] = "request"
  /\ UNCHANGED cr \/ (cr[r] = "none" /\ Opened(r))
  /\ Log(r, {"branch_pushed"})
  /\ FailDelivery(r)
  /\ UNCHANGED <<task, spent, policy, autonomy, approved, cmd, verdict, draft,
                 reviewing, gitVars, pushed, notes>>

-----------------------------------------------------------------------------
(* How every call ends.                                                    *)

Record(r) ==
  /\ pc[r] = "record"
  /\ Log(r, plan[r].log)
  /\ \/ task' = [task EXCEPT ![r] = plan[r].status]
     \/ DBFaults /\ UNCHANGED task
  /\ Goto(r, "notify")
  /\ UNCHANGED <<spent, callVars, gitVars, outVars>>

Notify(r) ==
  /\ pc[r] = "notify"
  /\ notes' = [notes EXCEPT ![r] = @ \cup {plan[r].note}]
  /\ Goto(r, IF plan[r].drop = "late" THEN "discard" ELSE "exit")
  /\ UNCHANGED <<dbVars, callVars, gitVars, pushed, cr>>

\* Mutant: a worktree discarded first ends the call.
DiscardWorktreeAndExit(r) ==
  /\ pc[r] = "discard"
  /\ \/ wt[r] = "attached"
          /\ wt' = [wt EXCEPT ![r] = "removed"]
          /\ \E kept \in {FALSE, GitFaults} : branch' = [branch EXCEPT ![r] = kept]
     \/ (wt[r] # "attached" \/ GitFaults) /\ UNCHANGED <<wt, branch>>
  /\ Goto(r, "exit")
  /\ UNCHANGED <<dbVars, callVars, repo, judged, outVars>>

\* discardWorktree: a failed removal leaves the branch alone.
DiscardWorktree(r) ==
  /\ pc[r] = "discard"
  /\ \/ wt[r] = "attached"
          /\ wt' = [wt EXCEPT ![r] = "removed"]
          /\ \E kept \in {FALSE, GitFaults} : branch' = [branch EXCEPT ![r] = kept]
     \/ (wt[r] # "attached" \/ GitFaults) /\ UNCHANGED <<wt, branch>>
  /\ Goto(r, IF plan[r].drop = "early" THEN "record" ELSE "exit")
  /\ UNCHANGED <<dbVars, callVars, repo, judged, outVars>>

\* The deferred cleanup of a worktree that still exists.
Exit(r) ==
  /\ pc[r] = "exit"
  /\ \/ wt[r] = "attached"
          /\ \E left \in {"removed"} \cup (IF GitFaults THEN {"stuck"} ELSE {}) :
               wt' = [wt EXCEPT ![r] = left]
     \/ wt[r] # "attached" /\ UNCHANGED wt
  /\ Goto(r, "returned")
  /\ UNCHANGED <<dbVars, callVars, branch, repo, judged, outVars>>

\* The process stops; its detached reviewers stop with it.
Crash(r) ==
  /\ Crashes
  /\ Active(r)
  /\ Goto(r, "dead")
  /\ reviewing' = reviewing \ (IF r \in DaemonRuns THEN DaemonRuns ELSE {r})
  /\ UNCHANGED <<dbVars, policy, autonomy, approved, cmd, verdict, draft, plan,
                 gitVars, outVars>>

\* The budget counts from midnight UTC.
NewDay ==
  /\ spent > 0
  /\ spent' = 0
  /\ UNCHANGED <<pc, task, events, callVars, gitVars, outVars>>

Terminated ==
  /\ \A r \in Runs : pc[r] \in {"returned", "dead"}
  /\ reviewing = {}
  /\ UNCHANGED vars

\* A step of the call itself.
Step(r) ==
  \/ Dedup(r) \/ CreateTask(r) \/ BudgetGate(r) \/ Triage(r) \/ StartRunning(r)
  \/ AttachWorkspace(r) \/ CreateWorktree(r) \/ CreateWorktreeFails(r)
  \/ Preflight(r) \/ CodingFails(r) \/ CodingIncomplete(r) \/ CodingCompletes(r)
  \/ PrepareChangeSet(r) \/ PrepareFails(r) \/ IndexDrifted(r)
  \/ CommandPasses(r) \/ CommandFails(r)
  \/ EvaluationPasses(r) \/ EvaluationRejects(r)
  \/ EvaluationPreserved(r) \/ EvaluationAbandoned(r)
  \/ NothingToCommit(r) \/ CommitRepair(r) \/ CommitFails(r)
  \/ PushBranch(r) \/ PushFails(r)
  \/ OpenChangeRequest(r) \/ ReuseChangeRequest(r) \/ RequestFails(r)
  \/ Record(r) \/ Notify(r) \/ DiscardWorktree(r) \/ Exit(r)

Next ==
  \/ \E r \in Runs :
       Step(r) \/ ToolActs(r) \/ Review(r) \/ AutomationOpensCR(r) \/ Crash(r)
  \/ NewDay
  \/ Terminated

Spec == Init /\ [][Next]_vars

\* A goroutine that can run does: models, commands and requests are bounded by
\* turn limits and timeouts.  Nothing makes a tool act or a process crash.
FairSpec == Spec /\ \A r \in Runs : WF_vars(Step(r))

-----------------------------------------------------------------------------
(* Properties.                                                             *)

\* Two signals with one deduplication key never both get a task row: the
\* existence check alone races, the unique index decides
\* (loop.go:212-232, schema.sql:19-20).
AtMostOneTaskPerKey ==
  \A q, r \in Runs :
    SignalKey[q] = SignalKey[r] /\ SignalKey[q] # NoKey
      /\ task[q] # "none" /\ task[r] # "none" => q = r

\* A call returns without a task row only when another call has a row with the
\* signal's key: neither the race from the check to the insert nor a crash of
\* another call leaves a failure without any row (loop.go:212-232).  It says
\* nothing of what became of that row: its call may have crashed, failed or been
\* skipped for the budget, and the failure is not tried again.  Holds while the
\* database answers.
OnlyDuplicatesAreDropped ==
  \A r \in Runs : pc[r] = "returned" /\ task[r] = "none" =>
    /\ SignalKey[r] # NoKey
    /\ \E q \in Runs \ {r} : SignalKey[q] = SignalKey[r] /\ task[q] # "none"

OnTaskBranch(r) == repo[r].head = "task"

\* When HEAD of the worktree is on the task branch, the branch on the remote
\* holds exactly the approved snapshot, and no excluded path of it differs from
\* the task base, whatever the agent, the verification commands, the
\* evaluator's tools and commit hooks did (changeset.go:32-100,
\* loop.go:646-670).  PublicationIsVerified drops the condition.
PublishedIsApproved ==
  \A r \in Runs : pushed[r] # NoTree /\ OnTaskBranch(r) =>
    /\ pushed[r] = approved[r]
    /\ \A p \in Excluded : pushed[r][p] = BaseTree[p]

\* What is published is what was verified, wherever HEAD is: README.md:140-142.
PublicationIsVerified == \A r \in Runs : pushed[r] # NoTree => pushed[r] = approved[r]

\* The task's commit is meant to be used: it was pushed, or auto-committed.
Delivered(r) ==
  \/ pushed[r] # NoTree
  \/ /\ task[r] = "completed" /\ branch[r]
     /\ OnTaskBranch(r) /\ repo[r].tip["task"] # BaseTree

\* With the gate on, nothing is delivered unless every verification command
\* passed and either the evaluator passed that very diff, or the configured
\* policy preserves an unevaluated repair as a draft (loop.go:534-645).
NothingShipsUngated ==
  \A r \in Runs : policy[r].verify /\ Delivered(r) =>
    /\ cmd[r] > Commands
    /\ judged[r] = approved[r]
    /\ \/ verdict[r] = "pass" /\ ~ draft[r]
       \/ /\ verdict[r] \in {"incomplete", "error"} /\ draft[r]
          /\ PreservesAsDraft(r) /\ task[r] # "completed"

\* A change request is ready for merging only if the evaluator did not fail to
\* answer; a task waits for review exactly when its change request is a draft
\* (loop.go:673-747).
HumanGated ==
  \A r \in Runs :
    /\ draft[r] => cr[r] # "ready" /\ task[r] # "completed"
    /\ task[r] = "needs_review" => cr[r] = "draft"
    /\ task[r] = "completed" => cr[r] # "draft"

\* A task branch that outlives its call holds the approved snapshot: failed,
\* rejected, incomplete and empty repairs leave no branch behind
\* (loop.go:919-933 and its callers).  Holds while git's cleanup commands work
\* and HEAD of the worktree stays on the task branch.
OnlyApprovedBranchesRemain ==
  \A r \in Runs : pc[r] = "returned" /\ branch[r] /\ OnTaskBranch(r) =>
    /\ approved[r] # NoTree
    /\ repo[r].tip["task"] = approved[r]
    /\ Manifest(approved[r]) # {}

\* What was pushed stays in the local branch, whichever delivery step fails
\* afterwards, so that a person can finish the delivery (loop.go:803-819).
PushedBranchIsKept == \A r \in Runs : pushed[r] # NoTree => branch[r]

NotesFor(status) ==
  CASE status = "needs_review" -> {{"completed"}}
    [] status = "skipped" -> {{"skipped"}, {"budget_exceeded"}}
    [] OTHER -> {{status}}

\* A call that returns has told the operator exactly once, and told what the
\* database says; a dropped signal is silent (all Fire calls of loop.go).
\* Holds while the database answers.
NotifiedAsRecorded ==
  \A r \in Runs : pc[r] = "returned" =>
    IF task[r] = "none" THEN notes[r] = {}
    ELSE task[r] \in Terminal /\ notes[r] \in NotesFor(task[r])

\* The status is never ahead of the audit trail that explains it: suggestions
\* have a suggestion event, deliveries a verified change set and a change
\* request, failed deliveries a delivery_failed event, and what waits for
\* review says why it was not evaluated.  Holds while the database answers.
AuditExplainsOutcome ==
  \A r \in Runs :
    /\ task[r] = "suggested" => "suggestion" \in events[r]
    /\ pushed[r] # NoTree => "repair_change_set_verified" \in events[r]
    /\ pushed[r] # NoTree /\ task[r] \in {"completed", "needs_review"} =>
         /\ "branch_pushed" \in events[r]
         /\ events[r] \cap {"change_request_created", "change_request_reused"} # {}
    /\ pushed[r] # NoTree /\ task[r] = "failed" => "delivery_failed" \in events[r]
    /\ task[r] = "needs_review" =>
         events[r] \cap {"evaluation_incomplete", "evaluation_error"} # {}

\* Calls that can be past the budget gate at the same time: the daemon's one
\* and the separate processes.
Processes == Cardinality(Runs \ DaemonRuns) + (IF DaemonRuns = {} THEN 0 ELSE 1)

\* The daily budget is checked once, before triage, so it can be overshot, but
\* only by the three stages of the calls already past the gate and by their
\* detached reviewers (loop.go:239-251).  Holds while the database answers.
BudgetOvershootBounded ==
  Budget > 0 =>
    spent < Budget + 3 * MaxCost * Processes + MaxCost * Cardinality(Runs)

\* Refinement: the task row and the change request of every run behave as
\* TaskLifecycle promises.
Lifecycle == INSTANCE TaskLifecycle WITH
  Tasks <- Runs, KeyOf <- SignalKey, status <- task, released <- cr
RefinesLifecycle == Lifecycle!Spec

\* Every task row reaches a final status; README.md:187.
EveryTaskSettles ==
  \A r \in Runs : task[r] # "none" ~> task[r] \in Terminal

\* Every signal is handled to the end, the daemon's serial handler included.
EveryCallReturns == \A r \in Runs : <>(pc[r] = "returned")

\* A task that waits for review has a draft change request.
NeedsReviewIsDraft == \A r \in Runs : task[r] = "needs_review" => cr[r] = "draft"

=============================================================================
