-------------------------------- MODULE MCWork --------------------------------
(***************************************************************************)
(* What Loop.Run calls on the way from a signal to a change request, and    *)
(* the services beside it, for TLC: the enrichment of the signal, triage,   *)
(* the events of an agent run, verification, evaluation, the delivery       *)
(* target, the notifications, the memory, the retention of traces.  Run     *)
(* calls one after the other and hands results on; their inner states never *)
(* meet.  As in MCSignals, a behaviour explores one part.                   *)
(***************************************************************************)
EXTENDS AgentTrace, TraceRetention

CONSTANTS
  KeptLines, Tail0, Fallback, Around, JobPage, MaxRead, MaxDiff, FilePage, HistoryPage,
  MaxStatuses, MinStatuses, Jobs, LogLines, Files, Sizes, Pipeline, \* GitLabContext
  ChangeTypes, Fields, MaxPieces, MaxUsage,              \* Triage
  Commands, Children, MayDetach, MayCancel, Cap, PipeSize, MaxWrites, \* Verification
  Calls, Verified, MaxTurns, InvestigationCap,           \* Evaluator
  Hosts, IsGitHub, IsGitLab, Slugs, MaxEntries,          \* DeliveryTarget
  Configured, LoopEvents, MaxFires,                      \* Notifications
  Agents, Categories, MaxRows, MaxCalls                  \* MemoryStore

VARIABLES
  part, \* the part that this behaviour explores
  call,
  autonomy, triage, answer, consumed, triageUsage, triageFailed, decision,
  results, command, alive, group, holders, exit, pipe, written, kept, copyError, deadline,
  taskCancelled, survivors,
  review, live, next, turn, requests, text, eventErr, seen, executed, forced,
  phaseCancelled, ctxDone, unstored, phaseUse, usage, outcome, said, failed,
  cfg, remote, head, entries, signal, env, target, reason,
  fires, event, at, sending, attempts, fireCancelled,
  rows, category, memory, inserted, calls, memoryCall, removed, overlaps, undeleted

\* The same loop with traces switched off, and with a runtime that reports the
\* usage of a run as a sum.
Untraced == INSTANCE AgentTrace WITH Enabled <- FALSE, Capture <- "final-only"
Summed == INSTANCE AgentTrace WITH PerRequest <- FALSE
Context == INSTANCE GitLabContext WITH MaxLines <- KeptLines, Lines <- LogLines,
                                       Current <- Pipeline
Decision == INSTANCE Triage WITH phase <- triage, text <- answer, usage <- triageUsage,
                                 failed <- triageFailed, result <- decision
Checks == INSTANCE Verification WITH phase <- command, cancelled <- taskCancelled
Review == INSTANCE Evaluator WITH phase <- review, cancelled <- phaseCancelled
Delivery == INSTANCE DeliveryTarget WITH failed <- reason
Notify == INSTANCE Notifications WITH Events <- LoopEvents, cancelled <- fireCancelled
Memory == INSTANCE MemoryStore WITH call <- memoryCall

\* What the parts assume of their constants.
ASSUME PartAssumptions ==
  /\ Context!ContextAssumption /\ Decision!TriageAssumption /\ Checks!VerificationAssumption
  /\ Review!EvaluatorAssumption /\ Notify!NotificationsAssumption
  /\ Memory!MemoryAssumption

-----------------------------------------------------------------------------
(* Values for constants.                                                   *)

\* A host of a company, and one whose name names both providers.
GitHubHosts == {"github.com", "gitlab.github.corp"}
GitLabHosts == {"gitlab.com", "gitlab.github.corp"}
RemoteHosts == GitHubHosts \cup GitLabHosts \cup {"git.corp"}
RemotePaths == {<<"a", "b">>, <<"a", "b", "c">>, <<"b">>}

\* Two HTTP notifiers around one that is left out, and a mail between them.
Notifiers ==
  LET Entry(provider, complete, on) ==
        [provider |-> provider, complete |-> complete, on |-> on]
  IN  <<Entry("slack", TRUE, {"completed", "failed"}),
        Entry("webhook", FALSE, LoopEvents),
        Entry("email", TRUE, {"failed", "notified"}),
        Entry("webhook", TRUE, LoopEvents)>>

-----------------------------------------------------------------------------
(* One part moves.                                                         *)

Parts ==
  {"context", "triage", "trace", "untraced", "summed", "checks", "review", "delivery",
   "notify", "memory", "retention"}

\* The variables of each part.
contextVars == <<call>>
triageVars == <<autonomy, triage, answer, consumed, triageUsage, triageFailed, decision>>
checksVars == <<results, command, alive, group, holders, exit, pipe, written, kept,
                copyError, deadline, taskCancelled, survivors>>
reviewVars == <<review, live, next, turn, requests, text, eventErr, seen, executed, forced,
                phaseCancelled, ctxDone, unstored, phaseUse, usage, outcome, said, failed>>
deliveryVars == <<cfg, remote, head, entries, signal, env, target, reason>>
notifyVars == <<fires, event, at, sending, attempts, fireCancelled>>
memoryVars == <<rows, category, memory, inserted, calls, memoryCall, removed, overlaps,
                undeleted>>
workVars == <<part, contextVars, triageVars, vars, checksVars, reviewVars, deliveryVars,
              notifyVars, memoryVars, retentionVars>>

\* Where a part with several initial states is while another is explored.
TriageRests == autonomy = [f \in Fields |-> ""]
TraceRests == role = CHOOSE r \in Roles : TRUE
DeliveryRests ==
  /\ cfg = [provider |-> "", repo |-> << >>, token |-> "", base |-> ""]
  /\ ~ remote.found /\ head = "" /\ entries = << >> /\ env = {}

WorkInit ==
  /\ part \in Parts
  /\ Context!Init /\ Checks!Init /\ Review!Init /\ Notify!Init /\ Memory!Init /\ RetentionInit
  /\ Decision!Init /\ (part = "triage" \/ TriageRests)
  /\ Init /\ (part \in {"trace", "untraced", "summed"} \/ TraceRests)
  /\ Delivery!Init /\ (part = "delivery" \/ DeliveryRests)

WorkNext ==
  /\ IF part = "context" THEN Context!Next ELSE UNCHANGED contextVars
  /\ IF part = "triage" THEN Decision!Next ELSE UNCHANGED triageVars
  /\ CASE part = "trace" -> Next
       [] part = "untraced" -> Untraced!Next
       [] part = "summed" -> Summed!Next
       [] OTHER -> UNCHANGED vars
  /\ IF part = "checks" THEN Checks!Next ELSE UNCHANGED checksVars
  /\ IF part = "review" THEN Review!Next ELSE UNCHANGED reviewVars
  /\ IF part = "delivery" THEN Delivery!Next ELSE UNCHANGED deliveryVars
  /\ IF part = "notify" THEN Notify!Next ELSE UNCHANGED notifyVars
  /\ IF part = "memory" THEN Memory!Next ELSE UNCHANGED memoryVars
  /\ IF part = "retention" THEN RetentionNext ELSE UNCHANGED retentionVars
  /\ UNCHANGED part

\* That of Verification and of Notifications.
ChecksAreFair ==
  /\ WF_checksVars(part = "checks" /\ Checks!Deadline)
  /\ WF_checksVars(part = "checks" /\ Checks!Copy)
  /\ WF_checksVars(part = "checks" /\ Checks!Kill)
  /\ WF_checksVars(part = "checks" /\ Checks!Finish)
  /\ WF_checksVars(part = "checks" /\ Checks!FinishKilled)
  /\ WF_checksVars(part = "checks" /\ (Checks!Refuse \/ Checks!Start))
  /\ WF_checksVars(part = "checks" /\ Checks!Over)

NotifyIsFair ==
  /\ WF_notifyVars(part = "notify" /\ Notify!Skip)
  /\ WF_notifyVars(part = "notify" /\ Notify!Call)
  /\ WF_notifyVars(part = "notify" /\ Notify!FireReturns)
  /\ WF_notifyVars(part = "notify" /\ Notify!HttpTimeout)
  /\ WF_notifyVars(part = "notify" /\ (Notify!MailRefused \/ Notify!MailConnected))

WorkSpec == WorkInit /\ [][WorkNext]_workVars /\ ChecksAreFair /\ NotifyIsFair

-----------------------------------------------------------------------------
(* Properties; TraceIsDurable is that of AgentTrace, BacklogBounded that of *)
(* TraceRetention.                                                          *)

\* Types of all parts.
WorkTypeOK ==
  /\ part \in Parts
  /\ TypeOK /\ RetentionTypeOK /\ Context!TypeOK /\ Decision!TypeOK /\ Checks!TypeOK
  /\ Review!TypeOK /\ Delivery!TypeOK /\ Notify!TypeOK /\ Memory!TypeOK

\* What a signal is enriched with is what the replies said, as far as they were
\* read: the error context keeps the tail and the first errors of the log that was
\* read, a diff is whole or absent for the files that were listed, a flake is one
\* among the pipelines of the page (gitlabci.go:263-439; GitLabContext).
EnrichmentIsFaithful ==
  /\ Context!ExtractKeepsTailAndFirstErrors
  /\ Context!DiffIsWholeOrAbsent
  /\ Context!FlakeIsAlternationOfOthers

\* A triage that fails neither drops a signal nor ships a change: a drop needs an
\* answer that decodes and does not ask for a repair, shipping an object of it that
\* names the type and the operator's configuration (triage.go:47-235; Triage).
TriageFailsSafe == Decision!FailureNeverDrops /\ Decision!ShippingWasConfigured

\* No request of an agent run is counted twice against the budget, each is when
\* nothing failed, and a run whose usage cannot be stored is stopped
\* (loop.go:462, 572, collector.go:225-260; AgentTrace).
SpendIsAccounted ==
  /\ SpendCountedOnce
  /\ part # "summed" => RequestsAreMetered
  /\ NoRequestAfterFailure

\* The results of the commands tell what happened: no command fails for the
\* length of its output, what is missing from it is marked, a timeout leaves no
\* process of the group, and only the last result may be a failure
\* (verification.go; Verification).
ResultsAreTrue ==
  /\ Checks!LongOutputDoesNotFail /\ Checks!OutputIsCutAtTheCap
  /\ Checks!TimeoutEndsTheGroup /\ Checks!OnlyTheLastFails

\* The commands end, whatever they do (verification.go:120-190; Verification).
CommandsEnd == part = "checks" => Checks!CommandsEnd

\* A pass or a rejection was said by the model in the deciding phase, and a review
\* is incomplete only after the reserved request (evaluate.go:151-304; Evaluator).
VerdictWasSaid == Review!VerdictWasSaid /\ Review!IncompleteWasAsked

\* The review stays within its requests, runs no call twice and reports the usage
\* of every request (evaluate.go:254-456; Evaluator).
ReviewIsBounded ==
  Review!CallsRunOnce /\ Review!RequestsWithinLimit /\ Review!UsageIsWhole

\* The change request is opened where the branch was pushed, and nothing about the
\* target is assumed (delivery.go:60-135; DeliveryTarget).
DeliveryIsResolved == Delivery!RequestMeetsBranch /\ Delivery!NothingIsAssumed

\* Fire calls every subscriber once and in order, whatever others did before it
\* (notify.go:97-109; Notifications).
SubscribersAreCalled == Notify!EverySubscriberIsCalled

\* Fire returns, unless a mail server hangs (webhook.go:24, email.go:56;
\* Notifications).
FiresReturn == Notify!EveryFireReturns

\* A saved memory is never without a row, keeps its category, and has two rows only
\* for a reason (store_adapter.go:146-190; MemoryStore).
MemoryIsKept ==
  Memory!MemoryIsKept /\ Memory!CategoryIsInherited /\ Memory!DuplicatesAreExplained

-----------------------------------------------------------------------------
(* What documents and comments say and the code does not keep (README,      *)
(* "Divergences").  SpendIsRecorded of AgentTrace and BatchTakesAll of      *)
(* TraceRetention are two more; OnlyTheModelDrops of Triage has a run of    *)
(* its own.  No other configuration lists them: a counterexample of TLC is  *)
(* expected.                                                                *)

\* "tail line %q must always be retained", and the failed job is included.
LogKeepsItsEnd == Context!LogKeepsItsEnd
FailedJobIsNamed == Context!FailedJobIsNamed

\* "larger diffs SHALL fall back to the complete changed-file list".
LargeDiffNamesEveryFile == Context!LargeDiffNamesEveryFile

\* "tolerating ... duplicate responses caused by stream retries" (triage.go:178).
DuplicatesAreTolerated == Decision!DuplicatesAreTolerated

\* "(input+output+cache) across triage + coding + evaluator" (README.md:628).
TriageSpendCounts == Decision!TriageSpendCounts

\* The reviewer, too, stops asking when its usage cannot be stored.
ReviewerIsStopped == ~ begunLate

\* "WHEN evaluation ends because of a provider, runtime, persistence, or
\* cancellation failure THEN Sidecar records evaluation_error".
FailureIsError == Review!FailureIsError
CancellationIsError == Review!CancellationIsError

\* "A valid verdict terminates the evaluator immediately."
VerdictEndsInvestigation == Review!VerdictEndsInvestigation

\* "use GITHUB_TOKEN or GITLAB_TOKEN according to the resolved provider".
TokenIsOfProvider == Delivery!TokenIsOfProvider
=============================================================================
