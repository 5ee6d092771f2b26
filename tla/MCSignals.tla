------------------------------ MODULE MCSignals ------------------------------
(***************************************************************************)
(* The ways of a signal into Sidecar, for TLC.  The daemon and its adapters *)
(* are goroutines that share nothing but the channel Daemon has; what one   *)
(* of them does is independent of the others.  So a behaviour explores one  *)
(* part and leaves the rest where it started: the union of the state spaces *)
(* has every behaviour of every part, and is their sum, not their product.  *)
(***************************************************************************)
EXTENDS MetricsAdapter, Sequences, TLC

CONSTANTS
  Order, Schedules, Joining, Capacity, Ticks,       \* Daemon
  Old, Fresh, History, Branches, GitFaults,         \* GitAdapter
  Projects, CIProvider, MaxRun, Window, MaxRestarts, \* CIPollers
  Endpoints, Healths,                               \* Uptime
  Patterns, Sources, Quiet, RateWindow, Threshold, RateQuiet, \* LogMatcher
  Inodes, MaxLine, Rotations,                       \* LogTail
  Commands, HasChildren, PipeCap, MaxLines,         \* LogProcess
  git, cron, logs                                   \* names of adapters

VARIABLES
  part, \* the part that this behaviour explores
  main, at, active, looping, begun, offered, channel, done, ended, handler, handled,
  ancestors, branch, current, latest, lastSeen, batch, running, gitStopped, baseline, commits,
  run, runsSeen, listed, pending, sent, keys, worked, dropped, restarts,
  health, round, todo, ep, sig, tcp, peers, down, cross, outages, last, uptimeStopped, steady,
  armed, age, matches, matched, logsStopped, silence, burst,
  lines, partial, path, used, written, file, offset, scanned, before, rotated, tailStopped,
  shell, child, pipe, wrote, copying, waited, killer, reader, tooLong, found, cancelled, stop

Attach == INSTANCE Daemon WITH reported <- begun, cancelled <- ended
Git == INSTANCE GitAdapter WITH stopped <- gitStopped, reported <- commits
CI == INSTANCE CIPollers WITH Provider <- CIProvider, seen <- runsSeen, todo <- listed
Outages == INSTANCE Uptime WITH pc <- round, out <- outages, stopped <- uptimeStopped
Matcher == INSTANCE LogMatcher WITH Window <- RateWindow, toSend <- matched,
                                    stopped <- logsStopped
LogFile == INSTANCE LogTail WITH stopped <- tailStopped
LogCommand == INSTANCE LogProcess WITH out <- found

ASSUME PartAssumptions ==
  /\ Attach!DaemonAssumption /\ Git!GitAssumption /\ CI!CIAssumption
  /\ Outages!UptimeAssumption /\ Matcher!MatcherAssumption
  /\ LogFile!TailAssumption /\ LogCommand!ProcessAssumption

-----------------------------------------------------------------------------
(* Values for the constants.                                               *)

GitCronLogs == <<git, cron, logs>>
CronLogs == <<cron, logs>>
Pair == 1 :> {1} @@ 2 :> {1, 2}
Single == 1 :> {1}
OneGitHub == "acme/app" :> "github-ci"
OneCircle == "acme/app" :> "circleci"
SharedId == [r \in Rules |-> IF r \in {"r1", "r2"} THEN "i1" ELSE "i2"]
OwnId == [r \in Rules |-> IF r = "r1" THEN "i1" ELSE "i2"]
QuietPeriods == [p \in Patterns |-> IF p = "panic" THEN 2 ELSE 1]

-----------------------------------------------------------------------------
(* One part moves.                                                         *)

Parts == {"daemon", "git", "ci", "metrics", "uptime", "matcher", "file", "command"}

\* The variables of each part.
daemonVars == <<main, at, active, looping, begun, offered, channel, done, ended, handler,
                handled>>
gitVars == <<ancestors, branch, current, latest, lastSeen, batch, running, gitStopped,
             baseline, commits>>
ciVars == <<run, runsSeen, listed, pending, sent, keys, worked, dropped, restarts>>
uptimeVars == <<health, round, todo, ep, sig, tcp, peers, down, cross, outages, last,
                uptimeStopped, steady>>
matcherVars == <<armed, age, matches, matched, logsStopped, silence, burst>>
fileVars == <<lines, partial, path, used, written, file, offset, scanned, before, rotated,
              tailStopped>>
commandVars == <<shell, child, pipe, wrote, copying, waited, killer, reader, tooLong, found,
                 cancelled, stop>>
signalsVars == <<part, vars, daemonVars, gitVars, ciVars, uptimeVars, matcherVars, fileVars,
                 commandVars>>

\* Where a part with several initial states is while another is explored.
GitRests == branch = [b \in Branches |-> Git!None] /\ current = "main"
MetricsRests == state = [r \in Rules |-> "quiet"]
UptimeRests == health = [e \in Endpoints |-> "healthy"]
FileRests == written = 0
CommandRests == shell = [c \in Commands |-> FALSE]

SignalsInit ==
  /\ part \in Parts
  /\ Attach!Init /\ CI!Init /\ Matcher!Init
  /\ Git!Init /\ (part = "git" \/ GitRests)
  /\ Init /\ (part = "metrics" \/ MetricsRests)
  /\ Outages!Init /\ (part = "uptime" \/ UptimeRests)
  /\ LogFile!Init /\ (part = "file" \/ FileRests)
  /\ LogCommand!Init /\ (part = "command" \/ CommandRests)

SignalsNext ==
  /\ IF part = "daemon" THEN Attach!Next ELSE UNCHANGED daemonVars
  /\ IF part = "git" THEN Git!Next ELSE UNCHANGED gitVars
  /\ IF part = "ci" THEN CI!Next ELSE UNCHANGED ciVars
  /\ IF part = "metrics" THEN Next ELSE UNCHANGED vars
  /\ IF part = "uptime" THEN Outages!Next ELSE UNCHANGED uptimeVars
  /\ IF part = "matcher" THEN Matcher!Next ELSE UNCHANGED matcherVars
  /\ IF part = "file" THEN LogFile!Next ELSE UNCHANGED fileVars
  /\ IF part = "command" THEN LogCommand!Next ELSE UNCHANGED commandVars
  /\ UNCHANGED part

SignalsSpec == SignalsInit /\ [][SignalsNext]_signalsVars

SignalsTypeOK ==
  /\ part \in Parts
  /\ TypeOK /\ Attach!TypeOK /\ Git!TypeOK /\ CI!TypeOK /\ Outages!TypeOK
  /\ Matcher!TypeOK /\ LogFile!TypeOK /\ LogCommand!TypeOK

-----------------------------------------------------------------------------
(* Fairness: that of each part (see the part's FairSpec), while it is the   *)
(* one explored.                                                           *)

DaemonIsFair ==
  /\ WF_daemonVars(part = "daemon" /\ Attach!StartsNext)
  /\ WF_daemonVars(part = "daemon" /\ Attach!StopsNext)
  /\ WF_daemonVars(part = "daemon" /\ Attach!Receive)
  /\ WF_daemonVars(part = "daemon" /\ Attach!HandlerReturns)
  /\ \A a \in Attach!Adapters : WF_daemonVars(part = "daemon" /\ Attach!PollerReturns(a))
  /\ \A s \in Attach!Signals :
       /\ SF_daemonVars(part = "daemon" /\ Attach!Send(s))
       /\ WF_daemonVars(part = "daemon" /\ Attach!GiveUp(s))

GitIsFair ==
  /\ WF_gitVars(part = "git" /\ Git!Poll)
  /\ WF_gitVars(part = "git" /\ Git!SendCommit)

CIIsFair ==
  \A p \in Projects :
    /\ WF_ciVars(part = "ci" /\ CI!Fetch(p))
    /\ WF_ciVars(part = "ci" /\ CI!Deliver(p))
    /\ WF_ciVars(part = "ci" /\ CI!ConsiderRun(p))
    /\ WF_ciVars(part = "ci" /\ CI!ConsiderPipeline(p))
    /\ SF_ciVars(part = "ci" /\ CI!ConsiderPipeline(p) /\ pending'[p] # CI!Nothing)

MetricsIsFair ==
  /\ WF_vars(part = "metrics" /\ Tick)
  /\ SF_vars(part = "metrics" /\ PollAnswers)
  /\ WF_vars(part = "metrics" /\ Send)
  /\ WF_vars(part = "metrics" /\ PollDone)
  /\ WF_vars(part = "metrics" /\ Receive)

UptimeIsFair ==
  /\ WF_uptimeVars(part = "uptime" /\ Outages!Tick)
  /\ WF_uptimeVars(part = "uptime" /\ Outages!Round)
  /\ WF_uptimeVars(part = "uptime" /\ Outages!Send)
  /\ WF_uptimeVars(part = "uptime" /\ Outages!Receive)

LogsAreFair ==
  /\ WF_matcherVars(part = "matcher" /\ Matcher!Tick)
  /\ WF_matcherVars(part = "matcher" /\ Matcher!Rearm)
  /\ WF_fileVars(part = "file" /\ LogFile!Reopen)
  /\ WF_fileVars(part = "file" /\ LogFile!ReadLines)
  /\ \A c \in Commands :
       /\ WF_commandVars(part = "command" /\ LogCommand!Scan(c))
       /\ WF_commandVars(part = "command" /\ LogCommand!Send(c))
       /\ WF_commandVars(part = "command" /\ LogCommand!CopyEnds(c))
       /\ WF_commandVars(part = "command" /\ LogCommand!WaitReturns(c))
       /\ WF_commandVars(part = "command" /\ LogCommand!Kill(c))
  /\ WF_commandVars(part = "command" /\ LogCommand!StopReturns)

SignalsFairSpec ==
  /\ SignalsSpec
  /\ DaemonIsFair /\ GitIsFair /\ CIIsFair /\ MetricsIsFair /\ UptimeIsFair /\ LogsAreFair

-----------------------------------------------------------------------------
(* Properties; SignalledOncePerEpisode is that of MetricsAdapter.           *)

\* What a polling adapter has begun to report reaches the handler in order and
\* without a gap (daemon.go:49-62; Daemon, NothingLostOrReordered).
NothingLostOrReordered == Attach!NothingLostOrReordered

\* A commit is reported after what it is built on, and what lastSeen hides from
\* later polls was reported or was there at the start (git.go:64-86).
CommitsAreAccountedFor == Git!NoCommitSkipped /\ Git!SeenIsReported

\* A CI run is sent at most once by a process, and it is remembered only when it
\* was handed on (githubci.go:86-94; CIPollers).
RememberedIsReported == CI!RememberedIsReported /\ CI!SentOncePerProcess

\* The failure type and the cross check tell what the endpoints suffer from, as
\* long as they do not change during the round (uptime.go:100-166,
\* diagnostics.go:163-201; Uptime).
OutageIsReal == Outages!OutageIsReal /\ Outages!CrossTellsTheOutage

\* No burst of matching lines is missed while the rate rule is armed
\* (logs.go:272-306; LogMatcher).
NoBurstMissed == Matcher!NoBurstMissed

\* A log rule fires again only after a quiet period without its signal, and the
\* rate rule only on a burst (logs.go:252-340; LogMatcher).
QuietPeriodRespected == Matcher!QuietPeriodRespected /\ Matcher!RateMeansBurst

\* The lines of a followed file are scanned in order, once, and without a gap
\* until it is rotated; when the goroutine of a followed command has returned,
\* nobody can write any more and all was scanned (logs.go:137-207, 222-242;
\* LogTail, LogProcess).
FollowedLogsAreRead ==
  /\ LogFile!ScannedInOrder
  /\ LogFile!NothingSkippedUnrotated
  /\ LogCommand!OutputReadToItsEnd

\* A signal an adapter has begun to send is handled unless the command is
\* interrupted first (daemon.go:49-62; Daemon).
EverySignalIsHandled == Attach!EverySignalIsHandled

\* Stopping comes to an end: d.Stop with cron jobs blocked on a full channel, and
\* the log adapter's Stop with a command that still runs (daemon.go:40-47,
\* schedule.go:45-50, logs.go:229; Daemon, LogProcess).
StoppingEnds == Attach!StopReturns /\ LogCommand!StopUnblocks

\* What lasts is reported, whatever polls fail and whatever else changes: a
\* commit that stays on the branch, a failure among the latest runs, an alert, an
\* outage, a line of the file; and a log rule that fired is armed again.
WhatLastsIsReported ==
  /\ Git!LastingCommitsAreReported
  /\ CI!LastingFailureIsReported
  /\ LastingAlertIsSignalled
  /\ Outages!LastingOutageIsSignalled
  /\ LogFile!EachNewLineIsScanned
  /\ Matcher!RulesRearm

-----------------------------------------------------------------------------
(* What documents say and the code does not keep (README, "Divergences").   *)
(* No configuration lists them: a counterexample of TLC is expected.        *)

\* "pre-existing history is never reprocessed" (README.md:62).
HistoryIsNotReprocessed == Git!HistoryIsNotReprocessed

\* "cross:FAIL (all endpoints down)" (README.md:377).
CrossFailMeansAllDown == Outages!CrossFailMeansAllDown
=============================================================================
