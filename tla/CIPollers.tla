----------------------------- MODULE CIPollers ------------------------------
(***************************************************************************)
(* internal/adapter/githubci, gitlabci and circleci: one goroutine per      *)
(* configured project asks the provider for its latest runs, remembers in   *)
(* memory which failures it has reported, and sends the others; the loop    *)
(* drops a failure whose key ci.failure:<id> it has stored before.          *)
(* Runs of one project are numbered in the order they were created.         *)
(***************************************************************************)
EXTENDS Integers, Sequences, FiniteSets

CONSTANTS
  Projects,   \* configured CI adapters
  Provider,   \* [Projects -> {"github-ci", "gitlab-ci", "circleci"}]
  MaxRun,     \* bound: the runs of one project
  Window,     \* runs one request returns; 10 in the code
  MaxRestarts \* bound: how often the process is restarted

Runs == 1..MaxRun
Status == {"none", "running", "failed", "passed"}
Nothing == 0

CIAssumption ==
  /\ Provider \in [Projects -> {"github-ci", "gitlab-ci", "circleci"}]
  /\ {MaxRun, Window, MaxRestarts} \subseteq Nat

VARIABLES
  run,      \* the provider: the status of every run
  seen,     \* the adapter's map of reported runs, lost with the process
  todo,     \* what the current poll still has to look at, as fetched
  pending,  \* the run whose signal is being sent
  sent,     \* how often this process has sent a run
  keys,     \* signal keys of tasks, in the database
  worked,   \* failures a task was created for
  dropped,  \* failures the loop took for duplicates
  restarts

vars == <<run, seen, todo, pending, sent, keys, worked, dropped, restarts>>
loopVars == <<keys, worked, dropped>>

Entries == [id : Runs, status : Status]
Failures == Projects \X Runs

TypeOK ==
  /\ run \in [Projects -> [Runs -> Status]]
  /\ seen \in [Projects -> SUBSET Runs]
  /\ todo \in [Projects -> Seq(Entries)]
  /\ pending \in [Projects -> Runs \cup {Nothing}]
  /\ \A p \in Projects : pending[p] # Nothing => pending[p] \in seen[p]
  /\ sent \in [Projects -> [Runs -> Nat]]
  /\ keys \subseteq Runs
  /\ worked \subseteq Failures
  /\ dropped \subseteq Failures
  /\ restarts \in 0..MaxRestarts

Init ==
  /\ run = [p \in Projects |-> [n \in Runs |-> "none"]]
  /\ seen = [p \in Projects |-> {}]
  /\ todo = [p \in Projects |-> << >>]
  /\ pending = [p \in Projects |-> Nothing]
  /\ sent = [p \in Projects |-> [n \in Runs |-> 0]]
  /\ keys = {}
  /\ worked = {}
  /\ dropped = {}
  /\ restarts = 0

-----------------------------------------------------------------------------
(* The provider.  A re-run keeps the number of the run.                     *)

SetRun(p, n, status) ==
  /\ run' = [run EXCEPT ![p][n] = status]
  /\ UNCHANGED <<seen, todo, pending, sent, loopVars, restarts>>

Begin(p, n) ==
  /\ run[p][n] = "none"
  /\ \A m \in 1..(n - 1) : run[p][m] # "none"
  /\ SetRun(p, n, "running")

Finish(p, n) ==
  run[p][n] = "running" /\ \E status \in {"failed", "passed"} : SetRun(p, n, status)

Rerun(p, n) == run[p][n] \in {"failed", "passed"} /\ SetRun(p, n, "running")

-----------------------------------------------------------------------------
(* One request for the latest runs.                                         *)

Created(p) == {n \in Runs : run[p][n] # "none"}

\* The first Window of a set of runs, newest first, each with its status.
Page(p, ns) ==
  LET size == IF Cardinality(ns) < Window THEN Cardinality(ns) ELSE Window
      Newest(i) == CHOOSE n \in ns : Cardinality({m \in ns : m > n}) = i - 1
  IN  [i \in 1..size |-> [id |-> Newest(i), status |-> run[p][Newest(i)]]]

\* GitHub lists completed runs; GitLab and CircleCI list all.
GitHubRuns(p)      == Page(p, {n \in Created(p) : run[p][n] # "running"})
GitLabPipelines(p) == Page(p, Created(p))
CirclePipelines(p) == Page(p, Created(p))

Latest(p) ==
  IF Provider[p] = "github-ci" THEN GitHubRuns(p)
  ELSE IF Provider[p] = "gitlab-ci" THEN GitLabPipelines(p)
  ELSE CirclePipelines(p)

\* A request that fails ends the poll and changes nothing.
Fetch(p) ==
  /\ todo[p] = << >>
  /\ pending[p] = Nothing
  /\ Latest(p) # << >>
  /\ todo' = [todo EXCEPT ![p] = Latest(p)]
  /\ UNCHANGED <<run, seen, pending, sent, loopVars, restarts>>

\* Every configuration watches failures.
Watched(status) == status = "failed"

Skip(p) ==
  /\ todo' = [todo EXCEPT ![p] = Tail(@)]
  /\ UNCHANGED <<run, seen, pending, sent, loopVars, restarts>>

MarkAndSend(p) ==
  /\ seen' = [seen EXCEPT ![p] = @ \cup {Head(todo[p]).id}]
  /\ pending' = [pending EXCEPT ![p] = Head(todo[p]).id]
  /\ todo' = [todo EXCEPT ![p] = Tail(@)]
  /\ UNCHANGED <<run, sent, loopVars, restarts>>

\* Mutant: every run is marked when it is first looked at.
MarkAlways(p) ==
  /\ todo[p] # << >>
  /\ pending[p] = Nothing
  /\ Provider[p] \in {"github-ci", "gitlab-ci"}
  /\ LET entry == Head(todo[p])
     IN  /\ seen' = [seen EXCEPT ![p] = @ \cup {entry.id}]
         /\ pending' = IF Watched(entry.status) /\ entry.id \notin seen[p]
                       THEN [pending EXCEPT ![p] = entry.id] ELSE pending
  /\ todo' = [todo EXCEPT ![p] = Tail(@)]
  /\ UNCHANGED <<run, sent, loopVars, restarts>>

\* GitHub and GitLab judge the status that was fetched; the run is marked
\* before it is sent.  What GitLab adds to the signal is in GitLabContext.
ConsiderRun(p) ==
  /\ todo[p] # << >>
  /\ pending[p] = Nothing
  /\ Provider[p] \in {"github-ci", "gitlab-ci"}
  /\ LET entry == Head(todo[p])
     IN  IF Watched(entry.status) /\ entry.id \notin seen[p] THEN MarkAndSend(p) ELSE Skip(p)

\* CircleCI asks for the workflows of every pipeline it has not reported, so it
\* judges their status now; a request that fails skips the pipeline.
ConsiderPipeline(p) ==
  /\ todo[p] # << >>
  /\ pending[p] = Nothing
  /\ Provider[p] = "circleci"
  /\ LET id == Head(todo[p]).id
     IN  \/ id \notin seen[p] /\ Watched(run[p][id]) /\ MarkAndSend(p)
         \/ Skip(p)

-----------------------------------------------------------------------------
(* The loop takes the signal: SignalKey, then the existence check.          *)

\* CircleCI's key is the number of the pipeline in its project, GitHub's and
\* GitLab's the id of the run; all are put after the same prefix.
SignalKey(p, n) == n

Deliver(p) ==
  /\ pending[p] # Nothing
  /\ LET n == pending[p]
     IN  /\ sent' = [sent EXCEPT ![p][n] = @ + 1]
         /\ keys' = keys \cup {SignalKey(p, n)}
         /\ IF SignalKey(p, n) \in keys
            THEN dropped' = dropped \cup {<<p, n>>} /\ UNCHANGED worked
            ELSE worked' = worked \cup {<<p, n>>} /\ UNCHANGED dropped
  /\ pending' = [pending EXCEPT ![p] = Nothing]
  /\ UNCHANGED <<run, seen, todo, restarts>>

\* The process stops, perhaps while a signal waits, and is attached again.
Restart ==
  /\ restarts < MaxRestarts
  /\ restarts' = restarts + 1
  /\ seen' = [p \in Projects |-> {}]
  /\ todo' = [p \in Projects |-> << >>]
  /\ pending' = [p \in Projects |-> Nothing]
  /\ sent' = [p \in Projects |-> [n \in Runs |-> 0]]
  /\ UNCHANGED <<run, loopVars>>

-----------------------------------------------------------------------------
Next ==
  \/ \E p \in Projects :
       \/ \E n \in Runs : Begin(p, n) \/ Finish(p, n) \/ Rerun(p, n)
       \/ Fetch(p) \/ ConsiderRun(p) \/ ConsiderPipeline(p) \/ Deliver(p)
  \/ Restart

Spec == Init /\ [][Next]_vars

\* The ticker fires, the provider answers again and again, and the daemon takes
\* the signal.  The provider's runs and restarts happen or not.
FairSpec ==
  /\ Spec
  /\ \A p \in Projects :
       /\ WF_vars(Fetch(p)) /\ WF_vars(Deliver(p))
       /\ WF_vars(ConsiderRun(p))
       /\ SF_vars(ConsiderPipeline(p) /\ pending'[p] # Nothing)
       /\ WF_vars(ConsiderPipeline(p))

-----------------------------------------------------------------------------
(* Properties.                                                             *)

\* One process sends a run at most once, however often it is listed, fails
\* again or changes while a poll is under way (githubci.go:86-94,
\* gitlabci.go:137-145, circleci.go:96-115, 133).
SentOncePerProcess == \A p \in Projects, n \in Runs : sent[p][n] <= 1

\* A run is remembered only because its failure was handed on: nothing that was
\* running or had passed when it was looked at is hidden from later polls.
RememberedIsReported ==
  \A p \in Projects : \A n \in seen[p] :
    n = pending[p] \/ <<p, n>> \in worked \cup dropped

\* A failure that stays among the latest runs is handed to the loop, across
\* restarts and while older and newer runs change.
LastingFailureIsReported ==
  \A p \in Projects, n \in Runs :
    <>[](run[p][n] = "failed" /\ \E i \in DOMAIN Latest(p) : Latest(p)[i].id = n)
      => <>(<<p, n>> \in worked \cup dropped)

\* What is dropped as a duplicate is a failure that already has its task
\* (loop.go:97-114, 214-221).
DuplicatesWereWorkedOn == dropped \subseteq worked

=============================================================================
