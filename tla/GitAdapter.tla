----------------------------- MODULE GitAdapter -----------------------------
(***************************************************************************)
(* internal/adapter/git: a goroutine asks git every 30 seconds which        *)
(* commits HEAD has that the last one it saw does not have, and sends one   *)
(* signal for each, while people commit, switch branches and rewrite them.  *)
(* A commit is a number; a commit made later has a larger one.  Sending     *)
(* takes as long as the daemon takes to make room (module Daemon).          *)
(***************************************************************************)
EXTENDS Integers, FiniteSets

CONSTANTS
  Old,      \* commits that exist before the adapter starts
  Fresh,    \* commits people may make while it runs
  History,  \* [Old -> SUBSET Old]: an old commit's ancestors, itself included
  Branches, \* local branches
  GitFaults \* TRUE: HEAD may be unreadable at the start, objects are collected

Commits == Old \cup Fresh
None == 0   \* no commit: an unborn branch, an adapter that saw nothing

GitAssumption ==
  /\ Commits \subseteq Nat \ {None}
  /\ \A o \in Old, f \in Fresh : o < f
  /\ History \in [Old -> SUBSET Old]
  /\ \A o \in Old :
       o \in History[o] /\ \A p \in History[o] : p <= o /\ History[p] \subseteq History[o]
  /\ GitFaults \in BOOLEAN

VARIABLES
  ancestors, \* the commits that exist, each with its ancestors and itself
  branch,    \* the tip of every branch
  current,   \* the branch HEAD is on
  latest,    \* the last commit anybody made
  lastSeen,  \* the adapter's field
  batch,     \* commits the current poll still has to send, oldest first
  running,   \* the goroutine: "no", "yes", "over"
  stopped,   \* stopCh is closed
  baseline,  \* what HEAD had when Start read it; None in it: HEAD was unreadable
  reported   \* commits sent to the daemon

repoVars == <<ancestors, branch, current, latest>>
vars == <<repoVars, lastSeen, batch, running, stopped, baseline, reported>>

Exists == DOMAIN ancestors
HeadCommit == branch[current]
Reachable(c) == IF c \in Exists THEN ancestors[c] ELSE {}

TypeOK ==
  /\ Exists \subseteq Commits
  /\ \A c \in Exists : c \in ancestors[c] /\ ancestors[c] \subseteq Exists
  /\ branch \in [Branches -> Exists \cup {None}]
  /\ current \in Branches
  /\ latest \in Nat
  /\ lastSeen \in Commits \cup {None}
  /\ batch \subseteq Commits
  /\ running \in {"no", "yes", "over"}
  /\ batch # {} => running = "yes"
  /\ stopped \in BOOLEAN
  /\ baseline \subseteq Old \cup Fresh \cup {None}
  /\ reported \subseteq Commits

Init ==
  /\ ancestors = History
  /\ branch \in [Branches -> Old \cup {None}]
  /\ current \in Branches
  /\ latest \in Old /\ \A o \in Old : o <= latest
  /\ lastSeen = None
  /\ batch = {}
  /\ running = "no"
  /\ stopped = FALSE
  /\ baseline = {None}
  /\ reported = {}

-----------------------------------------------------------------------------
(* The repository, used by people and by Sidecar's own tasks.               *)

Commit ==
  /\ \E f \in Fresh :
       /\ f > latest
       /\ latest' = f
       /\ ancestors' = [c \in Exists \cup {f} |->
                          IF c = f THEN Reachable(HeadCommit) \cup {f} ELSE ancestors[c]]
       /\ branch' = [branch EXCEPT ![current] = f]
  /\ UNCHANGED <<current, lastSeen, batch, running, stopped, baseline, reported>>

Checkout ==
  /\ \E b \in Branches \ {current} : branch[b] # None /\ current' = b
  /\ UNCHANGED <<ancestors, branch, latest, lastSeen, batch, running, stopped, baseline, reported>>

\* git reset, a forced pull, a rebase: the branch now ends somewhere else.
Rewrite ==
  /\ \E c \in Exists : branch' = [branch EXCEPT ![current] = c]
  /\ UNCHANGED <<ancestors, current, latest, lastSeen, batch, running, stopped, baseline, reported>>

\* git gc: commits that no branch has are gone, lastSeen perhaps among them.
CollectGarbage ==
  /\ GitFaults
  /\ LET live == UNION {Reachable(branch[b]) : b \in Branches}
     IN  ancestors' = [c \in live |-> ancestors[c]]
  /\ UNCHANGED <<branch, current, latest, lastSeen, batch, running, stopped, baseline, reported>>

-----------------------------------------------------------------------------
(* The adapter.                                                            *)

\* A HEAD that cannot be read leaves lastSeen empty.
Start ==
  /\ running = "no"
  /\ running' = "yes"
  /\ \/ /\ HeadCommit # None
        /\ lastSeen' = HeadCommit
        /\ baseline' = Reachable(HeadCommit)
     \/ /\ HeadCommit = None \/ GitFaults
        /\ UNCHANGED <<lastSeen, baseline>>
  /\ UNCHANGED <<repoVars, batch, stopped, reported>>

\* git log: what HEAD has and lastSeen has not; without a lastSeen only the
\* newest commit.
NewCommits ==
  IF lastSeen = None
  THEN {HeadCommit} \ {None}
  ELSE Reachable(HeadCommit) \ Reachable(lastSeen)

\* A git that fails (an unknown lastSeen) ends the poll with nothing changed.
Poll ==
  /\ running = "yes"
  /\ batch = {}
  /\ lastSeen \in Exists \cup {None}
  /\ NewCommits # {}
  /\ batch' = NewCommits
  /\ UNCHANGED <<repoVars, lastSeen, running, stopped, baseline, reported>>

\* Mutant: the poll ends by reading HEAD again.
SendCommitThenReadHead ==
  /\ running = "yes"
  /\ \E c \in batch :
       /\ \A d \in batch : c <= d
       /\ reported' = reported \cup {c}
       /\ batch' = batch \ {c}
       /\ lastSeen' = IF batch = {c} THEN HeadCommit ELSE lastSeen
  /\ UNCHANGED <<repoVars, running, stopped, baseline>>

\* Mutant: of the commits a poll finds only one is sent.
SendOneCommit ==
  /\ running = "yes"
  /\ \E c \in batch :
       /\ \A d \in batch : c <= d
       /\ reported' = reported \cup {c}
       /\ batch' = {}
       /\ lastSeen' = CHOOSE d \in batch : \A e \in batch : e <= d
  /\ UNCHANGED <<repoVars, running, stopped, baseline>>

\* The daemon takes the oldest commit; with the last one the poll is over.
SendCommit ==
  /\ running = "yes"
  /\ \E c \in batch :
       /\ \A d \in batch : c <= d
       /\ reported' = reported \cup {c}
       /\ batch' = batch \ {c}
       /\ lastSeen' = IF batch = {c} THEN c ELSE lastSeen
  /\ UNCHANGED <<repoVars, running, stopped, baseline>>

\* Close stopCh.
Stop ==
  /\ running = "yes"
  /\ ~ stopped
  /\ stopped' = TRUE
  /\ UNCHANGED <<repoVars, lastSeen, batch, running, baseline, reported>>

\* A stopped poll returns in the middle of its batch; lastSeen stays.
GoroutineReturns ==
  /\ running = "yes"
  /\ stopped
  /\ running' = "over"
  /\ batch' = {}
  /\ UNCHANGED <<repoVars, lastSeen, stopped, baseline, reported>>

-----------------------------------------------------------------------------
Next ==
  \/ Commit \/ Checkout \/ Rewrite \/ CollectGarbage
  \/ Start \/ Poll \/ SendCommit \/ Stop \/ GoroutineReturns

Spec == Init /\ [][Next]_vars

\* The ticker fires and the daemon makes room; people need not do anything.
FairSpec == Spec /\ WF_vars(Poll) /\ WF_vars(SendCommit)

-----------------------------------------------------------------------------
(* Properties.                                                             *)

HeadWasRead == None \notin baseline

\* A commit is reported only after everything it is built on, except what HEAD
\* had at the start, whatever branches were switched or rewritten in between
\* (git.go:64-78, 86).
NoCommitSkipped ==
  HeadWasRead => \A c \in reported : Reachable(c) \subseteq baseline \cup reported

\* What the adapter will never look at again, because lastSeen has it, has been
\* reported or was there at the start: commits that arrive while a batch waits
\* for the daemon are not lost (git.go:78).
SeenIsReported ==
  HeadWasRead => Reachable(lastSeen) \subseteq baseline \cup reported

\* A new commit that stays on the checked-out branch is reported, as long as
\* the adapter is not stopped and git keeps lastSeen (git.go:59-79).
LastingCommitsAreReported ==
  \A c \in Fresh :
    <>[](c \in Reachable(HeadCommit) \ baseline /\ running = "yes" /\ HeadWasRead)
      => <>(c \in reported)

\* The documented promise that history from before the start is never reported.
HistoryIsNotReprocessed == HeadWasRead => reported \cap Old = {}

=============================================================================
