------------------------------ MODULE ChangeSet ------------------------------
(***************************************************************************)
(* The git side of one task: the worktree that internal/worktree creates   *)
(* and the snapshot operations of internal/changeset on it.  Contents are  *)
(* abstract: a tree gives every path a version, so the canonical patch of  *)
(* a tree relative to the task base, its SHA-256 digest and its path       *)
(* manifest identify the tree, and comparing two snapshots is comparing    *)
(* two trees.  Untracked files that git ignores are in no tree.            *)
(***************************************************************************)

CONSTANTS
  Paths,      \* worktree-relative paths
  Versions,   \* contents a path may have; being absent is a version too
  BaseTree,   \* the tree of the task base commit
  Excluded,   \* paths a built-in or configured exclusion pattern matches
  NoTree      \* "there is no tree": no snapshot, nothing pushed

Trees == [Paths -> Versions]

ASSUME ChangeSetAssumption ==
  /\ BaseTree \in Trees
  /\ Excluded \subseteq Paths
  /\ NoTree \notin Trees

(***************************************************************************)
(* Where HEAD of the worktree may point: the task branch sidecar/<id>,     *)
(* another ref that descends from the task base (a branch made by the      *)
(* agent, or a detached HEAD), or history the base is not an ancestor of.  *)
(***************************************************************************)
Refs == {"task", "other", "orphan"}

Repos == [head : Refs, tip : [Refs -> Trees], index : Trees, work : Trees]

\* git worktree add -b sidecar/<id>: everything is at the task base.
FreshRepo ==
  [head |-> "task", tip |-> [ref \in Refs |-> BaseTree],
   index |-> BaseTree, work |-> BaseTree]

-----------------------------------------------------------------------------
(* What a shell running in the worktree (the coding agent, a verification  *)
(* command, an evaluator tool) may do to the repository, one git operation *)
(* at a time; refs are the places it may move HEAD to, none of them for a  *)
(* tool that edits files and runs no git command.                          *)

Edited(g, t)   == [g EXCEPT !.work = t]
Staged(g)      == [g EXCEPT !.index = g.work]
SelfCommitted(g) == [g EXCEPT !.tip[g.head] = g.index]

\* git checkout -b / --orphan keeps the files; going back restores the branch.
Switched(g, ref) ==
  IF ref = "task"
  THEN [g EXCEPT !.head = ref, !.index = g.tip[ref], !.work = g.tip[ref]]
  ELSE [g EXCEPT !.head = ref, !.tip[ref] = g.tip[g.head]]

ToolMoves(g, refs) ==
  {Edited(g, t) : t \in Trees}
    \cup (IF refs = {} THEN {} ELSE {Staged(g), SelfCommitted(g)})
    \cup {Switched(g, ref) : ref \in refs \ {g.head}}

-----------------------------------------------------------------------------
(* internal/changeset.                                                     *)

\* The worktree with every excluded path put back to the base version.
Eligible(t) == [p \in Paths |-> IF p \in Excluded THEN BaseTree[p] ELSE t[p]]

Manifest(t) == {p \in Paths : t[p] # BaseTree[p]}

StagedSnapshot(g)    == g.index
CommittedSnapshot(g) == g.tip[g.head]

\* workspaceHasChanges: the worktree differs from the base, or git status is
\* not empty.
HasChanges(g) ==
  ~ (g.work = BaseTree /\ g.index = g.work /\ g.tip[g.head] = g.index)

BaseIsAncestor(g) == g.head # "orphan"

\* git reset --mixed <base>: moves the ref HEAD is on, and the index.
Normalized(g) == [g EXCEPT !.tip[g.head] = BaseTree, !.index = BaseTree]

\* Mutant: the excluded paths are not taken out again.
PreparedUnfiltered(g) == [Normalized(g) EXCEPT !.index = g.work]

\* git add -A, then every excluded path is reset to the base.
Prepared(g) == [Normalized(g) EXCEPT !.index = Eligible(g.work)]

\* What a failed Prepare leaves: nothing rewritten before the ancestor check,
\* perhaps normalized after it.
HalfPrepared(g) == IF BaseIsAncestor(g) THEN {g, Normalized(g)} ELSE {g}

\* The index, not HEAD, is compared: a self-commit alone goes unnoticed here.
VerifyPrepared(g, approved) == StagedSnapshot(g) = approved

\* git commit refuses an index equal to HEAD, unless the branch has no commit
\* yet; a commit hook may restage.
CanCommit(g) == g.head = "orphan" \/ g.index # g.tip[g.head]
CommitResults(g) == {[g EXCEPT !.tip[g.head] = t, !.index = t] : t \in Trees}

VerifyCommitted(g, approved) == CommittedSnapshot(g) = approved

=============================================================================
