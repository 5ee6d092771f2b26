--------------------------- MODULE RepairLoopProofs ---------------------------
(***************************************************************************)
(* Theorems about RepairLoop that hold for every set of runs, every        *)
(* repository content, every configuration and every fault switch.         *)
(***************************************************************************)
EXTENDS RepairLoop, TLAPS

-----------------------------------------------------------------------------
(* The git operations stay inside the type of repositories.                *)

\* A worktree starts as a repository (worktree.go:27-62).
LEMMA FreshRepoType == FreshRepo \in Repos
  BY ChangeSetAssumption DEF FreshRepo, Repos, Refs

\* Filtering a tree gives a tree (changeset.go:44-66).
LEMMA EligibleType == ASSUME NEW t \in Trees PROVE Eligible(t) \in Trees
  BY ChangeSetAssumption DEF Eligible, Trees

\* Nothing a tool does to its worktree leaves the type.
LEMMA ToolMovesType ==
  ASSUME NEW g \in Repos, NEW refs \in SUBSET Refs, NEW h \in ToolMoves(g, refs)
  PROVE  h \in Repos
<1>1. ASSUME NEW t \in Trees PROVE Edited(g, t) \in Repos
  BY DEF Edited, Repos
<1>2. Staged(g) \in Repos
  BY DEF Staged, Repos
<1>3. SelfCommitted(g) \in Repos
  BY DEF SelfCommitted, Repos
<1>4. ASSUME NEW ref \in Refs PROVE Switched(g, ref) \in Repos
  BY DEF Switched, Repos
<1>. QED BY <1>1, <1>2, <1>3, <1>4 DEF ToolMoves

\* Prepare, complete or not, leaves a repository (changeset.go:32-70).
LEMMA PrepareType ==
  ASSUME NEW g \in Repos
  PROVE  /\ Prepared(g) \in Repos
         /\ StagedSnapshot(Prepared(g)) \in Trees
         /\ HalfPrepared(g) \subseteq Repos
<1>1. Normalized(g) \in Repos
  BY ChangeSetAssumption DEF Normalized, Repos
<1>2. Eligible(g.work) \in Trees
  BY EligibleType DEF Repos
<1>3. Prepared(g) \in Repos /\ Prepared(g).index \in Trees
  BY <1>1, <1>2 DEF Prepared, Repos
<1>. QED BY <1>1, <1>3 DEF HalfPrepared, StagedSnapshot

\* So does a commit, whatever hooks do to it (changeset.go:79-93).
LEMMA CommitType ==
  ASSUME NEW g \in Repos PROVE CommitResults(g) \subseteq Repos
<1>1. SUFFICES ASSUME NEW t \in Trees
               PROVE  [g EXCEPT !.tip[g.head] = t, !.index = t] \in Repos
  BY DEF CommitResults
<1>. QED BY DEF Repos

-----------------------------------------------------------------------------
(* The helpers of the actions.                                             *)

\* Every point a call goes to is a point.
LEMMA GotoType ==
  ASSUME TypeOK, NEW r \in Runs, NEW point \in Points, Goto(r, point)
  PROVE  pc' \in [Runs -> Points]
  BY DEF TypeOK, Goto

\* Events are appended to, and only with known types.
LEMMA LogType ==
  ASSUME TypeOK, NEW r \in Runs, NEW types \in SUBSET EventTypes, Log(r, types)
  PROVE  events' \in [Runs -> SUBSET EventTypes]
  BY DEF TypeOK, Log

\* Token counts stay natural numbers.
LEMMA SpendType ==
  ASSUME TypeOK, Spend PROVE spent' \in Nat
  BY RepairLoopAssumption DEF TypeOK, Spend

\* A decided call has a plan, and goes on to record or to discard.
LEMMA ConcludeType ==
  ASSUME TypeOK, NEW r \in Runs, NEW log \in SUBSET EventTypes,
         NEW status \in Terminal, NEW note \in Notes,
         NEW drop \in {"never", "early", "late"},
         Conclude(r, log, status, note, drop)
  PROVE  plan' \in [Runs -> Plans] /\ pc' \in [Runs -> Points]
<1>1. [status |-> status, note |-> note, drop |-> drop, log |-> log] \in Plans
  BY DEF Plans
<1>2. "discard" \in Points /\ "record" \in Points
  BY DEF Points
<1>. QED BY <1>1, <1>2 DEF TypeOK, Conclude, Goto

\* A fault switch is on or off.
LEMMA GitFaultsType == GitFaults \in BOOLEAN
  BY RepairLoopAssumption

-----------------------------------------------------------------------------
(* Type correctness.                                                       *)

\* TypeOK is inductive: one step per action, grouped as in RepairLoop.
LEMMA StepTypeOK == TypeOK /\ [Next]_vars => TypeOK'
<1>. SUFFICES ASSUME TypeOK, [Next]_vars PROVE TypeOK'
  OBVIOUS
<1>. USE DEF dbVars, callVars, gitVars, outVars
<1>1. ASSUME NEW r \in Runs, Dedup(r) PROVE TypeOK'
  BY <1>1, GotoType
     DEF TypeOK, Dedup, Points
<1>2. ASSUME NEW r \in Runs, CreateTask(r) PROVE TypeOK'
  BY <1>2, GotoType
     DEF TypeOK, CreateTask, Points, Statuses
<1>3. ASSUME NEW r \in Runs, BudgetGate(r) PROVE TypeOK'
  BY <1>3, GotoType, ConcludeType
     DEF TypeOK, BudgetGate, Continue, Points, Terminal, Notes, EventTypes
<1>4. ASSUME NEW r \in Runs, Triage(r) PROVE TypeOK'
  BY <1>4, GotoType, ConcludeType, LogType, SpendType, RepairLoopAssumption
     DEF TypeOK, Triage, Continue, Points, Terminal, Notes, EventTypes
<1>5. ASSUME NEW r \in Runs, StartRunning(r) PROVE TypeOK'
  BY <1>5, GotoType
     DEF TypeOK, StartRunning, Points, Statuses
<1>6. ASSUME NEW r \in Runs, AttachWorkspace(r) PROVE TypeOK'
  BY <1>6, GotoType, LogType
     DEF TypeOK, AttachWorkspace, Points, EventTypes
<1>7. ASSUME NEW r \in Runs, CreateWorktree(r) PROVE TypeOK'
  BY <1>7, GotoType, LogType, FreshRepoType
     DEF TypeOK, CreateWorktree, Points, EventTypes
<1>8. ASSUME NEW r \in Runs, CreateWorktreeFails(r) PROVE TypeOK'
  <2>1. branch' \in [Runs -> BOOLEAN]
    BY <1>8, GitFaultsType DEF TypeOK, CreateWorktreeFails
  <2>2. plan' \in [Runs -> Plans] /\ pc' \in [Runs -> Points]
    BY <1>8, ConcludeType DEF CreateWorktreeFails, Terminal, Notes
  <2>. QED BY <1>8, <2>1, <2>2 DEF TypeOK, CreateWorktreeFails
<1>9. ASSUME NEW r \in Runs, Preflight(r) PROVE TypeOK'
  BY <1>9, GotoType, ConcludeType
     DEF TypeOK, Preflight, Continue, Fail, Points, Terminal, Notes, EventTypes
<1>10. ASSUME NEW r \in Runs, ToolActs(r) PROVE TypeOK'
  BY <1>10, ToolMovesType, RepairLoopAssumption
     DEF TypeOK, ToolActs
<1>11. ASSUME NEW r \in Runs, CodingFails(r) PROVE TypeOK'
  BY <1>11, ConcludeType, SpendType
     DEF TypeOK, CodingFails, Fail, AgentStops, Terminal, Notes, EventTypes
<1>12. ASSUME NEW r \in Runs, CodingIncomplete(r) PROVE TypeOK'
  BY <1>12, ConcludeType, LogType, SpendType
     DEF TypeOK, CodingIncomplete, AgentStops, Terminal, Notes, EventTypes
<1>13. ASSUME NEW r \in Runs, CodingCompletes(r) PROVE TypeOK'
  BY <1>13, GotoType, ConcludeType, LogType, SpendType
     DEF TypeOK, CodingCompletes, Continue, Points, Terminal, Notes, EventTypes
<1>14. ASSUME NEW r \in Runs, Review(r) PROVE TypeOK'
  BY <1>14, SpendType
     DEF TypeOK, Review
<1>15. ASSUME NEW r \in Runs, PrepareChangeSet(r) PROVE TypeOK'
  BY <1>15, GotoType, LogType, PrepareType
     DEF TypeOK, PrepareChangeSet, NextCheck, Points, EventTypes
<1>16. ASSUME NEW r \in Runs, PrepareFails(r) PROVE TypeOK'
  BY <1>16, ConcludeType, PrepareType
     DEF TypeOK, PrepareFails, FailChangeSet, Fail, Terminal, Notes, EventTypes
<1>17. ASSUME NEW r \in Runs, IndexDrifted(r) PROVE TypeOK'
  BY <1>17, ConcludeType, SpendType
     DEF TypeOK, IndexDrifted, FailChangeSet, Fail, Terminal, Notes, EventTypes
<1>18. ASSUME NEW r \in Runs, CommandPasses(r) PROVE TypeOK'
  BY <1>18, GotoType, LogType
     DEF TypeOK, CommandPasses, NextCheck, StagedSnapshot, Repos, Points,
         EventTypes
<1>19. ASSUME NEW r \in Runs, CommandFails(r) PROVE TypeOK'
  BY <1>19, ConcludeType
     DEF TypeOK, CommandFails, Fail, Terminal, Notes, EventTypes
<1>20. ASSUME NEW r \in Runs, EvaluationPasses(r) PROVE TypeOK'
  BY <1>20, GotoType, LogType, SpendType
     DEF TypeOK, EvaluationPasses, Evaluated, Continue, Verdicts, Points,
         EventTypes
<1>21. ASSUME NEW r \in Runs, EvaluationRejects(r) PROVE TypeOK'
  BY <1>21, ConcludeType, LogType, SpendType
     DEF TypeOK, EvaluationRejects, Evaluated, Suggest, Verdicts, Terminal,
         Notes, EventTypes
<1>22. ASSUME NEW r \in Runs, EvaluationPreserved(r) PROVE TypeOK'
  BY <1>22, GotoType, LogType, SpendType
     DEF TypeOK, EvaluationPreserved, Evaluated, LogUnevaluated, Continue,
         Verdicts, Points, EventTypes
<1>23. ASSUME NEW r \in Runs, EvaluationAbandoned(r) PROVE TypeOK'
  <2>1. PICK v \in {"incomplete", "error"} :
          /\ Evaluated(r, v) /\ LogUnevaluated(r, v) /\ UNCHANGED draft
          /\ IF policy[r].onError = "fail" THEN Fail(r, {}) ELSE Suggest(r)
    BY <1>23 DEF EvaluationAbandoned
  <2>2. plan' \in [Runs -> Plans] /\ pc' \in [Runs -> Points]
    BY <2>1, ConcludeType DEF Fail, Suggest, Terminal, Notes, EventTypes
  <2>3. events' \in [Runs -> SUBSET EventTypes]
    BY <2>1, LogType DEF LogUnevaluated, EventTypes
  <2>. QED BY <2>1, <2>2, <2>3, SpendType DEF TypeOK, Evaluated, Verdicts
<1>24. ASSUME NEW r \in Runs, NothingToCommit(r) PROVE TypeOK'
  BY <1>24, ConcludeType
     DEF TypeOK, NothingToCommit, Terminal, Notes
<1>25. ASSUME NEW r \in Runs, CommitRepair(r) PROVE TypeOK'
  BY <1>25, GotoType, ConcludeType, LogType, CommitType
     DEF TypeOK, CommitRepair, Continue, Points, Terminal, Notes, EventTypes
<1>26. ASSUME NEW r \in Runs, CommitFails(r) PROVE TypeOK'
  BY <1>26, ConcludeType, CommitType
     DEF TypeOK, CommitFails, FailChangeSet, Fail, Terminal, Notes, EventTypes
<1>27. ASSUME NEW r \in Runs, PushBranch(r) PROVE TypeOK'
  BY <1>27, GotoType
     DEF TypeOK, PushBranch, Push, Repos, Refs, Points
<1>28. ASSUME NEW r \in Runs, PushFails(r) PROVE TypeOK'
  <2>1. pushed' \in [Runs -> Trees \cup {NoTree}]
    BY <1>28 DEF TypeOK, PushFails, Push, Repos, Refs
  <2>2. plan' \in [Runs -> Plans] /\ pc' \in [Runs -> Points]
    BY <1>28, ConcludeType
       DEF PushFails, FailDelivery, Terminal, Notes, EventTypes
  <2>. QED BY <1>28, <2>1, <2>2 DEF TypeOK, PushFails
<1>29. ASSUME NEW r \in Runs, AutomationOpensCR(r) PROVE TypeOK'
  BY <1>29
     DEF TypeOK, AutomationOpensCR
<1>30. ASSUME NEW r \in Runs, OpenChangeRequest(r) PROVE TypeOK'
  BY <1>30, ConcludeType, LogType
     DEF TypeOK, OpenChangeRequest, Opened, ConcludeDelivered, Terminal, Notes,
         EventTypes
<1>31. ASSUME NEW r \in Runs, ReuseChangeRequest(r) PROVE TypeOK'
  BY <1>31, ConcludeType, LogType
     DEF TypeOK, ReuseChangeRequest, ConcludeDelivered, Terminal, Notes,
         EventTypes
<1>32. ASSUME NEW r \in Runs, RequestFails(r) PROVE TypeOK'
  BY <1>32, ConcludeType, LogType
     DEF TypeOK, RequestFails, Opened, FailDelivery, Terminal, Notes, EventTypes
<1>33. ASSUME NEW r \in Runs, Record(r) PROVE TypeOK'
  <2>1. plan[r].status \in Statuses /\ plan[r].log \subseteq EventTypes
    BY DEF TypeOK, Plans, Statuses
  <2>2. pc' \in [Runs -> Points]
    BY <1>33, GotoType DEF Record, Points
  <2>3. events' \in [Runs -> SUBSET EventTypes]
    BY <1>33, <2>1, LogType DEF Record
  <2>. QED BY <1>33, <2>1, <2>2, <2>3 DEF TypeOK, Record
<1>34. ASSUME NEW r \in Runs, Notify(r) PROVE TypeOK'
  BY <1>34, GotoType
     DEF TypeOK, Notify, Plans, Points
<1>35. ASSUME NEW r \in Runs, DiscardWorktree(r) PROVE TypeOK'
  <2>1. branch' \in [Runs -> BOOLEAN]
    BY <1>35, GitFaultsType DEF TypeOK, DiscardWorktree
  <2>2. pc' \in [Runs -> Points]
    BY <1>35, GotoType DEF DiscardWorktree, Points
  <2>. QED BY <1>35, <2>1, <2>2 DEF TypeOK, DiscardWorktree
<1>36. ASSUME NEW r \in Runs, Exit(r) PROVE TypeOK'
  BY <1>36, GotoType
     DEF TypeOK, Exit, Points
<1>37. ASSUME NEW r \in Runs, Crash(r) PROVE TypeOK'
  BY <1>37, GotoType
     DEF TypeOK, Crash, Points
<1>38. CASE NewDay
  BY <1>38 DEF TypeOK, NewDay
<1>39. CASE UNCHANGED vars
  BY <1>39 DEF TypeOK, vars
<1>. QED
  BY <1>1, <1>2, <1>3, <1>4, <1>5, <1>6, <1>7, <1>8, <1>9, <1>10, <1>11, <1>12,
     <1>13, <1>14, <1>15, <1>16, <1>17, <1>18, <1>19, <1>20, <1>21, <1>22,
     <1>23, <1>24, <1>25, <1>26, <1>27, <1>28, <1>29, <1>30, <1>31, <1>32,
     <1>33, <1>34, <1>35, <1>36, <1>37, <1>38, <1>39
     DEF Next, Step, Terminated

\* In every reachable state every variable has the type the code gives it.
THEOREM TypeCorrect == Spec => []TypeOK
<1>1. Init => TypeOK
  <2>. SUFFICES ASSUME Init PROVE TypeOK
    OBVIOUS
  <2>1. NoPlan \in Plans
    BY DEF NoPlan, Plans, Terminal, Notes
  <2>2. policy \in [Runs -> AllPolicies]
    BY RepairLoopAssumption DEF Init
  <2>. QED
    BY <2>1, <2>2, FreshRepoType DEF Init, TypeOK, Statuses, Points, Verdicts
<1>. QED BY <1>1, StepTypeOK, PTL DEF Spec

-----------------------------------------------------------------------------
(* One task row per key.                                                  *)

\* A call that has passed the insert, and has not ended, owns a task row; two
\* runs with one key never own one each.
RowInv ==
  /\ \A r \in Runs : pc[r] \notin {"idle", "create", "returned", "dead"} => task[r] # "none"
  /\ AtMostOneTaskPerKey

\* RowInv is inductive: only the insert makes a row, and it looks first.
LEMMA StepRowInv == TypeOK /\ RowInv /\ [Next]_vars => RowInv'
<1>. SUFFICES ASSUME TypeOK, RowInv, [Next]_vars PROVE RowInv'
  OBVIOUS
<1>. USE DEF TypeOK, dbVars, callVars, gitVars, outVars, RowInv,
           AtMostOneTaskPerKey
<1>1. ASSUME NEW r \in Runs, Dedup(r) PROVE RowInv'
  BY <1>1 DEF Dedup, Goto
<1>2. ASSUME NEW r \in Runs, CreateTask(r) PROVE RowInv'
  BY <1>2 DEF CreateTask, Goto, TaskExists
<1>3. ASSUME NEW r \in Runs, BudgetGate(r) PROVE RowInv'
  BY <1>3 DEF BudgetGate, Continue, Conclude, Goto
<1>4. ASSUME NEW r \in Runs, Triage(r) PROVE RowInv'
  BY <1>4 DEF Triage, Continue, Conclude, Goto
<1>5. ASSUME NEW r \in Runs, StartRunning(r) PROVE RowInv'
  BY <1>5 DEF StartRunning, Goto
<1>6. ASSUME NEW r \in Runs, AttachWorkspace(r) PROVE RowInv'
  BY <1>6 DEF AttachWorkspace, Goto
<1>7. ASSUME NEW r \in Runs, CreateWorktree(r) PROVE RowInv'
  BY <1>7 DEF CreateWorktree, Goto
<1>8. ASSUME NEW r \in Runs, CreateWorktreeFails(r) PROVE RowInv'
  BY <1>8 DEF CreateWorktreeFails, Conclude, Goto
<1>9. ASSUME NEW r \in Runs, Preflight(r) PROVE RowInv'
  BY <1>9 DEF Preflight, Continue, Fail, Conclude, Goto
<1>10. ASSUME NEW r \in Runs, ToolActs(r) PROVE RowInv'
  BY <1>10 DEF ToolActs
<1>11. ASSUME NEW r \in Runs, CodingFails(r) PROVE RowInv'
  BY <1>11 DEF CodingFails, Fail, Conclude, Goto
<1>12. ASSUME NEW r \in Runs, CodingIncomplete(r) PROVE RowInv'
  BY <1>12 DEF CodingIncomplete, Conclude, Goto
<1>13. ASSUME NEW r \in Runs, CodingCompletes(r) PROVE RowInv'
  BY <1>13 DEF CodingCompletes, Continue, Conclude, Goto
<1>14. ASSUME NEW r \in Runs, Review(r) PROVE RowInv'
  BY <1>14 DEF Review
<1>15. ASSUME NEW r \in Runs, PrepareChangeSet(r) PROVE RowInv'
  BY <1>15 DEF PrepareChangeSet, NextCheck, Goto
<1>16. ASSUME NEW r \in Runs, PrepareFails(r) PROVE RowInv'
  BY <1>16 DEF PrepareFails, FailChangeSet, Fail, Conclude, Goto
<1>17. ASSUME NEW r \in Runs, IndexDrifted(r) PROVE RowInv'
  BY <1>17 DEF IndexDrifted, FailChangeSet, Fail, Conclude, Goto
<1>18. ASSUME NEW r \in Runs, CommandPasses(r) PROVE RowInv'
  BY <1>18 DEF CommandPasses, NextCheck, Goto
<1>19. ASSUME NEW r \in Runs, CommandFails(r) PROVE RowInv'
  BY <1>19 DEF CommandFails, Fail, Conclude, Goto
<1>20. ASSUME NEW r \in Runs, EvaluationPasses(r) PROVE RowInv'
  BY <1>20 DEF EvaluationPasses, Evaluated, Continue, Goto
<1>21. ASSUME NEW r \in Runs, EvaluationRejects(r) PROVE RowInv'
  BY <1>21 DEF EvaluationRejects, Evaluated, Suggest, Conclude, Goto
<1>22. ASSUME NEW r \in Runs, EvaluationPreserved(r) PROVE RowInv'
  BY <1>22 DEF EvaluationPreserved, Evaluated, Continue, Goto
<1>23. ASSUME NEW r \in Runs, EvaluationAbandoned(r) PROVE RowInv'
  BY <1>23 DEF EvaluationAbandoned, Evaluated, Fail, Suggest, Conclude, Goto
<1>24. ASSUME NEW r \in Runs, NothingToCommit(r) PROVE RowInv'
  BY <1>24 DEF NothingToCommit, Conclude, Goto
<1>25. ASSUME NEW r \in Runs, CommitRepair(r) PROVE RowInv'
  BY <1>25 DEF CommitRepair, Continue, Conclude, Goto
<1>26. ASSUME NEW r \in Runs, CommitFails(r) PROVE RowInv'
  BY <1>26 DEF CommitFails, FailChangeSet, Fail, Conclude, Goto
<1>27. ASSUME NEW r \in Runs, PushBranch(r) PROVE RowInv'
  BY <1>27 DEF PushBranch, Goto
<1>28. ASSUME NEW r \in Runs, PushFails(r) PROVE RowInv'
  BY <1>28 DEF PushFails, FailDelivery, Conclude, Goto
<1>29. ASSUME NEW r \in Runs, AutomationOpensCR(r) PROVE RowInv'
  BY <1>29 DEF AutomationOpensCR
<1>30. ASSUME NEW r \in Runs, OpenChangeRequest(r) PROVE RowInv'
  BY <1>30 DEF OpenChangeRequest, ConcludeDelivered, Conclude, Goto
<1>31. ASSUME NEW r \in Runs, ReuseChangeRequest(r) PROVE RowInv'
  BY <1>31 DEF ReuseChangeRequest, ConcludeDelivered, Conclude, Goto
<1>32. ASSUME NEW r \in Runs, RequestFails(r) PROVE RowInv'
  BY <1>32 DEF RequestFails, FailDelivery, Conclude, Goto
<1>33. ASSUME NEW r \in Runs, Record(r) PROVE RowInv'
  <2>1. plan[r].status # "none" /\ task[r] # "none"
    BY <1>33 DEF Record, Plans, Terminal
  <2>2. /\ task' \in {task, [task EXCEPT ![r] = plan[r].status]}
        /\ pc' = [pc EXCEPT ![r] = "notify"]
    BY <1>33 DEF Record, Goto
  <2>3. \A q \in Runs : task'[q] = "none" <=> task[q] = "none"
    BY <2>1, <2>2
  <2>4. \A q \in Runs : pc'[q] \notin {"idle", "create", "returned", "dead"} => task'[q] # "none"
    BY <2>1, <2>2, <2>3
  <2>5. AtMostOneTaskPerKey'
    BY <2>3
  <2>. QED BY <2>4, <2>5
<1>34. ASSUME NEW r \in Runs, Notify(r) PROVE RowInv'
  BY <1>34 DEF Notify, Goto
<1>35. ASSUME NEW r \in Runs, DiscardWorktree(r) PROVE RowInv'
  BY <1>35 DEF DiscardWorktree, Goto
<1>36. ASSUME NEW r \in Runs, Exit(r) PROVE RowInv'
  BY <1>36 DEF Exit, Goto
<1>37. ASSUME NEW r \in Runs, Crash(r) PROVE RowInv'
  BY <1>37 DEF Crash, Goto
<1>38. CASE NewDay
  BY <1>38 DEF NewDay
<1>39. CASE UNCHANGED vars
  BY <1>39 DEF vars
<1>. QED
  BY <1>1, <1>2, <1>3, <1>4, <1>5, <1>6, <1>7, <1>8, <1>9, <1>10, <1>11, <1>12,
     <1>13, <1>14, <1>15, <1>16, <1>17, <1>18, <1>19, <1>20, <1>21, <1>22,
     <1>23, <1>24, <1>25, <1>26, <1>27, <1>28, <1>29, <1>30, <1>31, <1>32,
     <1>33, <1>34, <1>35, <1>36, <1>37, <1>38, <1>39
     DEF Next, Step, Terminated


\* However many daemons and task processes see a failure, one of them works on
\* it: the partial unique index decides (schema.sql:18-20, loop.go:212-232).
THEOREM OneTaskPerKey == Spec => []AtMostOneTaskPerKey
<1>1. Init => RowInv
  BY DEF Init, RowInv, AtMostOneTaskPerKey
<1>2. RowInv => AtMostOneTaskPerKey
  BY DEF RowInv
<1>. QED BY <1>1, <1>2, TypeCorrect, StepRowInv, PTL DEF Spec

-----------------------------------------------------------------------------
(* What is pushed is what was approved.                                    *)

\* The call has decided how it ends.
Concluded == {"record", "notify", "discard", "exit", "returned", "dead"}

\* The snapshot never holds an excluded change, a call about to push has the
\* snapshot at the tip of its branch, and nothing moves after the push.
PublicationInv ==
  /\ \A r \in Runs : pushed[r] # NoTree => pc[r] \in {"request"} \cup Concluded
  /\ \A r \in Runs : approved[r] # NoTree =>
       \A p \in Excluded : approved[r][p] = BaseTree[p]
  /\ \A r \in Runs : pc[r] = "deliver" /\ OnTaskBranch(r) =>
       approved[r] # NoTree /\ repo[r].tip["task"] = approved[r]
  /\ PublishedIsApproved

\* PublicationInv is inductive.
LEMMA StepPublicationInv == TypeOK /\ PublicationInv /\ [Next]_vars => PublicationInv'
<1>. SUFFICES ASSUME TypeOK, PublicationInv, [Next]_vars PROVE PublicationInv'
  OBVIOUS
<1>. USE DEF TypeOK, dbVars, callVars, gitVars, outVars, PublicationInv,
           PublishedIsApproved, OnTaskBranch, Concluded
<1>1. ASSUME NEW r \in Runs, Dedup(r) PROVE PublicationInv'
  BY <1>1 DEF Dedup, Goto
<1>2. ASSUME NEW r \in Runs, CreateTask(r) PROVE PublicationInv'
  BY <1>2 DEF CreateTask, Goto
<1>3. ASSUME NEW r \in Runs, BudgetGate(r) PROVE PublicationInv'
  BY <1>3 DEF BudgetGate, Continue, Conclude, Goto
<1>4. ASSUME NEW r \in Runs, Triage(r) PROVE PublicationInv'
  BY <1>4, SMTT(30) DEF Triage, Continue, Conclude, Goto
<1>5. ASSUME NEW r \in Runs, StartRunning(r) PROVE PublicationInv'
  BY <1>5 DEF StartRunning, Goto
<1>6. ASSUME NEW r \in Runs, AttachWorkspace(r) PROVE PublicationInv'
  BY <1>6 DEF AttachWorkspace, Goto
<1>7. ASSUME NEW r \in Runs, CreateWorktree(r) PROVE PublicationInv'
  BY <1>7 DEF CreateWorktree, Goto
<1>8. ASSUME NEW r \in Runs, CreateWorktreeFails(r) PROVE PublicationInv'
  BY <1>8 DEF CreateWorktreeFails, Conclude, Goto
<1>9. ASSUME NEW r \in Runs, Preflight(r) PROVE PublicationInv'
  BY <1>9 DEF Preflight, Continue, Fail, Conclude, Goto
<1>10. ASSUME NEW r \in Runs, ToolActs(r) PROVE PublicationInv'
  BY <1>10 DEF ToolActs
<1>11. ASSUME NEW r \in Runs, CodingFails(r) PROVE PublicationInv'
  BY <1>11 DEF CodingFails, Fail, Conclude, Goto
<1>12. ASSUME NEW r \in Runs, CodingIncomplete(r) PROVE PublicationInv'
  BY <1>12 DEF CodingIncomplete, Conclude, Goto
<1>13. ASSUME NEW r \in Runs, CodingCompletes(r) PROVE PublicationInv'
  BY <1>13 DEF CodingCompletes, Continue, Conclude, Goto
<1>14. ASSUME NEW r \in Runs, Review(r) PROVE PublicationInv'
  BY <1>14 DEF Review
<1>15. ASSUME NEW r \in Runs, PrepareChangeSet(r) PROVE PublicationInv'
  BY <1>15, ChangeSetAssumption
     DEF PrepareChangeSet, NextCheck, Goto, Prepared, Normalized,
         StagedSnapshot, Eligible
<1>16. ASSUME NEW r \in Runs, PrepareFails(r) PROVE PublicationInv'
  BY <1>16 DEF PrepareFails, FailChangeSet, Fail, Conclude, Goto
<1>17. ASSUME NEW r \in Runs, IndexDrifted(r) PROVE PublicationInv'
  BY <1>17 DEF IndexDrifted, FailChangeSet, Fail, Conclude, Goto
<1>18. ASSUME NEW r \in Runs, CommandPasses(r) PROVE PublicationInv'
  BY <1>18 DEF CommandPasses, NextCheck, Goto
<1>19. ASSUME NEW r \in Runs, CommandFails(r) PROVE PublicationInv'
  BY <1>19 DEF CommandFails, Fail, Conclude, Goto
<1>20. ASSUME NEW r \in Runs, EvaluationPasses(r) PROVE PublicationInv'
  BY <1>20 DEF EvaluationPasses, Evaluated, Continue, Goto
<1>21. ASSUME NEW r \in Runs, EvaluationRejects(r) PROVE PublicationInv'
  BY <1>21 DEF EvaluationRejects, Evaluated, Suggest, Conclude, Goto
<1>22. ASSUME NEW r \in Runs, EvaluationPreserved(r) PROVE PublicationInv'
  BY <1>22 DEF EvaluationPreserved, Evaluated, Continue, Goto
<1>23. ASSUME NEW r \in Runs, EvaluationAbandoned(r) PROVE PublicationInv'
  BY <1>23 DEF EvaluationAbandoned, Evaluated, Fail, Suggest, Conclude, Goto
<1>24. ASSUME NEW r \in Runs, NothingToCommit(r) PROVE PublicationInv'
  BY <1>24 DEF NothingToCommit, Conclude, Goto
<1>25. ASSUME NEW r \in Runs, CommitRepair(r) PROVE PublicationInv'
  <2>1. approved[r] # NoTree /\ pushed[r] = NoTree
    BY <1>25 DEF CommitRepair, Empty
  <2>2. PICK g \in CommitResults(repo[r]) :
          VerifyCommitted(g, approved[r]) /\ repo' = [repo EXCEPT ![r] = g]
    BY <1>25 DEF CommitRepair
  <2>3. OnTaskBranch(r)' => repo'[r].tip["task"] = approved[r]
    BY <2>2 DEF VerifyCommitted, CommittedSnapshot
  <2>4. \A q \in Runs : q # r => repo'[q] = repo[q]
    BY <2>2
  <2>5. /\ \A q \in Runs : q # r => pc'[q] = pc[q]
        /\ UNCHANGED <<approved, pushed>>
    BY <1>25 DEF CommitRepair, Continue, Conclude, Goto
  <2>. QED BY <2>1, <2>3, <2>4, <2>5
<1>26. ASSUME NEW r \in Runs, CommitFails(r) PROVE PublicationInv'
  BY <1>26 DEF CommitFails, FailChangeSet, Fail, Conclude, Goto
<1>27. ASSUME NEW r \in Runs, PushBranch(r) PROVE PublicationInv'
  BY <1>27 DEF PushBranch, Goto, Push
<1>28. ASSUME NEW r \in Runs, PushFails(r) PROVE PublicationInv'
  BY <1>28 DEF PushFails, FailDelivery, Conclude, Goto, Push
<1>29. ASSUME NEW r \in Runs, AutomationOpensCR(r) PROVE PublicationInv'
  BY <1>29 DEF AutomationOpensCR
<1>30. ASSUME NEW r \in Runs, OpenChangeRequest(r) PROVE PublicationInv'
  BY <1>30 DEF OpenChangeRequest, ConcludeDelivered, Conclude, Goto
<1>31. ASSUME NEW r \in Runs, ReuseChangeRequest(r) PROVE PublicationInv'
  BY <1>31 DEF ReuseChangeRequest, ConcludeDelivered, Conclude, Goto
<1>32. ASSUME NEW r \in Runs, RequestFails(r) PROVE PublicationInv'
  BY <1>32 DEF RequestFails, FailDelivery, Conclude, Goto
<1>33. ASSUME NEW r \in Runs, Record(r) PROVE PublicationInv'
  BY <1>33 DEF Record, Goto
<1>34. ASSUME NEW r \in Runs, Notify(r) PROVE PublicationInv'
  BY <1>34 DEF Notify, Goto
<1>35. ASSUME NEW r \in Runs, DiscardWorktree(r) PROVE PublicationInv'
  BY <1>35 DEF DiscardWorktree, Goto
<1>36. ASSUME NEW r \in Runs, Exit(r) PROVE PublicationInv'
  BY <1>36 DEF Exit, Goto
<1>37. ASSUME NEW r \in Runs, Crash(r) PROVE PublicationInv'
  BY <1>37 DEF Crash, Goto
<1>38. CASE NewDay
  BY <1>38 DEF NewDay
<1>39. CASE UNCHANGED vars
  BY <1>39 DEF vars
<1>. QED
  BY <1>1, <1>2, <1>3, <1>4, <1>5, <1>6, <1>7, <1>8, <1>9, <1>10, <1>11, <1>12,
     <1>13, <1>14, <1>15, <1>16, <1>17, <1>18, <1>19, <1>20, <1>21, <1>22,
     <1>23, <1>24, <1>25, <1>26, <1>27, <1>28, <1>29, <1>30, <1>31, <1>32,
     <1>33, <1>34, <1>35, <1>36, <1>37, <1>38, <1>39
     DEF Next, Step, Terminated


\* For every tree, exclusion and tool behaviour: with HEAD of the worktree on
\* the task branch, the remote branch is the approved snapshot and differs from
\* the base in no excluded path (changeset.go:32-100, loop.go:646-670).
THEOREM PublicationApproved == Spec => []PublishedIsApproved
<1>1. Init => PublicationInv
  BY DEF Init, PublicationInv, PublishedIsApproved
<1>2. PublicationInv => PublishedIsApproved
  BY DEF PublicationInv
<1>. QED BY <1>1, <1>2, TypeCorrect, StepPublicationInv, PTL DEF Spec

-----------------------------------------------------------------------------
(* Nothing ships past the gate.                                            *)

Unprepared ==
  {"idle", "create", "budget", "triage", "start", "workspace", "preflight", "coding"}
\* What the gate establishes about the run's change set.
GatePassed(r) ==
  /\ cmd[r] > Commands
  /\ judged[r] = approved[r]
  /\ \/ verdict[r] = "pass" /\ ~ draft[r]
     \/ verdict[r] \in {"incomplete", "error"} /\ draft[r] /\ PreservesAsDraft(r)

\* Commands are counted from one; only a repair with changes is gated.
GateEntry(r) ==
  /\ cmd[r] >= 1
  /\ pc[r] \in Unprepared => approved[r] = NoTree
  /\ pc[r] \in {"verify", "evaluate"} => ~ Empty(r)
  /\ draft[r] => pc[r] \in {"commit", "deliver", "request"} \cup Concluded /\ ~ Empty(r)
  /\ pc[r] = "evaluate" => cmd[r] > Commands /\ judged[r] = approved[r]

\* Between the gate and the end a change set is either empty, and then the task
\* branch is at the base, or it has passed the gate.
GateExit(r) ==
  /\ pc[r] = "commit" /\ Empty(r) /\ OnTaskBranch(r) => repo[r].tip["task"] = BaseTree
  /\ policy[r].verify /\ pc[r] = "commit" /\ ~ Empty(r) => GatePassed(r)
  /\ policy[r].verify /\ pc[r] \in {"deliver", "request"} => GatePassed(r)
  /\ pushed[r] # NoTree => pc[r] \in {"request"} \cup Concluded
  /\ policy[r].verify /\ pushed[r] # NoTree => GatePassed(r)

\* A task is completed only by a call that decided so, and then its branch is
\* gone, at the base, or holds a change set that passed.
GateOutcome(r) ==
  /\ plan[r].status = "completed" => pc[r] \in Concluded
  /\ task[r] = "completed" => plan[r].status = "completed"
  /\ policy[r].verify /\ plan[r].status = "completed" => ~ draft[r]
  /\ policy[r].verify /\ plan[r].status = "completed"
       /\ OnTaskBranch(r) /\ repo[r].tip["task"] # BaseTree => GatePassed(r)

GateInv == \A r \in Runs : GateEntry(r) /\ GateExit(r) /\ GateOutcome(r)

\* GateInv is inductive.
LEMMA StepGateInv == TypeOK /\ GateInv /\ [Next]_vars => GateInv'
<1>. SUFFICES ASSUME TypeOK, GateInv, [Next]_vars PROVE GateInv'
  OBVIOUS
<1>. USE DEF TypeOK, dbVars, callVars, gitVars, outVars, GateInv, GateEntry,
           GateExit, GateOutcome, GatePassed,
           OnTaskBranch, Unprepared, Concluded, Empty, PreservesAsDraft
<1>1. ASSUME NEW r \in Runs, Dedup(r) PROVE GateInv'
  BY <1>1 DEF Dedup, Goto
<1>2. ASSUME NEW r \in Runs, CreateTask(r) PROVE GateInv'
  BY <1>2 DEF CreateTask, Goto
<1>3. ASSUME NEW r \in Runs, BudgetGate(r) PROVE GateInv'
  BY <1>3 DEF BudgetGate, Continue, Conclude, Goto
<1>4. ASSUME NEW r \in Runs, Triage(r) PROVE GateInv'
  BY <1>4 DEF Triage, Continue, Conclude, Goto
<1>5. ASSUME NEW r \in Runs, StartRunning(r) PROVE GateInv'
  BY <1>5 DEF StartRunning, Goto
<1>6. ASSUME NEW r \in Runs, AttachWorkspace(r) PROVE GateInv'
  BY <1>6 DEF AttachWorkspace, Goto
<1>7. ASSUME NEW r \in Runs, CreateWorktree(r) PROVE GateInv'
  BY <1>7 DEF CreateWorktree, Goto
<1>8. ASSUME NEW r \in Runs, CreateWorktreeFails(r) PROVE GateInv'
  BY <1>8 DEF CreateWorktreeFails, Conclude, Goto
<1>9. ASSUME NEW r \in Runs, Preflight(r) PROVE GateInv'
  BY <1>9 DEF Preflight, Continue, Fail, Conclude, Goto
<1>10. ASSUME NEW r \in Runs, ToolActs(r) PROVE GateInv'
  BY <1>10 DEF ToolActs
<1>11. ASSUME NEW r \in Runs, CodingFails(r) PROVE GateInv'
  BY <1>11 DEF CodingFails, Fail, Conclude, Goto
<1>12. ASSUME NEW r \in Runs, CodingIncomplete(r) PROVE GateInv'
  BY <1>12 DEF CodingIncomplete, Conclude, Goto
<1>13. ASSUME NEW r \in Runs, CodingCompletes(r) PROVE GateInv'
  BY <1>13 DEF CodingCompletes, Continue, Conclude, Goto, HasChanges
<1>14. ASSUME NEW r \in Runs, Review(r) PROVE GateInv'
  BY <1>14 DEF Review
<1>15. ASSUME NEW r \in Runs, PrepareChangeSet(r) PROVE GateInv'
  <2>. DEFINE g == Prepared(repo[r])
              t == StagedSnapshot(g)
  <2>1. t \in Trees /\ t # NoTree
    BY PrepareType, ChangeSetAssumption
  <2>2. /\ repo' = [repo EXCEPT ![r] = g] /\ approved' = [approved EXCEPT ![r] = t]
        /\ UNCHANGED <<cmd, draft, verdict, plan, task, pushed, policy, autonomy>>
        /\ \A q \in Runs : q # r => pc'[q] = pc[q] /\ judged'[q] = judged[q]
    BY <1>15 DEF PrepareChangeSet, Goto
  <2>3. CASE Manifest(t) # {} /\ policy[r].verify
    <3>1. /\ pc'[r] \in {"verify", "evaluate"}
          /\ pc'[r] = "evaluate" => Commands <= 0 /\ judged'[r] = t
      BY <1>15, <2>3, RepairLoopAssumption
         DEF PrepareChangeSet, NextCheck, Goto, StagedSnapshot
    <3>2. ~ Empty(r)'
      BY <2>1, <2>2, <2>3
    <3>. QED BY <1>15, <2>1, <2>2, <3>1, <3>2, RepairLoopAssumption DEF PrepareChangeSet
  <2>4. CASE ~ (Manifest(t) # {} /\ policy[r].verify)
    <3>1. pc'[r] = "commit"
      BY <1>15, <2>4 DEF PrepareChangeSet, Goto, StagedSnapshot
    <3>2. OnTaskBranch(r)' => repo'[r].tip["task"] = BaseTree
      BY <2>2 DEF Prepared, Normalized, Repos
    <3>. QED BY <1>15, <2>1, <2>2, <2>4, <3>1, <3>2 DEF PrepareChangeSet
  <2>. QED BY <2>3, <2>4
<1>16. ASSUME NEW r \in Runs, PrepareFails(r) PROVE GateInv'
  BY <1>16 DEF PrepareFails, FailChangeSet, Fail, Conclude, Goto
<1>17. ASSUME NEW r \in Runs, IndexDrifted(r) PROVE GateInv'
  BY <1>17 DEF IndexDrifted, FailChangeSet, Fail, Conclude, Goto
<1>18. ASSUME NEW r \in Runs, CommandPasses(r) PROVE GateInv'
  BY <1>18, RepairLoopAssumption
     DEF CommandPasses, NextCheck, Goto, StagedSnapshot, VerifyPrepared
<1>19. ASSUME NEW r \in Runs, CommandFails(r) PROVE GateInv'
  BY <1>19 DEF CommandFails, Fail, Conclude, Goto
<1>20. ASSUME NEW r \in Runs, EvaluationPasses(r) PROVE GateInv'
  BY <1>20 DEF EvaluationPasses, Evaluated, Continue, Goto
<1>21. ASSUME NEW r \in Runs, EvaluationRejects(r) PROVE GateInv'
  BY <1>21 DEF EvaluationRejects, Evaluated, Suggest, Conclude, Goto
<1>22. ASSUME NEW r \in Runs, EvaluationPreserved(r) PROVE GateInv'
  BY <1>22 DEF EvaluationPreserved, Evaluated, Continue, Goto
<1>23. ASSUME NEW r \in Runs, EvaluationAbandoned(r) PROVE GateInv'
  BY <1>23 DEF EvaluationAbandoned, Evaluated, Fail, Suggest, Conclude, Goto
<1>24. ASSUME NEW r \in Runs, NothingToCommit(r) PROVE GateInv'
  BY <1>24 DEF NothingToCommit, Conclude, Goto
<1>25. ASSUME NEW r \in Runs, CommitRepair(r) PROVE GateInv'
  BY <1>25 DEF CommitRepair, Continue, Conclude, Goto
<1>26. ASSUME NEW r \in Runs, CommitFails(r) PROVE GateInv'
  BY <1>26 DEF CommitFails, FailChangeSet, Fail, Conclude, Goto
<1>27. ASSUME NEW r \in Runs, PushBranch(r) PROVE GateInv'
  BY <1>27 DEF PushBranch, Goto, Push
<1>28. ASSUME NEW r \in Runs, PushFails(r) PROVE GateInv'
  BY <1>28 DEF PushFails, FailDelivery, Conclude, Goto, Push
<1>29. ASSUME NEW r \in Runs, AutomationOpensCR(r) PROVE GateInv'
  BY <1>29 DEF AutomationOpensCR
<1>30. ASSUME NEW r \in Runs, OpenChangeRequest(r) PROVE GateInv'
  BY <1>30 DEF OpenChangeRequest, ConcludeDelivered, Conclude, Goto
<1>31. ASSUME NEW r \in Runs, ReuseChangeRequest(r) PROVE GateInv'
  BY <1>31 DEF ReuseChangeRequest, ConcludeDelivered, Conclude, Goto
<1>32. ASSUME NEW r \in Runs, RequestFails(r) PROVE GateInv'
  BY <1>32 DEF RequestFails, FailDelivery, Conclude, Goto
<1>33. ASSUME NEW r \in Runs, Record(r) PROVE GateInv'
  BY <1>33 DEF Record, Goto
<1>34. ASSUME NEW r \in Runs, Notify(r) PROVE GateInv'
  BY <1>34 DEF Notify, Goto
<1>35. ASSUME NEW r \in Runs, DiscardWorktree(r) PROVE GateInv'
  BY <1>35 DEF DiscardWorktree, Goto
<1>36. ASSUME NEW r \in Runs, Exit(r) PROVE GateInv'
  BY <1>36 DEF Exit, Goto
<1>37. ASSUME NEW r \in Runs, Crash(r) PROVE GateInv'
  BY <1>37 DEF Crash, Goto
<1>38. CASE NewDay
  BY <1>38 DEF NewDay
<1>39. CASE UNCHANGED vars
  BY <1>39 DEF vars
<1>. QED
  BY <1>1, <1>2, <1>3, <1>4, <1>5, <1>6, <1>7, <1>8, <1>9, <1>10, <1>11, <1>12,
     <1>13, <1>14, <1>15, <1>16, <1>17, <1>18, <1>19, <1>20, <1>21, <1>22,
     <1>23, <1>24, <1>25, <1>26, <1>27, <1>28, <1>29, <1>30, <1>31, <1>32,
     <1>33, <1>34, <1>35, <1>36, <1>37, <1>38, <1>39
     DEF Next, Step, Terminated


\* For every number of commands, every tree and every tool behaviour: whatever
\* is delivered by a run with the gate on has passed every command and was
\* judged as it is, or is a draft (loop.go:534-645).
THEOREM GateHolds == Spec => []NothingShipsUngated
<1>1. Init => GateInv
  BY RepairLoopAssumption
     DEF Init, GateInv, GateEntry, GateExit, GateOutcome, NoPlan, Empty,
         Unprepared, Concluded
<1>2. TypeOK /\ GateInv => NothingShipsUngated
  BY
     DEF TypeOK, GateInv, GateEntry, GateExit, GateOutcome, GatePassed,
         NothingShipsUngated, Delivered
<1>. QED BY <1>1, <1>2, TypeCorrect, StepGateInv, PTL DEF Spec

-----------------------------------------------------------------------------
(* Humans are asked when the evaluator could not answer.                   *)

\* Where only the run itself opens change requests, a draft one belongs to a
\* run that preserves an unevaluated repair, and the status says so.
HumanInv ==
  \A r \in Runs :
    /\ draft[r] => PreservesAsDraft(r)
    /\ cr[r] # "none" => pc[r] \in Concluded /\ (cr[r] = "draft" <=> draft[r])
    /\ plan[r].status \in {"completed", "needs_review"} => pc[r] \in Concluded
    /\ plan[r].status = "completed" => ~ draft[r]
    /\ plan[r].status = "needs_review" => cr[r] = "draft"
    /\ task[r] \in {"completed", "needs_review"} => plan[r].status = task[r]

\* HumanInv is inductive.
LEMMA StepHumanInv == ~ ExternalCRs /\ TypeOK /\ GateInv /\ HumanInv /\ [Next]_vars => HumanInv'
<1>. SUFFICES ASSUME ~ ExternalCRs, TypeOK, GateInv, HumanInv, [Next]_vars PROVE HumanInv'
  OBVIOUS
<1>. USE DEF TypeOK, dbVars, callVars, gitVars, outVars, HumanInv, GateInv,
           GateEntry,
           PreservesAsDraft, Unprepared, Concluded
<1>1. ASSUME NEW r \in Runs, Dedup(r) PROVE HumanInv'
  BY <1>1 DEF Dedup, Goto
<1>2. ASSUME NEW r \in Runs, CreateTask(r) PROVE HumanInv'
  BY <1>2 DEF CreateTask, Goto
<1>3. ASSUME NEW r \in Runs, BudgetGate(r) PROVE HumanInv'
  BY <1>3 DEF BudgetGate, Continue, Conclude, Goto
<1>4. ASSUME NEW r \in Runs, Triage(r) PROVE HumanInv'
  BY <1>4 DEF Triage, Continue, Conclude, Goto
<1>5. ASSUME NEW r \in Runs, StartRunning(r) PROVE HumanInv'
  BY <1>5 DEF StartRunning, Goto
<1>6. ASSUME NEW r \in Runs, AttachWorkspace(r) PROVE HumanInv'
  BY <1>6 DEF AttachWorkspace, Goto
<1>7. ASSUME NEW r \in Runs, CreateWorktree(r) PROVE HumanInv'
  BY <1>7 DEF CreateWorktree, Goto
<1>8. ASSUME NEW r \in Runs, CreateWorktreeFails(r) PROVE HumanInv'
  BY <1>8 DEF CreateWorktreeFails, Conclude, Goto
<1>9. ASSUME NEW r \in Runs, Preflight(r) PROVE HumanInv'
  BY <1>9 DEF Preflight, Continue, Fail, Conclude, Goto
<1>10. ASSUME NEW r \in Runs, ToolActs(r) PROVE HumanInv'
  BY <1>10 DEF ToolActs
<1>11. ASSUME NEW r \in Runs, CodingFails(r) PROVE HumanInv'
  BY <1>11 DEF CodingFails, Fail, Conclude, Goto
<1>12. ASSUME NEW r \in Runs, CodingIncomplete(r) PROVE HumanInv'
  BY <1>12 DEF CodingIncomplete, Conclude, Goto
<1>13. ASSUME NEW r \in Runs, CodingCompletes(r) PROVE HumanInv'
  BY <1>13 DEF CodingCompletes, Continue, Conclude, Goto
<1>14. ASSUME NEW r \in Runs, Review(r) PROVE HumanInv'
  BY <1>14 DEF Review
<1>15. ASSUME NEW r \in Runs, PrepareChangeSet(r) PROVE HumanInv'
  BY <1>15 DEF PrepareChangeSet, NextCheck, Goto
<1>16. ASSUME NEW r \in Runs, PrepareFails(r) PROVE HumanInv'
  BY <1>16 DEF PrepareFails, FailChangeSet, Fail, Conclude, Goto
<1>17. ASSUME NEW r \in Runs, IndexDrifted(r) PROVE HumanInv'
  BY <1>17 DEF IndexDrifted, FailChangeSet, Fail, Conclude, Goto
<1>18. ASSUME NEW r \in Runs, CommandPasses(r) PROVE HumanInv'
  BY <1>18 DEF CommandPasses, NextCheck, Goto
<1>19. ASSUME NEW r \in Runs, CommandFails(r) PROVE HumanInv'
  BY <1>19 DEF CommandFails, Fail, Conclude, Goto
<1>20. ASSUME NEW r \in Runs, EvaluationPasses(r) PROVE HumanInv'
  BY <1>20 DEF EvaluationPasses, Evaluated, Continue, Goto
<1>21. ASSUME NEW r \in Runs, EvaluationRejects(r) PROVE HumanInv'
  BY <1>21 DEF EvaluationRejects, Evaluated, Suggest, Conclude, Goto
<1>22. ASSUME NEW r \in Runs, EvaluationPreserved(r) PROVE HumanInv'
  BY <1>22 DEF EvaluationPreserved, Evaluated, Continue, Goto
<1>23. ASSUME NEW r \in Runs, EvaluationAbandoned(r) PROVE HumanInv'
  BY <1>23 DEF EvaluationAbandoned, Evaluated, Fail, Suggest, Conclude, Goto
<1>24. ASSUME NEW r \in Runs, NothingToCommit(r) PROVE HumanInv'
  BY <1>24 DEF NothingToCommit, Conclude, Goto
<1>25. ASSUME NEW r \in Runs, CommitRepair(r) PROVE HumanInv'
  BY <1>25 DEF CommitRepair, Continue, Conclude, Goto, Shipping
<1>26. ASSUME NEW r \in Runs, CommitFails(r) PROVE HumanInv'
  BY <1>26 DEF CommitFails, FailChangeSet, Fail, Conclude, Goto
<1>27. ASSUME NEW r \in Runs, PushBranch(r) PROVE HumanInv'
  BY <1>27 DEF PushBranch, Goto
<1>28. ASSUME NEW r \in Runs, PushFails(r) PROVE HumanInv'
  BY <1>28 DEF PushFails, FailDelivery, Conclude, Goto
<1>29. ASSUME NEW r \in Runs, AutomationOpensCR(r) PROVE HumanInv'
  BY <1>29 DEF AutomationOpensCR
<1>30. ASSUME NEW r \in Runs, OpenChangeRequest(r) PROVE HumanInv'
  BY <1>30 DEF OpenChangeRequest, ConcludeDelivered, Conclude, Goto, Opened
<1>31. ASSUME NEW r \in Runs, ReuseChangeRequest(r) PROVE HumanInv'
  BY <1>31 DEF ReuseChangeRequest, ConcludeDelivered, Conclude, Goto
<1>32. ASSUME NEW r \in Runs, RequestFails(r) PROVE HumanInv'
  BY <1>32 DEF RequestFails, FailDelivery, Conclude, Goto, Opened
<1>33. ASSUME NEW r \in Runs, Record(r) PROVE HumanInv'
  BY <1>33 DEF Record, Goto
<1>34. ASSUME NEW r \in Runs, Notify(r) PROVE HumanInv'
  BY <1>34 DEF Notify, Goto
<1>35. ASSUME NEW r \in Runs, DiscardWorktree(r) PROVE HumanInv'
  BY <1>35 DEF DiscardWorktree, Goto
<1>36. ASSUME NEW r \in Runs, Exit(r) PROVE HumanInv'
  BY <1>36 DEF Exit, Goto
<1>37. ASSUME NEW r \in Runs, Crash(r) PROVE HumanInv'
  BY <1>37 DEF Crash, Goto
<1>38. CASE NewDay
  BY <1>38 DEF NewDay
<1>39. CASE UNCHANGED vars
  BY <1>39 DEF vars
<1>. QED
  BY <1>1, <1>2, <1>3, <1>4, <1>5, <1>6, <1>7, <1>8, <1>9, <1>10, <1>11, <1>12,
     <1>13, <1>14, <1>15, <1>16, <1>17, <1>18, <1>19, <1>20, <1>21, <1>22,
     <1>23, <1>24, <1>25, <1>26, <1>27, <1>28, <1>29, <1>30, <1>31, <1>32,
     <1>33, <1>34, <1>35, <1>36, <1>37, <1>38, <1>39
     DEF Next, Step, Terminated


\* When no automation opens change requests of its own: a repair the evaluator
\* did not judge is never offered as ready, and a task waits for review exactly
\* when its change request is a draft (loop.go:613-622, 673-747).
THEOREM HumanGateHolds ==
  ASSUME ~ ExternalCRs PROVE Spec => []HumanGated
<1>1. Init => HumanInv /\ GateInv
  BY RepairLoopAssumption
     DEF Init, HumanInv, GateInv, GateEntry, GateExit, GateOutcome, NoPlan,
         Empty,
         Unprepared, Concluded
<1>2. TypeOK /\ HumanInv => HumanGated
  BY DEF TypeOK, HumanInv, HumanGated
<1>. QED
  BY <1>1, <1>2, TypeCorrect, StepGateInv, StepHumanInv, PTL DEF Spec

-----------------------------------------------------------------------------
(* The loop implements the lifecycle of a task row.                        *)

Waiting == {"budget", "triage", "start"}
Working == {"workspace", "preflight", "coding", "prepare", "verify", "evaluate",
            "commit", "deliver", "request"}

\* The call has decided and not yet written the status down.
Undecided(r) == pc[r] = "record" \/ (pc[r] = "discard" /\ plan[r].drop = "early")

\* Where the call is tells the status of its row, and what it has decided is a
\* move the lifecycle allows from there.
LifecycleInv ==
  \A r \in Runs :
    /\ pc[r] \in {"idle", "create"} => task[r] = "none"
    /\ pc[r] \in Waiting => task[r] = "pending"
    /\ pc[r] \in Working => task[r] = "running"
    /\ plan[r].status = "suggested" => pc[r] \in Concluded /\ cr[r] = "none"
    /\ Undecided(r) =>
         \/ task[r] = "pending" /\ plan[r].status \in {"skipped", "notified", "failed"}
         \/ /\ task[r] = "running"
            /\ plan[r].status \in {"failed", "suggested", "completed", "needs_review"}

\* LifecycleInv is inductive.
LEMMA StepLifecycleInv == ~ ExternalCRs /\ TypeOK /\ HumanInv /\ LifecycleInv /\ [Next]_vars => LifecycleInv'
<1>. SUFFICES ASSUME ~ ExternalCRs, TypeOK, HumanInv, LifecycleInv, [Next]_vars PROVE LifecycleInv'
  OBVIOUS
<1>. USE DEF TypeOK, dbVars, callVars, gitVars, outVars, HumanInv, LifecycleInv,
           Waiting, Working, Undecided, Concluded
<1>1. ASSUME NEW r \in Runs, Dedup(r) PROVE LifecycleInv'
  BY <1>1 DEF Dedup, Goto
<1>2. ASSUME NEW r \in Runs, CreateTask(r) PROVE LifecycleInv'
  BY <1>2 DEF CreateTask, Goto
<1>3. ASSUME NEW r \in Runs, BudgetGate(r) PROVE LifecycleInv'
  BY <1>3 DEF BudgetGate, Continue, Conclude, Goto
<1>4. ASSUME NEW r \in Runs, Triage(r) PROVE LifecycleInv'
  BY <1>4 DEF Triage, Continue, Conclude, Goto
<1>5. ASSUME NEW r \in Runs, StartRunning(r) PROVE LifecycleInv'
  BY <1>5 DEF StartRunning, Goto
<1>6. ASSUME NEW r \in Runs, AttachWorkspace(r) PROVE LifecycleInv'
  BY <1>6 DEF AttachWorkspace, Goto
<1>7. ASSUME NEW r \in Runs, CreateWorktree(r) PROVE LifecycleInv'
  BY <1>7 DEF CreateWorktree, Goto
<1>8. ASSUME NEW r \in Runs, CreateWorktreeFails(r) PROVE LifecycleInv'
  BY <1>8 DEF CreateWorktreeFails, Conclude, Goto
<1>9. ASSUME NEW r \in Runs, Preflight(r) PROVE LifecycleInv'
  BY <1>9 DEF Preflight, Continue, Fail, Conclude, Goto
<1>10. ASSUME NEW r \in Runs, ToolActs(r) PROVE LifecycleInv'
  BY <1>10 DEF ToolActs
<1>11. ASSUME NEW r \in Runs, CodingFails(r) PROVE LifecycleInv'
  BY <1>11 DEF CodingFails, Fail, Conclude, Goto
<1>12. ASSUME NEW r \in Runs, CodingIncomplete(r) PROVE LifecycleInv'
  BY <1>12 DEF CodingIncomplete, Conclude, Goto
<1>13. ASSUME NEW r \in Runs, CodingCompletes(r) PROVE LifecycleInv'
  BY <1>13 DEF CodingCompletes, Continue, Conclude, Goto
<1>14. ASSUME NEW r \in Runs, Review(r) PROVE LifecycleInv'
  BY <1>14 DEF Review
<1>15. ASSUME NEW r \in Runs, PrepareChangeSet(r) PROVE LifecycleInv'
  BY <1>15 DEF PrepareChangeSet, NextCheck, Goto
<1>16. ASSUME NEW r \in Runs, PrepareFails(r) PROVE LifecycleInv'
  BY <1>16 DEF PrepareFails, FailChangeSet, Fail, Conclude, Goto
<1>17. ASSUME NEW r \in Runs, IndexDrifted(r) PROVE LifecycleInv'
  BY <1>17 DEF IndexDrifted, FailChangeSet, Fail, Conclude, Goto
<1>18. ASSUME NEW r \in Runs, CommandPasses(r) PROVE LifecycleInv'
  BY <1>18 DEF CommandPasses, NextCheck, Goto
<1>19. ASSUME NEW r \in Runs, CommandFails(r) PROVE LifecycleInv'
  BY <1>19 DEF CommandFails, Fail, Conclude, Goto
<1>20. ASSUME NEW r \in Runs, EvaluationPasses(r) PROVE LifecycleInv'
  BY <1>20 DEF EvaluationPasses, Evaluated, Continue, Goto
<1>21. ASSUME NEW r \in Runs, EvaluationRejects(r) PROVE LifecycleInv'
  BY <1>21 DEF EvaluationRejects, Evaluated, Suggest, Conclude, Goto
<1>22. ASSUME NEW r \in Runs, EvaluationPreserved(r) PROVE LifecycleInv'
  BY <1>22 DEF EvaluationPreserved, Evaluated, Continue, Goto
<1>23. ASSUME NEW r \in Runs, EvaluationAbandoned(r) PROVE LifecycleInv'
  BY <1>23 DEF EvaluationAbandoned, Evaluated, Fail, Suggest, Conclude, Goto
<1>24. ASSUME NEW r \in Runs, NothingToCommit(r) PROVE LifecycleInv'
  BY <1>24 DEF NothingToCommit, Conclude, Goto
<1>25. ASSUME NEW r \in Runs, CommitRepair(r) PROVE LifecycleInv'
  BY <1>25 DEF CommitRepair, Continue, Conclude, Goto
<1>26. ASSUME NEW r \in Runs, CommitFails(r) PROVE LifecycleInv'
  BY <1>26 DEF CommitFails, FailChangeSet, Fail, Conclude, Goto
<1>27. ASSUME NEW r \in Runs, PushBranch(r) PROVE LifecycleInv'
  BY <1>27 DEF PushBranch, Goto
<1>28. ASSUME NEW r \in Runs, PushFails(r) PROVE LifecycleInv'
  BY <1>28 DEF PushFails, FailDelivery, Conclude, Goto
<1>29. ASSUME NEW r \in Runs, AutomationOpensCR(r) PROVE LifecycleInv'
  BY <1>29 DEF AutomationOpensCR
<1>30. ASSUME NEW r \in Runs, OpenChangeRequest(r) PROVE LifecycleInv'
  BY <1>30 DEF OpenChangeRequest, ConcludeDelivered, Conclude, Goto, Opened
<1>31. ASSUME NEW r \in Runs, ReuseChangeRequest(r) PROVE LifecycleInv'
  BY <1>31 DEF ReuseChangeRequest, ConcludeDelivered, Conclude, Goto
<1>32. ASSUME NEW r \in Runs, RequestFails(r) PROVE LifecycleInv'
  BY <1>32 DEF RequestFails, FailDelivery, Conclude, Goto, Opened
<1>33. ASSUME NEW r \in Runs, Record(r) PROVE LifecycleInv'
  BY <1>33 DEF Record, Goto, Plans, Terminal
<1>34. ASSUME NEW r \in Runs, Notify(r) PROVE LifecycleInv'
  BY <1>34 DEF Notify, Goto
<1>35. ASSUME NEW r \in Runs, DiscardWorktree(r) PROVE LifecycleInv'
  BY <1>35 DEF DiscardWorktree, Goto
<1>36. ASSUME NEW r \in Runs, Exit(r) PROVE LifecycleInv'
  BY <1>36 DEF Exit, Goto
<1>37. ASSUME NEW r \in Runs, Crash(r) PROVE LifecycleInv'
  BY <1>37 DEF Crash, Goto
<1>38. CASE NewDay
  BY <1>38 DEF NewDay
<1>39. CASE UNCHANGED vars
  BY <1>39 DEF vars
<1>. QED
  BY <1>1, <1>2, <1>3, <1>4, <1>5, <1>6, <1>7, <1>8, <1>9, <1>10, <1>11, <1>12,
     <1>13, <1>14, <1>15, <1>16, <1>17, <1>18, <1>19, <1>20, <1>21, <1>22,
     <1>23, <1>24, <1>25, <1>26, <1>27, <1>28, <1>29, <1>30, <1>31, <1>32,
     <1>33, <1>34, <1>35, <1>36, <1>37, <1>38, <1>39
     DEF Next, Step, Terminated

\* Every step of the loop is a step of the lifecycle or leaves row and change
\* request alone.
LEMMA StepRefines ==
  ~ ExternalCRs /\ TypeOK /\ HumanInv /\ LifecycleInv /\ [Next]_vars
    => [Lifecycle!Next]_(Lifecycle!vars)
<1>. SUFFICES ASSUME ~ ExternalCRs, TypeOK, HumanInv, LifecycleInv, [Next]_vars
              PROVE  Lifecycle!Next \/ UNCHANGED <<task, cr>>
  BY DEF Lifecycle!vars
<1>. USE DEF TypeOK, dbVars, callVars, gitVars, outVars
<1>1. ASSUME NEW r \in Runs, CreateTask(r) PROVE Lifecycle!Create(r) \/ UNCHANGED <<task, cr>>
  BY <1>1, RepairLoopAssumption
     DEF CreateTask, TaskExists, LifecycleInv, Lifecycle!Create, Lifecycle!Move
<1>2. ASSUME NEW r \in Runs, StartRunning(r) PROVE Lifecycle!Start(r) \/ UNCHANGED <<task, cr>>
  BY <1>2
     DEF StartRunning, LifecycleInv, Waiting, Lifecycle!Start, Lifecycle!Move
<1>3. ASSUME NEW r \in Runs, OpenChangeRequest(r) \/ RequestFails(r)
      PROVE  Lifecycle!Release(r) \/ UNCHANGED <<task, cr>>
  BY <1>3
     DEF OpenChangeRequest, RequestFails, Opened, LifecycleInv, Working,
         Lifecycle!Release
<1>4. ASSUME NEW r \in Runs, Record(r)
      PROVE  Lifecycle!Dismiss(r) \/ Lifecycle!Conclude(r) \/ UNCHANGED <<task, cr>>
  <2>1. CASE UNCHANGED task
    BY <1>4, <2>1 DEF Record
  <2>2. CASE task' = [task EXCEPT ![r] = plan[r].status] /\ task[r] = "pending"
    BY <1>4, <2>2
       DEF Record, LifecycleInv, Undecided, Lifecycle!Dismiss, Lifecycle!Move
  <2>3. CASE task' = [task EXCEPT ![r] = plan[r].status] /\ task[r] = "running"
    BY <1>4, <2>3
       DEF Record, LifecycleInv, Undecided, HumanInv, Lifecycle!Conclude,
           Lifecycle!Move
  <2>. QED BY <1>4, <2>1, <2>2, <2>3 DEF Record, LifecycleInv, Undecided
<1>5. ASSUME NEW r \in Runs,
             Dedup(r) \/ BudgetGate(r) \/ Triage(r) \/ AttachWorkspace(r)
               \/ CreateWorktree(r) \/ CreateWorktreeFails(r) \/ Preflight(r)
      PROVE  UNCHANGED <<task, cr>>
  BY <1>5
     DEF Dedup, BudgetGate, Triage, AttachWorkspace, CreateWorktree,
         CreateWorktreeFails, Preflight
<1>6. ASSUME NEW r \in Runs,
             CodingFails(r) \/ CodingIncomplete(r) \/ CodingCompletes(r)
               \/ PrepareChangeSet(r) \/ PrepareFails(r)
               \/ IndexDrifted(r) \/ CommandPasses(r) \/ CommandFails(r)
      PROVE  UNCHANGED <<task, cr>>
  BY <1>6
     DEF CodingFails, CodingIncomplete, CodingCompletes, PrepareChangeSet,
         PrepareFails, IndexDrifted, CommandPasses, CommandFails
<1>7. ASSUME NEW r \in Runs,
             EvaluationPasses(r) \/ EvaluationRejects(r)
               \/ EvaluationPreserved(r) \/ EvaluationAbandoned(r)
               \/ NothingToCommit(r) \/ CommitRepair(r) \/ CommitFails(r)
      PROVE  UNCHANGED <<task, cr>>
  BY <1>7
     DEF EvaluationPasses, EvaluationRejects, EvaluationPreserved,
         EvaluationAbandoned, NothingToCommit, CommitRepair, CommitFails,
         Evaluated
<1>8. ASSUME NEW r \in Runs,
             PushBranch(r) \/ PushFails(r) \/ ReuseChangeRequest(r)
               \/ Notify(r) \/ DiscardWorktree(r) \/ Exit(r)
      PROVE  UNCHANGED <<task, cr>>
  BY <1>8
     DEF PushBranch, PushFails, ReuseChangeRequest, Notify, DiscardWorktree,
         Exit
<1>9. ASSUME NEW r \in Runs,
             ToolActs(r) \/ Review(r) \/ AutomationOpensCR(r) \/ Crash(r)
      PROVE  UNCHANGED <<task, cr>>
  BY <1>9 DEF ToolActs, Review, AutomationOpensCR, Crash
<1>10. CASE NewDay \/ UNCHANGED vars
  BY <1>10 DEF NewDay, vars
<1>. QED
  BY <1>1, <1>2, <1>3, <1>4, <1>5, <1>6, <1>7, <1>8, <1>9, <1>10
     DEF Next, Step, Terminated, Lifecycle!Next

\* When no automation opens change requests of its own: whatever fails, crashes
\* or interleaves, every task row and its change request follow TaskLifecycle
\* (loop.go:211-757, schema.sql:18-20).
THEOREM LoopRefinesLifecycle ==
  ASSUME ~ ExternalCRs PROVE Spec => RefinesLifecycle
<1>1. Init => HumanInv /\ GateInv /\ LifecycleInv /\ Lifecycle!Init
  BY RepairLoopAssumption
     DEF Init, HumanInv, GateInv, GateEntry, GateExit, GateOutcome, NoPlan,
         Empty,
         Unprepared, Concluded, LifecycleInv, Waiting, Working, Undecided,
         Lifecycle!Init
<1>. QED
  BY <1>1, TypeCorrect, StepGateInv, StepHumanInv, StepLifecycleInv,
     StepRefines,
     PTL DEF Spec, RefinesLifecycle, Lifecycle!Spec

=============================================================================
