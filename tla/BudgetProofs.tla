----------------------------- MODULE BudgetProofs -----------------------------
(***************************************************************************)
(* The daily token budget is checked once per call and can be overshot.    *)
(* By how much cannot be read off the tokens spent: what matters is what   *)
(* the calls past the gate may still spend.  Every such call owes one      *)
(* payment for each stage it has not left, and one for its reviewer.  A    *)
(* payment is spent once; new ones appear only while the budget lasts.     *)
(***************************************************************************)
EXTENDS RepairLoopProofs, FiniteSetTheorems

Stages == {"triage", "coding", "evaluation"}
Payments == Stages \cup {"review"}

Fresh == {"idle", "create", "budget"}
UntilCoded == {"triage", "start", "workspace", "preflight", "coding"}
UntilEvaluated == UntilCoded \cup {"prepare", "verify", "evaluate"}

\* Call r has a reviewer working, or may still start one.
ReviewDue(r) == pc[r] \in UntilCoded \/ r \in reviewing

Owes(r, payment) ==
  \/ payment = "triage" /\ pc[r] = "triage"
  \/ payment = "coding" /\ pc[r] \in UntilCoded
  \/ payment = "evaluation" /\ pc[r] \in UntilEvaluated
  \/ payment = "review" /\ ReviewDue(r)

Debts == {debt \in Runs \X Payments : Owes(debt[1], debt[2])}

\* The daemon works on one signal at a time, and a reviewer starts only when
\* its call has stopped coding.
TurnInv ==
  /\ \A q, r \in Runs :
       {q, r} \subseteq DaemonRuns /\ Active(q) /\ Active(r) => q = r
  /\ \A r \in Runs : r \in reviewing => pc[r] \notin Fresh \cup UntilCoded

\* What a step does to debts and tokens.
NoNewDebt == \A q \in Runs, payment \in Payments : Owes(q, payment)' => Owes(q, payment)
Pays(r, payment) ==
  /\ Owes(r, payment) /\ ~ Owes(r, payment)'
  /\ NoNewDebt
  /\ Spend
Accounted ==
  \/ NoNewDebt /\ UNCHANGED spent
  \/ \E r \in Runs, payment \in Payments : Pays(r, payment)
  \/ (Budget = 0 \/ spent < Budget) /\ UNCHANGED spent
  \/ spent' = 0

-----------------------------------------------------------------------------
(* The steps of the loop.                                                  *)

\* TurnInv is inductive.
LEMMA StepTurnInv == TypeOK /\ TurnInv /\ [Next]_vars => TurnInv'
<1>. SUFFICES ASSUME TypeOK, TurnInv, [Next]_vars PROVE TurnInv'
  OBVIOUS
<1>. USE DEF TypeOK, dbVars, callVars, gitVars, outVars, TurnInv, Active,
           Fresh, UntilCoded
<1>1. ASSUME NEW r \in Runs, Dedup(r) PROVE TurnInv'
  BY <1>1 DEF Dedup, Goto, TaskExists
<1>2. ASSUME NEW r \in Runs, CreateTask(r) PROVE TurnInv'
  BY <1>2 DEF CreateTask, Goto, TaskExists
<1>3. ASSUME NEW r \in Runs, BudgetGate(r) PROVE TurnInv'
  BY <1>3 DEF BudgetGate, Continue, Conclude, Goto
<1>4. ASSUME NEW r \in Runs, Triage(r) PROVE TurnInv'
  BY <1>4 DEF Triage, Continue, Conclude, Goto
<1>5. ASSUME NEW r \in Runs, StartRunning(r) PROVE TurnInv'
  BY <1>5 DEF StartRunning, Goto
<1>6. ASSUME NEW r \in Runs, AttachWorkspace(r) PROVE TurnInv'
  BY <1>6 DEF AttachWorkspace, Goto
<1>7. ASSUME NEW r \in Runs, CreateWorktree(r) PROVE TurnInv'
  BY <1>7 DEF CreateWorktree, Goto
<1>8. ASSUME NEW r \in Runs, CreateWorktreeFails(r) PROVE TurnInv'
  BY <1>8 DEF CreateWorktreeFails, Conclude, Goto
<1>9. ASSUME NEW r \in Runs, Preflight(r) PROVE TurnInv'
  BY <1>9 DEF Preflight, Continue, Fail, Conclude, Goto
<1>10. ASSUME NEW r \in Runs, ToolActs(r) PROVE TurnInv'
  BY <1>10 DEF ToolActs
<1>11. ASSUME NEW r \in Runs, CodingFails(r) PROVE TurnInv'
  BY <1>11 DEF CodingFails, Fail, Conclude, Goto, AgentStops
<1>12. ASSUME NEW r \in Runs, CodingIncomplete(r) PROVE TurnInv'
  BY <1>12 DEF CodingIncomplete, Conclude, Goto, AgentStops
<1>13. ASSUME NEW r \in Runs, CodingCompletes(r) PROVE TurnInv'
  BY <1>13 DEF CodingCompletes, Continue, Conclude, Goto
<1>14. ASSUME NEW r \in Runs, Review(r) PROVE TurnInv'
  BY <1>14 DEF Review
<1>15. ASSUME NEW r \in Runs, PrepareChangeSet(r) PROVE TurnInv'
  BY <1>15 DEF PrepareChangeSet, NextCheck, Goto
<1>16. ASSUME NEW r \in Runs, PrepareFails(r) PROVE TurnInv'
  BY <1>16 DEF PrepareFails, FailChangeSet, Fail, Conclude, Goto
<1>17. ASSUME NEW r \in Runs, IndexDrifted(r) PROVE TurnInv'
  BY <1>17 DEF IndexDrifted, FailChangeSet, Fail, Conclude, Goto
<1>18. ASSUME NEW r \in Runs, CommandPasses(r) PROVE TurnInv'
  BY <1>18 DEF CommandPasses, NextCheck, Goto
<1>19. ASSUME NEW r \in Runs, CommandFails(r) PROVE TurnInv'
  BY <1>19 DEF CommandFails, Fail, Conclude, Goto
<1>20. ASSUME NEW r \in Runs, EvaluationPasses(r) PROVE TurnInv'
  BY <1>20 DEF EvaluationPasses, Evaluated, Continue, Goto
<1>21. ASSUME NEW r \in Runs, EvaluationRejects(r) PROVE TurnInv'
  BY <1>21 DEF EvaluationRejects, Evaluated, Suggest, Conclude, Goto
<1>22. ASSUME NEW r \in Runs, EvaluationPreserved(r) PROVE TurnInv'
  BY <1>22 DEF EvaluationPreserved, Evaluated, Continue, Goto
<1>23. ASSUME NEW r \in Runs, EvaluationAbandoned(r) PROVE TurnInv'
  BY <1>23 DEF EvaluationAbandoned, Evaluated, Fail, Suggest, Conclude, Goto
<1>24. ASSUME NEW r \in Runs, NothingToCommit(r) PROVE TurnInv'
  BY <1>24 DEF NothingToCommit, Conclude, Goto
<1>25. ASSUME NEW r \in Runs, CommitRepair(r) PROVE TurnInv'
  BY <1>25 DEF CommitRepair, Continue, Conclude, Goto
<1>26. ASSUME NEW r \in Runs, CommitFails(r) PROVE TurnInv'
  BY <1>26 DEF CommitFails, FailChangeSet, Fail, Conclude, Goto
<1>27. ASSUME NEW r \in Runs, PushBranch(r) PROVE TurnInv'
  BY <1>27 DEF PushBranch, Goto
<1>28. ASSUME NEW r \in Runs, PushFails(r) PROVE TurnInv'
  BY <1>28 DEF PushFails, FailDelivery, Conclude, Goto
<1>29. ASSUME NEW r \in Runs, AutomationOpensCR(r) PROVE TurnInv'
  BY <1>29 DEF AutomationOpensCR
<1>30. ASSUME NEW r \in Runs, OpenChangeRequest(r) PROVE TurnInv'
  BY <1>30 DEF OpenChangeRequest, ConcludeDelivered, Conclude, Goto
<1>31. ASSUME NEW r \in Runs, ReuseChangeRequest(r) PROVE TurnInv'
  BY <1>31 DEF ReuseChangeRequest, ConcludeDelivered, Conclude, Goto
<1>32. ASSUME NEW r \in Runs, RequestFails(r) PROVE TurnInv'
  BY <1>32 DEF RequestFails, FailDelivery, Conclude, Goto
<1>33. ASSUME NEW r \in Runs, Record(r) PROVE TurnInv'
  BY <1>33 DEF Record, Goto
<1>34. ASSUME NEW r \in Runs, Notify(r) PROVE TurnInv'
  BY <1>34 DEF Notify, Goto
<1>35. ASSUME NEW r \in Runs, DiscardWorktree(r) PROVE TurnInv'
  BY <1>35 DEF DiscardWorktree, Goto
<1>36. ASSUME NEW r \in Runs, Exit(r) PROVE TurnInv'
  BY <1>36 DEF Exit, Goto
<1>37. ASSUME NEW r \in Runs, Crash(r) PROVE TurnInv'
  BY <1>37 DEF Crash, Goto
<1>38. CASE NewDay
  BY <1>38 DEF NewDay
<1>39. CASE UNCHANGED vars
  BY <1>39 DEF vars
<1>. QED
  BY <1>1, <1>2, <1>3, <1>4, <1>5, <1>6, <1>7, <1>8, <1>9, <1>10, <1>11,
     <1>12, <1>13, <1>14, <1>15, <1>16, <1>17, <1>18, <1>19, <1>20, <1>21,
     <1>22, <1>23, <1>24, <1>25, <1>26, <1>27, <1>28, <1>29, <1>30, <1>31,
     <1>32, <1>33, <1>34, <1>35, <1>36, <1>37, <1>38, <1>39
     DEF Next, Step, Terminated

\* While the database answers, a step makes no debt unless the budget lasts, and
\* spends tokens only by paying one.
LEMMA StepAccounted == ~ DBFaults /\ TypeOK /\ TurnInv /\ [Next]_vars => Accounted
<1>. SUFFICES ASSUME ~ DBFaults, TypeOK, TurnInv, [Next]_vars PROVE Accounted
  OBVIOUS
<1>. USE DEF TypeOK, dbVars, callVars, gitVars, outVars, Fresh, UntilCoded,
           UntilEvaluated, Stages, Payments, ReviewDue, Owes, NoNewDebt
<1>1. ASSUME NEW r \in Runs, Dedup(r) PROVE Accounted
  <2>1. NoNewDebt /\ UNCHANGED spent
    BY <1>1 DEF Dedup, Goto
  <2>. QED BY <2>1 DEF Accounted
<1>2. ASSUME NEW r \in Runs, CreateTask(r) PROVE Accounted
  <2>1. NoNewDebt /\ UNCHANGED spent
    BY <1>2 DEF CreateTask, Goto, TaskExists
  <2>. QED BY <2>1 DEF Accounted
<1>3. ASSUME NEW r \in Runs, BudgetGate(r) PROVE Accounted
  <2>1. CASE Budget = 0 \/ spent < Budget
    BY <1>3, <2>1 DEF BudgetGate, Accounted
  <2>2. CASE Conclude(r, {"budget_exceeded"}, "skipped", "budget_exceeded", "never")
    <3>1. NoNewDebt /\ UNCHANGED spent
      BY <1>3, <2>2 DEF BudgetGate, Conclude, Goto
    <3>. QED BY <3>1 DEF Accounted
  <2>. QED BY <1>3, <2>1, <2>2 DEF BudgetGate
<1>4. ASSUME NEW r \in Runs, Triage(r) PROVE Accounted
  <2>1. Owes(r, "triage") /\ ~ Owes(r, "triage")' /\ NoNewDebt /\ Spend
    BY <1>4 DEF Triage, Continue, Conclude, Goto
  <2>. QED BY <2>1 DEF Pays, Accounted
<1>5. ASSUME NEW r \in Runs, StartRunning(r) PROVE Accounted
  <2>1. NoNewDebt /\ UNCHANGED spent
    BY <1>5 DEF StartRunning, Goto
  <2>. QED BY <2>1 DEF Accounted
<1>6. ASSUME NEW r \in Runs, AttachWorkspace(r) PROVE Accounted
  <2>1. NoNewDebt /\ UNCHANGED spent
    BY <1>6 DEF AttachWorkspace, Goto
  <2>. QED BY <2>1 DEF Accounted
<1>7. ASSUME NEW r \in Runs, CreateWorktree(r) PROVE Accounted
  <2>1. NoNewDebt /\ UNCHANGED spent
    BY <1>7 DEF CreateWorktree, Goto
  <2>. QED BY <2>1 DEF Accounted
<1>8. ASSUME NEW r \in Runs, CreateWorktreeFails(r) PROVE Accounted
  <2>1. NoNewDebt /\ UNCHANGED spent
    BY <1>8 DEF CreateWorktreeFails, Conclude, Goto
  <2>. QED BY <2>1 DEF Accounted
<1>9. ASSUME NEW r \in Runs, Preflight(r) PROVE Accounted
  <2>1. NoNewDebt /\ UNCHANGED spent
    BY <1>9 DEF Preflight, Continue, Fail, Conclude, Goto
  <2>. QED BY <2>1 DEF Accounted
<1>10. ASSUME NEW r \in Runs, ToolActs(r) PROVE Accounted
  <2>1. NoNewDebt /\ UNCHANGED spent
    BY <1>10 DEF ToolActs
  <2>. QED BY <2>1 DEF Accounted
<1>11. ASSUME NEW r \in Runs, CodingFails(r) PROVE Accounted
  <2>1. Owes(r, "coding") /\ ~ Owes(r, "coding")' /\ NoNewDebt /\ Spend
    BY <1>11 DEF CodingFails, Fail, Conclude, Goto, AgentStops
  <2>. QED BY <2>1 DEF Pays, Accounted
<1>12. ASSUME NEW r \in Runs, CodingIncomplete(r) PROVE Accounted
  <2>1. Owes(r, "coding") /\ ~ Owes(r, "coding")' /\ NoNewDebt /\ Spend
    BY <1>12 DEF CodingIncomplete, Conclude, Goto, AgentStops
  <2>. QED BY <2>1 DEF Pays, Accounted
<1>13. ASSUME NEW r \in Runs, CodingCompletes(r) PROVE Accounted
  <2>1. Owes(r, "coding") /\ ~ Owes(r, "coding")' /\ NoNewDebt /\ Spend
    BY <1>13 DEF CodingCompletes, Continue, Conclude, Goto
  <2>. QED BY <2>1 DEF Pays, Accounted
<1>14. ASSUME NEW r \in Runs, Review(r) PROVE Accounted
  <2>1. Owes(r, "review") /\ ~ Owes(r, "review")' /\ NoNewDebt /\ Spend
    BY <1>14 DEF Review, TurnInv
  <2>. QED BY <2>1 DEF Pays, Accounted
<1>15. ASSUME NEW r \in Runs, PrepareChangeSet(r) PROVE Accounted
  <2>1. NoNewDebt /\ UNCHANGED spent
    BY <1>15 DEF PrepareChangeSet, NextCheck, Goto
  <2>. QED BY <2>1 DEF Accounted
<1>16. ASSUME NEW r \in Runs, PrepareFails(r) PROVE Accounted
  <2>1. NoNewDebt /\ UNCHANGED spent
    BY <1>16 DEF PrepareFails, FailChangeSet, Fail, Conclude, Goto
  <2>. QED BY <2>1 DEF Accounted
<1>17. ASSUME NEW r \in Runs, IndexDrifted(r) PROVE Accounted
  <2>1. CASE pc[r] = "verify"
    <3>1. NoNewDebt /\ UNCHANGED spent
      BY <1>17, <2>1 DEF IndexDrifted, FailChangeSet, Fail, Conclude, Goto
    <3>. QED BY <3>1 DEF Accounted
  <2>2. CASE pc[r] = "evaluate"
    <3>1. Owes(r, "evaluation") /\ ~ Owes(r, "evaluation")' /\ NoNewDebt /\ Spend
      BY <1>17, <2>2 DEF IndexDrifted, FailChangeSet, Fail, Conclude, Goto
    <3>. QED BY <3>1 DEF Pays, Accounted
  <2>. QED BY <1>17, <2>1, <2>2 DEF IndexDrifted
<1>18. ASSUME NEW r \in Runs, CommandPasses(r) PROVE Accounted
  <2>1. NoNewDebt /\ UNCHANGED spent
    BY <1>18 DEF CommandPasses, NextCheck, Goto
  <2>. QED BY <2>1 DEF Accounted
<1>19. ASSUME NEW r \in Runs, CommandFails(r) PROVE Accounted
  <2>1. NoNewDebt /\ UNCHANGED spent
    BY <1>19 DEF CommandFails, Fail, Conclude, Goto
  <2>. QED BY <2>1 DEF Accounted
<1>20. ASSUME NEW r \in Runs, EvaluationPasses(r) PROVE Accounted
  <2>1. Owes(r, "evaluation") /\ ~ Owes(r, "evaluation")' /\ NoNewDebt /\ Spend
    BY <1>20 DEF EvaluationPasses, Evaluated, Continue, Goto
  <2>. QED BY <2>1 DEF Pays, Accounted
<1>21. ASSUME NEW r \in Runs, EvaluationRejects(r) PROVE Accounted
  <2>1. Owes(r, "evaluation") /\ ~ Owes(r, "evaluation")' /\ NoNewDebt /\ Spend
    BY <1>21 DEF EvaluationRejects, Evaluated, Suggest, Conclude, Goto
  <2>. QED BY <2>1 DEF Pays, Accounted
<1>22. ASSUME NEW r \in Runs, EvaluationPreserved(r) PROVE Accounted
  <2>1. Owes(r, "evaluation") /\ ~ Owes(r, "evaluation")' /\ NoNewDebt /\ Spend
    BY <1>22 DEF EvaluationPreserved, Evaluated, Continue, Goto
  <2>. QED BY <2>1 DEF Pays, Accounted
<1>23. ASSUME NEW r \in Runs, EvaluationAbandoned(r) PROVE Accounted
  <2>1. Owes(r, "evaluation") /\ ~ Owes(r, "evaluation")' /\ NoNewDebt /\ Spend
    BY <1>23 DEF EvaluationAbandoned, Evaluated, Fail, Suggest, Conclude, Goto
  <2>. QED BY <2>1 DEF Pays, Accounted
<1>24. ASSUME NEW r \in Runs, NothingToCommit(r) PROVE Accounted
  <2>1. NoNewDebt /\ UNCHANGED spent
    BY <1>24 DEF NothingToCommit, Conclude, Goto
  <2>. QED BY <2>1 DEF Accounted
<1>25. ASSUME NEW r \in Runs, CommitRepair(r) PROVE Accounted
  <2>1. NoNewDebt /\ UNCHANGED spent
    BY <1>25 DEF CommitRepair, Continue, Conclude, Goto
  <2>. QED BY <2>1 DEF Accounted
<1>26. ASSUME NEW r \in Runs, CommitFails(r) PROVE Accounted
  <2>1. NoNewDebt /\ UNCHANGED spent
    BY <1>26 DEF CommitFails, FailChangeSet, Fail, Conclude, Goto
  <2>. QED BY <2>1 DEF Accounted
<1>27. ASSUME NEW r \in Runs, PushBranch(r) PROVE Accounted
  <2>1. NoNewDebt /\ UNCHANGED spent
    BY <1>27 DEF PushBranch, Goto
  <2>. QED BY <2>1 DEF Accounted
<1>28. ASSUME NEW r \in Runs, PushFails(r) PROVE Accounted
  <2>1. NoNewDebt /\ UNCHANGED spent
    BY <1>28 DEF PushFails, FailDelivery, Conclude, Goto
  <2>. QED BY <2>1 DEF Accounted
<1>29. ASSUME NEW r \in Runs, AutomationOpensCR(r) PROVE Accounted
  <2>1. NoNewDebt /\ UNCHANGED spent
    BY <1>29 DEF AutomationOpensCR
  <2>. QED BY <2>1 DEF Accounted
<1>30. ASSUME NEW r \in Runs, OpenChangeRequest(r) PROVE Accounted
  <2>1. NoNewDebt /\ UNCHANGED spent
    BY <1>30 DEF OpenChangeRequest, ConcludeDelivered, Conclude, Goto
  <2>. QED BY <2>1 DEF Accounted
<1>31. ASSUME NEW r \in Runs, ReuseChangeRequest(r) PROVE Accounted
  <2>1. NoNewDebt /\ UNCHANGED spent
    BY <1>31 DEF ReuseChangeRequest, ConcludeDelivered, Conclude, Goto
  <2>. QED BY <2>1 DEF Accounted
<1>32. ASSUME NEW r \in Runs, RequestFails(r) PROVE Accounted
  <2>1. NoNewDebt /\ UNCHANGED spent
    BY <1>32 DEF RequestFails, FailDelivery, Conclude, Goto
  <2>. QED BY <2>1 DEF Accounted
<1>33. ASSUME NEW r \in Runs, Record(r) PROVE Accounted
  <2>1. NoNewDebt /\ UNCHANGED spent
    BY <1>33 DEF Record, Goto
  <2>. QED BY <2>1 DEF Accounted
<1>34. ASSUME NEW r \in Runs, Notify(r) PROVE Accounted
  <2>1. NoNewDebt /\ UNCHANGED spent
    BY <1>34 DEF Notify, Goto
  <2>. QED BY <2>1 DEF Accounted
<1>35. ASSUME NEW r \in Runs, DiscardWorktree(r) PROVE Accounted
  <2>1. NoNewDebt /\ UNCHANGED spent
    BY <1>35 DEF DiscardWorktree, Goto
  <2>. QED BY <2>1 DEF Accounted
<1>36. ASSUME NEW r \in Runs, Exit(r) PROVE Accounted
  <2>1. NoNewDebt /\ UNCHANGED spent
    BY <1>36 DEF Exit, Goto
  <2>. QED BY <2>1 DEF Accounted
<1>37. ASSUME NEW r \in Runs, Crash(r) PROVE Accounted
  <2>1. NoNewDebt /\ UNCHANGED spent
    BY <1>37 DEF Crash, Goto
  <2>. QED BY <2>1 DEF Accounted
<1>38. CASE NewDay
  BY <1>38 DEF NewDay, Accounted
<1>39. CASE UNCHANGED vars
  <2>1. NoNewDebt /\ UNCHANGED spent
    BY <1>39 DEF vars
  <2>. QED BY <2>1 DEF Accounted
<1>. QED
  BY <1>1, <1>2, <1>3, <1>4, <1>5, <1>6, <1>7, <1>8, <1>9, <1>10, <1>11,
     <1>12, <1>13, <1>14, <1>15, <1>16, <1>17, <1>18, <1>19, <1>20, <1>21,
     <1>22, <1>23, <1>24, <1>25, <1>26, <1>27, <1>28, <1>29, <1>30, <1>31,
     <1>32, <1>33, <1>34, <1>35, <1>36, <1>37, <1>38, <1>39
     DEF Next, Step, Terminated

-----------------------------------------------------------------------------
(* How much can be owed.                                                   *)

\* The most the calls can owe together.
Limit == 3 * Processes + Cardinality(Runs)

\* Limit is a natural number.
LEMMA LimitType ==
  ASSUME IsFiniteSet(Runs)
  PROVE  /\ IsFiniteSet(Runs \ DaemonRuns)
         /\ Cardinality(Runs) \in Nat /\ Processes \in Nat /\ Limit \in Nat
<1>1. IsFiniteSet(Runs \ DaemonRuns)
  BY FS_Difference
<1>2. Cardinality(Runs) \in Nat /\ Cardinality(Runs \ DaemonRuns) \in Nat
  BY <1>1, FS_CardinalityType
<1>3. Processes \in Nat
  BY <1>2 DEF Processes
<1>. QED BY <1>1, <1>2, <1>3 DEF Limit

\* The calls past the gate that have not left their last stage: all separate
\* processes and one call of the daemon.
LEMMA BusyCallsBounded ==
  ASSUME IsFiniteSet(Runs), TypeOK, TurnInv
  PROVE  \E busy \in SUBSET Runs :
           /\ \A r \in Runs : pc[r] \in UntilEvaluated => r \in busy
           /\ IsFiniteSet(busy) /\ Cardinality(busy) <= Processes
<1>. DEFINE own == Runs \ DaemonRuns
<1>1. IsFiniteSet(own) /\ Cardinality(own) \in Nat
  BY LimitType, FS_CardinalityType
<1>2. ASSUME NEW r \in Runs, pc[r] \in UntilEvaluated PROVE Active(r)
  BY <1>2 DEF UntilEvaluated, UntilCoded, Active
<1>3. DaemonRuns \subseteq Runs
  BY RepairLoopAssumption
<1>4. CASE \A r \in DaemonRuns : ~ Active(r)
  <2>1. Cardinality(own) <= Processes
    BY <1>1 DEF Processes
  <2>2. \A r \in Runs : pc[r] \in UntilEvaluated => r \in own
    BY <1>2, <1>4
  <2>. QED BY <1>1, <2>1, <2>2
<1>5. ASSUME NEW d \in DaemonRuns, Active(d)
      PROVE  \E busy \in SUBSET Runs :
               /\ \A r \in Runs : pc[r] \in UntilEvaluated => r \in busy
               /\ IsFiniteSet(busy) /\ Cardinality(busy) <= Processes
  <2>1. IsFiniteSet({d}) /\ Cardinality({d}) = 1 /\ own \cap {d} = {}
    BY FS_Singleton
  <2>2. IsFiniteSet(own \cup {d}) /\ Cardinality(own \cup {d}) = Cardinality(own) + 1
    <3>1. Cardinality(own \cap {d}) = 0
      BY <2>1, FS_EmptySet
    <3>2. /\ IsFiniteSet(own \cup {d})
          /\ Cardinality(own \cup {d})
               = Cardinality(own) + Cardinality({d}) - Cardinality(own \cap {d})
      BY <1>1, <2>1, FS_Union
    <3>. QED BY <1>1, <2>1, <3>1, <3>2
  <2>3. Processes = Cardinality(own) + 1
    BY <1>1, <1>5 DEF Processes
  <2>4. \A r \in Runs : pc[r] \in UntilEvaluated => r \in own \cup {d}
    BY <1>2, <1>3, <1>5 DEF TurnInv
  <2>5. own \cup {d} \in SUBSET Runs /\ Cardinality(own \cup {d}) <= Processes
    BY <1>1, <1>3, <2>2, <2>3
  <2>. QED BY <2>2, <2>4, <2>5
<1>. QED BY <1>4, <1>5

\* Never more payments are due than three of every process and one reviewer of
\* every call.
LEMMA DebtsBounded ==
  ASSUME IsFiniteSet(Runs), TypeOK, TurnInv
  PROVE  /\ IsFiniteSet(Debts)
         /\ Cardinality(Debts) \in Nat
         /\ Cardinality(Debts) <= Limit
<1>1. PICK busy \in SUBSET Runs :
        /\ \A r \in Runs : pc[r] \in UntilEvaluated => r \in busy
        /\ IsFiniteSet(busy) /\ Cardinality(busy) <= Processes
  BY BusyCallsBounded
<1>. DEFINE work == busy \X Stages
            reviews == Runs \X {"review"}
<1>2. IsFiniteSet(Stages) /\ Cardinality(Stages) = 3
  <2>1. ASSUME NEW S, IsFiniteSet(S), NEW x, x \notin S
        PROVE  IsFiniteSet(S \cup {x}) /\ Cardinality(S \cup {x}) = Cardinality(S) + 1
    BY <2>1, FS_AddElement
  <2>2. IsFiniteSet({"triage"} \cup {"coding"}) /\ Cardinality({"triage"} \cup {"coding"}) = 2
    <3>1. IsFiniteSet({"triage"}) /\ Cardinality({"triage"}) = 1 /\ "coding" \notin {"triage"}
      BY FS_Singleton
    <3>. QED BY <3>1, <2>1
  <2>3. /\ IsFiniteSet(({"triage"} \cup {"coding"}) \cup {"evaluation"})
        /\ Cardinality(({"triage"} \cup {"coding"}) \cup {"evaluation"}) = 3
    BY <2>2, "evaluation" \notin {"triage"} \cup {"coding"}, FS_AddElement
  <2>4. Stages = ({"triage"} \cup {"coding"}) \cup {"evaluation"}
    BY DEF Stages
  <2>. QED BY <2>3, <2>4
<1>3. IsFiniteSet(work) /\ Cardinality(work) = Cardinality(busy) * 3
  BY <1>1, <1>2, FS_Product
<1>4. IsFiniteSet(reviews) /\ Cardinality(reviews) = Cardinality(Runs)
  <2>1. IsFiniteSet({"review"}) /\ Cardinality({"review"}) = 1
    BY FS_Singleton
  <2>2. IsFiniteSet(reviews) /\ Cardinality(reviews) = Cardinality(Runs) * 1
    BY <2>1, FS_Product
  <2>. QED BY <2>2, LimitType
<1>5. Debts \subseteq work \cup reviews
  <2>1. ASSUME NEW r \in Runs, NEW payment \in Payments, Owes(r, payment)
        PROVE  <<r, payment>> \in work \cup reviews
    BY <1>1, <2>1 DEF Owes, Payments, Stages, UntilEvaluated, UntilCoded
  <2>. QED BY <2>1 DEF Debts
<1>6. /\ IsFiniteSet(work \cup reviews)
      /\ Cardinality(work \cup reviews)
           = Cardinality(work) + Cardinality(reviews) - Cardinality(work \cap reviews)
  BY <1>3, <1>4, FS_Union
<1>7. Cardinality(work \cap reviews) \in Nat
  BY <1>3, FS_Intersection, FS_CardinalityType
<1>8. Cardinality(busy) \in Nat /\ Cardinality(Runs) \in Nat /\ Processes \in Nat
  BY <1>1, FS_CardinalityType, LimitType
<1>9. Cardinality(work \cup reviews) <= Limit
  BY <1>1, <1>3, <1>4, <1>6, <1>7, <1>8 DEF Limit
<1>10. IsFiniteSet(Debts) /\ Cardinality(Debts) <= Cardinality(work \cup reviews)
  BY <1>5, <1>6, FS_Subset
<1>11. Cardinality(Debts) \in Nat /\ Cardinality(work \cup reviews) \in Nat
  BY <1>6, <1>10, FS_CardinalityType
<1>. QED BY <1>9, <1>10, <1>11, LimitType

\* So it stays.
LEMMA DebtsBoundedNext ==
  ASSUME IsFiniteSet(Runs)
  PROVE  (TypeOK /\ TurnInv)' => (Cardinality(Debts) \in Nat /\ Cardinality(Debts) <= Limit)'
<1>1. TypeOK /\ TurnInv => Cardinality(Debts) \in Nat /\ Cardinality(Debts) <= Limit
  BY DebtsBounded
<1>. QED BY <1>1, PTL

\* Where no debt is made, the debts are among the former ones.
LEMMA DebtsShrink ==
  ASSUME IsFiniteSet(Debts), NoNewDebt
  PROVE  /\ Debts' \subseteq Debts
         /\ IsFiniteSet(Debts') /\ Cardinality(Debts') <= Cardinality(Debts)
<1>1. Debts' \subseteq Debts
  BY DEF Debts, NoNewDebt
<1>. QED BY <1>1, FS_Subset

\* Paying one leaves at least one fewer.
LEMMA DebtsPaid ==
  ASSUME IsFiniteSet(Debts), NEW r \in Runs, NEW payment \in Payments, Pays(r, payment)
  PROVE  Cardinality(Debts') <= Cardinality(Debts) - 1
<1>. DEFINE debt == <<r, payment>>
<1>1. debt \in Debts /\ debt \notin Debts'
  BY DEF Pays, Debts
<1>2. Debts' \subseteq Debts \ {debt}
  BY <1>1, DebtsShrink DEF Pays
<1>3. /\ IsFiniteSet(Debts \ {debt})
      /\ Cardinality(Debts \ {debt}) = Cardinality(Debts) - 1
  BY <1>1, FS_RemoveElement
<1>. QED BY <1>2, <1>3, FS_Subset

-----------------------------------------------------------------------------
(* The overshoot.                                                          *)

\* With everything owed paid, the bound is not reached.
DebtInv == Budget > 0 => spent + MaxCost * Cardinality(Debts) < Budget + MaxCost * Limit

\* Fewer payments cost no more.
LEMMA CostGrows ==
  ASSUME NEW a \in Nat, NEW b \in Nat, a <= b
  PROVE  /\ MaxCost * a \in Nat /\ MaxCost * b \in Nat
         /\ MaxCost * a <= MaxCost * b
<1>1. MaxCost \in Nat
  BY RepairLoopAssumption
<1>2. b - a \in Nat /\ b = a + (b - a)
  OBVIOUS
<1>3. PICK d \in Nat : b = a + d
  BY <1>2
<1>4. MaxCost * (a + d) = MaxCost * a + MaxCost * d
  BY <1>1
<1>5. MaxCost * a \in Nat /\ MaxCost * d \in Nat
  BY <1>1
<1>. QED BY <1>3, <1>4, <1>5

\* DebtInv is inductive.
LEMMA StepDebtInv ==
  ASSUME IsFiniteSet(Runs), ~ DBFaults
  PROVE  TypeOK /\ TurnInv /\ DebtInv /\ [Next]_vars => DebtInv'
<1>. SUFFICES ASSUME TypeOK, TurnInv, DebtInv, [Next]_vars, Budget > 0
              PROVE  spent' + MaxCost * Cardinality(Debts') < Budget + MaxCost * Limit
  BY DEF DebtInv, Limit, Processes
<1>. DEFINE m == Cardinality(Debts)
            n == Cardinality(Debts')
<1>1. TypeOK' /\ TurnInv' /\ Accounted
  BY StepTypeOK, StepTurnInv, StepAccounted
<1>2. IsFiniteSet(Debts) /\ m \in Nat
  BY DebtsBounded
<1>3. n \in Nat /\ n <= Limit
  BY <1>1, DebtsBoundedNext DEF Limit, Processes
<1>4. Limit \in Nat /\ MaxCost \in Nat /\ Budget \in Nat /\ spent \in Nat /\ spent' \in Nat
  BY <1>1, LimitType, RepairLoopAssumption DEF TypeOK
<1>5. /\ MaxCost * n \in Nat /\ MaxCost * m \in Nat /\ MaxCost * Limit \in Nat
      /\ MaxCost * n <= MaxCost * Limit
  BY <1>2, <1>3, <1>4, CostGrows
<1>6. spent + MaxCost * m < Budget + MaxCost * Limit
  BY DEF DebtInv
<1>. HIDE DEF m, n
<1>7. CASE NoNewDebt /\ UNCHANGED spent
  <2>1. n <= m
    BY <1>2, <1>7, DebtsShrink DEF m, n
  <2>2. MaxCost * n <= MaxCost * m
    BY <1>2, <1>3, <2>1, CostGrows
  <2>. QED BY <1>4, <1>5, <1>6, <1>7, <2>2 DEF n
<1>8. ASSUME NEW r \in Runs, NEW payment \in Payments, Pays(r, payment)
      PROVE  spent' + MaxCost * n < Budget + MaxCost * Limit
  <2>1. n <= m - 1
    BY <1>2, <1>8, DebtsPaid DEF m, n
  <2>2. n + 1 \in Nat /\ n + 1 <= m
    BY <1>2, <1>3, <2>1
  <2>3. MaxCost * (n + 1) <= MaxCost * m
    BY <1>2, <2>2, CostGrows
  <2>4. MaxCost * (n + 1) = MaxCost * n + MaxCost
    BY <1>3, <1>4
  <2>5. spent' <= spent + MaxCost
    BY <1>4, <1>8 DEF Pays, Spend
  <2>. QED BY <1>4, <1>5, <1>6, <2>3, <2>4, <2>5
<1>9. CASE spent < Budget /\ UNCHANGED spent
  BY <1>4, <1>5, <1>9 DEF n
<1>10. CASE spent' = 0
  BY <1>4, <1>5, <1>10 DEF n
<1>. QED
  BY <1>1, <1>4, <1>7, <1>8, <1>9, <1>10 DEF Accounted, n

\* Whatever calls and reviewers run side by side, crash or outlive their call:
\* while the database answers, a day's tokens overshoot the budget by less than
\* three stages of every process and one review of every call
\* (loop.go:239-251).
THEOREM BudgetOvershootIsBounded ==
  ASSUME IsFiniteSet(Runs), ~ DBFaults PROVE Spec => []BudgetOvershootBounded
<1>1. Init => TurnInv /\ DebtInv
  <2>. SUFFICES ASSUME Init PROVE TurnInv /\ DebtInv
    OBVIOUS
  <2>1. TurnInv
    BY RepairLoopAssumption DEF Init, TurnInv, Active
  <2>2. Debts = {}
    BY DEF Init, Debts, Owes, ReviewDue, UntilCoded, UntilEvaluated
  <2>3. Cardinality(Debts) = 0
    BY <2>2, FS_EmptySet
  <2>4. MaxCost * Limit \in Nat /\ MaxCost * 0 = 0 /\ Budget \in Nat
    BY LimitType, CostGrows, RepairLoopAssumption
  <2>. QED BY <2>1, <2>3, <2>4 DEF DebtInv, Init
<1>2. TypeOK /\ TurnInv /\ DebtInv => BudgetOvershootBounded
  <2>. SUFFICES ASSUME TypeOK, TurnInv, DebtInv, Budget > 0
                PROVE  spent < Budget + 3 * MaxCost * Processes + MaxCost * Cardinality(Runs)
    BY DEF BudgetOvershootBounded
  <2>1. MaxCost * Cardinality(Debts) \in Nat
    BY DebtsBounded, CostGrows
  <2>2. /\ MaxCost \in Nat /\ Processes \in Nat /\ Cardinality(Runs) \in Nat
        /\ Limit \in Nat /\ spent \in Nat /\ Budget \in Nat
    BY LimitType, RepairLoopAssumption DEF TypeOK
  <2>3. MaxCost * Limit = 3 * MaxCost * Processes + MaxCost * Cardinality(Runs)
    <3>1. ASSUME NEW a \in Nat, NEW p \in Nat, NEW c \in Nat
          PROVE  a * (3 * p + c) = 3 * a * p + a * c
      OBVIOUS
    <3>. QED BY <2>2, <3>1 DEF Limit
  <2>4. MaxCost * Limit \in Nat
    BY <2>2, CostGrows
  <2>. QED BY <2>1, <2>2, <2>3, <2>4 DEF DebtInv
<1>. QED
  BY <1>1, <1>2, TypeCorrect, StepTypeOK, StepTurnInv, StepDebtInv, PTL DEF Spec

===============================================================================
