------------------------- MODULE RepairOutcomeProofs -------------------------
(***************************************************************************)
(* How a call of Loop.Run leaves things, for every set of runs, repository *)
(* content and configuration: what happens to its branch, whom it told,    *)
(* and which events explain its status.  Each invariant below ties what    *)
(* the call has done so far to what it has decided to do next (plan), since*)
(* the properties only speak of the moment when it has done everything.    *)
(***************************************************************************)
EXTENDS RepairLoopProofs

-----------------------------------------------------------------------------
(* A branch that was pushed is kept.                                       *)

\* The points between the creation of the worktree and the decision.
InWorktree == {"preflight", "coding", "prepare", "verify", "evaluate", "commit",
               "deliver", "request"}

\* A call that ships has its branch from the worktree on, and one that has
\* pushed never decides to discard it.
KeptInv ==
  \A r \in Runs :
    /\ pc[r] \in InWorktree \ {"coding"} => Ships(r)
    /\ pc[r] \in InWorktree /\ Ships(r) => branch[r]
    /\ pushed[r] # NoTree => branch[r] /\ pc[r] \in ({"request"} \cup Concluded) \ {"discard"}
    /\ pushed[r] # NoTree /\ pc[r] \in {"record", "notify"} => plan[r].drop = "never"

\* KeptInv is inductive.
LEMMA StepKeptInv == TypeOK /\ KeptInv /\ [Next]_vars => KeptInv'
<1>. SUFFICES ASSUME TypeOK, KeptInv, [Next]_vars PROVE KeptInv'
  OBVIOUS
<1>. USE DEF TypeOK, dbVars, callVars, gitVars, outVars, KeptInv, InWorktree,
           Concluded, Ships
<1>1. ASSUME NEW r \in Runs, Dedup(r) PROVE KeptInv'
  BY <1>1 DEF Dedup, Goto
<1>2. ASSUME NEW r \in Runs, CreateTask(r) PROVE KeptInv'
  BY <1>2 DEF CreateTask, Goto, TaskExists
<1>3. ASSUME NEW r \in Runs, BudgetGate(r) PROVE KeptInv'
  BY <1>3 DEF BudgetGate, Continue, Conclude, Goto
<1>4. ASSUME NEW r \in Runs, Triage(r) PROVE KeptInv'
  BY <1>4 DEF Triage, Continue, Conclude, Goto
<1>5. ASSUME NEW r \in Runs, StartRunning(r) PROVE KeptInv'
  BY <1>5 DEF StartRunning, Goto
<1>6. ASSUME NEW r \in Runs, AttachWorkspace(r) PROVE KeptInv'
  BY <1>6 DEF AttachWorkspace, Goto
<1>7. ASSUME NEW r \in Runs, CreateWorktree(r) PROVE KeptInv'
  BY <1>7 DEF CreateWorktree, Goto
<1>8. ASSUME NEW r \in Runs, CreateWorktreeFails(r) PROVE KeptInv'
  BY <1>8 DEF CreateWorktreeFails, Conclude, Goto
<1>9. ASSUME NEW r \in Runs, Preflight(r) PROVE KeptInv'
  BY <1>9 DEF Preflight, Continue, Fail, Conclude, Goto
<1>10. ASSUME NEW r \in Runs, ToolActs(r) PROVE KeptInv'
  BY <1>10 DEF ToolActs
<1>11. ASSUME NEW r \in Runs, CodingFails(r) PROVE KeptInv'
  BY <1>11 DEF CodingFails, Fail, Conclude, Goto
<1>12. ASSUME NEW r \in Runs, CodingIncomplete(r) PROVE KeptInv'
  BY <1>12 DEF CodingIncomplete, Conclude, Goto
<1>13. ASSUME NEW r \in Runs, CodingCompletes(r) PROVE KeptInv'
  BY <1>13 DEF CodingCompletes, Continue, Conclude, Goto
<1>14. ASSUME NEW r \in Runs, Review(r) PROVE KeptInv'
  BY <1>14 DEF Review
<1>15. ASSUME NEW r \in Runs, PrepareChangeSet(r) PROVE KeptInv'
  BY <1>15 DEF PrepareChangeSet, NextCheck, Goto
<1>16. ASSUME NEW r \in Runs, PrepareFails(r) PROVE KeptInv'
  BY <1>16 DEF PrepareFails, FailChangeSet, Fail, Conclude, Goto
<1>17. ASSUME NEW r \in Runs, IndexDrifted(r) PROVE KeptInv'
  BY <1>17 DEF IndexDrifted, FailChangeSet, Fail, Conclude, Goto
<1>18. ASSUME NEW r \in Runs, CommandPasses(r) PROVE KeptInv'
  BY <1>18 DEF CommandPasses, NextCheck, Goto
<1>19. ASSUME NEW r \in Runs, CommandFails(r) PROVE KeptInv'
  BY <1>19 DEF CommandFails, Fail, Conclude, Goto
<1>20. ASSUME NEW r \in Runs, EvaluationPasses(r) PROVE KeptInv'
  BY <1>20 DEF EvaluationPasses, Evaluated, Continue, Goto
<1>21. ASSUME NEW r \in Runs, EvaluationRejects(r) PROVE KeptInv'
  BY <1>21 DEF EvaluationRejects, Evaluated, Suggest, Conclude, Goto
<1>22. ASSUME NEW r \in Runs, EvaluationPreserved(r) PROVE KeptInv'
  BY <1>22 DEF EvaluationPreserved, Evaluated, Continue, Goto
<1>23. ASSUME NEW r \in Runs, EvaluationAbandoned(r) PROVE KeptInv'
  BY <1>23 DEF EvaluationAbandoned, Evaluated, Fail, Suggest, Conclude, Goto
<1>24. ASSUME NEW r \in Runs, NothingToCommit(r) PROVE KeptInv'
  BY <1>24 DEF NothingToCommit, Conclude, Goto
<1>25. ASSUME NEW r \in Runs, CommitRepair(r) PROVE KeptInv'
  BY <1>25 DEF CommitRepair, Continue, Conclude, Goto
<1>26. ASSUME NEW r \in Runs, CommitFails(r) PROVE KeptInv'
  BY <1>26 DEF CommitFails, FailChangeSet, Fail, Conclude, Goto
<1>27. ASSUME NEW r \in Runs, PushBranch(r) PROVE KeptInv'
  BY <1>27 DEF PushBranch, Goto, Push
<1>28. ASSUME NEW r \in Runs, PushFails(r) PROVE KeptInv'
  BY <1>28 DEF PushFails, FailDelivery, Conclude, Goto, Push
<1>29. ASSUME NEW r \in Runs, AutomationOpensCR(r) PROVE KeptInv'
  BY <1>29 DEF AutomationOpensCR
<1>30. ASSUME NEW r \in Runs, OpenChangeRequest(r) PROVE KeptInv'
  BY <1>30 DEF OpenChangeRequest, ConcludeDelivered, Conclude, Goto
<1>31. ASSUME NEW r \in Runs, ReuseChangeRequest(r) PROVE KeptInv'
  BY <1>31 DEF ReuseChangeRequest, ConcludeDelivered, Conclude, Goto
<1>32. ASSUME NEW r \in Runs, RequestFails(r) PROVE KeptInv'
  BY <1>32 DEF RequestFails, FailDelivery, Conclude, Goto
<1>33. ASSUME NEW r \in Runs, Record(r) PROVE KeptInv'
  BY <1>33 DEF Record, Goto
<1>34. ASSUME NEW r \in Runs, Notify(r) PROVE KeptInv'
  BY <1>34 DEF Notify, Goto
<1>35. ASSUME NEW r \in Runs, DiscardWorktree(r) PROVE KeptInv'
  BY <1>35 DEF DiscardWorktree, Goto
<1>36. ASSUME NEW r \in Runs, Exit(r) PROVE KeptInv'
  BY <1>36 DEF Exit, Goto
<1>37. ASSUME NEW r \in Runs, Crash(r) PROVE KeptInv'
  BY <1>37 DEF Crash, Goto
<1>38. CASE NewDay
  BY <1>38 DEF NewDay
<1>39. CASE UNCHANGED vars
  BY <1>39 DEF vars
<1>. QED
  BY <1>1, <1>2, <1>3, <1>4, <1>5, <1>6, <1>7, <1>8, <1>9, <1>10, <1>11,
     <1>12, <1>13, <1>14, <1>15, <1>16, <1>17, <1>18, <1>19, <1>20, <1>21,
     <1>22, <1>23, <1>24, <1>25, <1>26, <1>27, <1>28, <1>29, <1>30, <1>31,
     <1>32, <1>33, <1>34, <1>35, <1>36, <1>37, <1>38, <1>39
     DEF Next, Step, Terminated

\* Whatever fails between the push and the end of the call, the database or
\* the clean-up included, the local branch that was pushed is still there
\* (loop.go:803-819, 919-933).
THEOREM PushedBranchSurvives == Spec => []PushedBranchIsKept
<1>1. Init => KeptInv
  BY DEF Init, KeptInv, InWorktree, Ships, Shipping
<1>2. KeptInv => PushedBranchIsKept
  BY DEF KeptInv, PushedBranchIsKept
<1>. QED BY <1>1, <1>2, TypeCorrect, StepKeptInv, PTL DEF Spec

-----------------------------------------------------------------------------
(* Only duplicates are dropped.                                            *)

\* A step drops a signal only while another task owns its key.
LEMMA StepDropped == ~ DBFaults /\ TypeOK /\ RowInv /\ OnlyDuplicatesAreDropped /\ [Next]_vars => OnlyDuplicatesAreDropped'
<1>. SUFFICES ASSUME ~ DBFaults, TypeOK, RowInv, OnlyDuplicatesAreDropped, [Next]_vars PROVE OnlyDuplicatesAreDropped'
  OBVIOUS
<1>. USE DEF TypeOK, dbVars, callVars, gitVars, outVars,
           OnlyDuplicatesAreDropped, RowInv
<1>1. ASSUME NEW r \in Runs, Dedup(r) PROVE OnlyDuplicatesAreDropped'
  BY <1>1 DEF Dedup, Goto, TaskExists
<1>2. ASSUME NEW r \in Runs, CreateTask(r) PROVE OnlyDuplicatesAreDropped'
  BY <1>2 DEF CreateTask, Goto, TaskExists
<1>3. ASSUME NEW r \in Runs, BudgetGate(r) PROVE OnlyDuplicatesAreDropped'
  BY <1>3 DEF BudgetGate, Continue, Conclude, Goto
<1>4. ASSUME NEW r \in Runs, Triage(r) PROVE OnlyDuplicatesAreDropped'
  BY <1>4 DEF Triage, Continue, Conclude, Goto
<1>5. ASSUME NEW r \in Runs, StartRunning(r) PROVE OnlyDuplicatesAreDropped'
  BY <1>5 DEF StartRunning, Goto
<1>6. ASSUME NEW r \in Runs, AttachWorkspace(r) PROVE OnlyDuplicatesAreDropped'
  BY <1>6 DEF AttachWorkspace, Goto
<1>7. ASSUME NEW r \in Runs, CreateWorktree(r) PROVE OnlyDuplicatesAreDropped'
  BY <1>7 DEF CreateWorktree, Goto
<1>8. ASSUME NEW r \in Runs, CreateWorktreeFails(r) PROVE OnlyDuplicatesAreDropped'
  BY <1>8 DEF CreateWorktreeFails, Conclude, Goto
<1>9. ASSUME NEW r \in Runs, Preflight(r) PROVE OnlyDuplicatesAreDropped'
  BY <1>9 DEF Preflight, Continue, Fail, Conclude, Goto
<1>10. ASSUME NEW r \in Runs, ToolActs(r) PROVE OnlyDuplicatesAreDropped'
  BY <1>10 DEF ToolActs
<1>11. ASSUME NEW r \in Runs, CodingFails(r) PROVE OnlyDuplicatesAreDropped'
  BY <1>11 DEF CodingFails, Fail, Conclude, Goto
<1>12. ASSUME NEW r \in Runs, CodingIncomplete(r) PROVE OnlyDuplicatesAreDropped'
  BY <1>12 DEF CodingIncomplete, Conclude, Goto
<1>13. ASSUME NEW r \in Runs, CodingCompletes(r) PROVE OnlyDuplicatesAreDropped'
  BY <1>13 DEF CodingCompletes, Continue, Conclude, Goto
<1>14. ASSUME NEW r \in Runs, Review(r) PROVE OnlyDuplicatesAreDropped'
  BY <1>14 DEF Review
<1>15. ASSUME NEW r \in Runs, PrepareChangeSet(r) PROVE OnlyDuplicatesAreDropped'
  BY <1>15 DEF PrepareChangeSet, NextCheck, Goto
<1>16. ASSUME NEW r \in Runs, PrepareFails(r) PROVE OnlyDuplicatesAreDropped'
  BY <1>16 DEF PrepareFails, FailChangeSet, Fail, Conclude, Goto
<1>17. ASSUME NEW r \in Runs, IndexDrifted(r) PROVE OnlyDuplicatesAreDropped'
  BY <1>17 DEF IndexDrifted, FailChangeSet, Fail, Conclude, Goto
<1>18. ASSUME NEW r \in Runs, CommandPasses(r) PROVE OnlyDuplicatesAreDropped'
  BY <1>18 DEF CommandPasses, NextCheck, Goto
<1>19. ASSUME NEW r \in Runs, CommandFails(r) PROVE OnlyDuplicatesAreDropped'
  BY <1>19 DEF CommandFails, Fail, Conclude, Goto
<1>20. ASSUME NEW r \in Runs, EvaluationPasses(r) PROVE OnlyDuplicatesAreDropped'
  BY <1>20 DEF EvaluationPasses, Evaluated, Continue, Goto
<1>21. ASSUME NEW r \in Runs, EvaluationRejects(r) PROVE OnlyDuplicatesAreDropped'
  BY <1>21 DEF EvaluationRejects, Evaluated, Suggest, Conclude, Goto
<1>22. ASSUME NEW r \in Runs, EvaluationPreserved(r) PROVE OnlyDuplicatesAreDropped'
  BY <1>22 DEF EvaluationPreserved, Evaluated, Continue, Goto
<1>23. ASSUME NEW r \in Runs, EvaluationAbandoned(r) PROVE OnlyDuplicatesAreDropped'
  BY <1>23 DEF EvaluationAbandoned, Evaluated, Fail, Suggest, Conclude, Goto
<1>24. ASSUME NEW r \in Runs, NothingToCommit(r) PROVE OnlyDuplicatesAreDropped'
  BY <1>24 DEF NothingToCommit, Conclude, Goto
<1>25. ASSUME NEW r \in Runs, CommitRepair(r) PROVE OnlyDuplicatesAreDropped'
  BY <1>25 DEF CommitRepair, Continue, Conclude, Goto
<1>26. ASSUME NEW r \in Runs, CommitFails(r) PROVE OnlyDuplicatesAreDropped'
  BY <1>26 DEF CommitFails, FailChangeSet, Fail, Conclude, Goto
<1>27. ASSUME NEW r \in Runs, PushBranch(r) PROVE OnlyDuplicatesAreDropped'
  BY <1>27 DEF PushBranch, Goto
<1>28. ASSUME NEW r \in Runs, PushFails(r) PROVE OnlyDuplicatesAreDropped'
  BY <1>28 DEF PushFails, FailDelivery, Conclude, Goto
<1>29. ASSUME NEW r \in Runs, AutomationOpensCR(r) PROVE OnlyDuplicatesAreDropped'
  BY <1>29 DEF AutomationOpensCR
<1>30. ASSUME NEW r \in Runs, OpenChangeRequest(r) PROVE OnlyDuplicatesAreDropped'
  BY <1>30 DEF OpenChangeRequest, ConcludeDelivered, Conclude, Goto
<1>31. ASSUME NEW r \in Runs, ReuseChangeRequest(r) PROVE OnlyDuplicatesAreDropped'
  BY <1>31 DEF ReuseChangeRequest, ConcludeDelivered, Conclude, Goto
<1>32. ASSUME NEW r \in Runs, RequestFails(r) PROVE OnlyDuplicatesAreDropped'
  BY <1>32 DEF RequestFails, FailDelivery, Conclude, Goto
<1>33. ASSUME NEW r \in Runs, Record(r) PROVE OnlyDuplicatesAreDropped'
  <2>1. plan[r].status # "none"
    BY DEF Plans, Terminal
  <2>. QED BY <1>33, <2>1 DEF Record, Goto
<1>34. ASSUME NEW r \in Runs, Notify(r) PROVE OnlyDuplicatesAreDropped'
  BY <1>34 DEF Notify, Goto
<1>35. ASSUME NEW r \in Runs, DiscardWorktree(r) PROVE OnlyDuplicatesAreDropped'
  BY <1>35 DEF DiscardWorktree, Goto
<1>36. ASSUME NEW r \in Runs, Exit(r) PROVE OnlyDuplicatesAreDropped'
  BY <1>36 DEF Exit, Goto
<1>37. ASSUME NEW r \in Runs, Crash(r) PROVE OnlyDuplicatesAreDropped'
  BY <1>37 DEF Crash, Goto
<1>38. CASE NewDay
  BY <1>38 DEF NewDay
<1>39. CASE UNCHANGED vars
  BY <1>39 DEF vars
<1>. QED
  BY <1>1, <1>2, <1>3, <1>4, <1>5, <1>6, <1>7, <1>8, <1>9, <1>10, <1>11,
     <1>12, <1>13, <1>14, <1>15, <1>16, <1>17, <1>18, <1>19, <1>20, <1>21,
     <1>22, <1>23, <1>24, <1>25, <1>26, <1>27, <1>28, <1>29, <1>30, <1>31,
     <1>32, <1>33, <1>34, <1>35, <1>36, <1>37, <1>38, <1>39
     DEF Next, Step, Terminated

\* While the database answers, a signal is dropped only if a row with its key
\* exists: neither the race from the check to the insert nor a crash of another
\* call leaves it without one (loop.go:212-232).  What became of that row is not
\* part of it.  RowInv is what makes a call that has come further than the
\* insert own the row itself.
THEOREM DroppedWereDuplicates ==
  ASSUME ~ DBFaults PROVE Spec => []OnlyDuplicatesAreDropped
<1>1. Init => RowInv /\ OnlyDuplicatesAreDropped
  BY DEF Init, RowInv, AtMostOneTaskPerKey, OnlyDuplicatesAreDropped
<1>. QED BY <1>1, TypeCorrect, StepRowInv, StepDropped, PTL DEF Spec

-----------------------------------------------------------------------------
(* The operator is told what the database says.                            *)

\* The points at which the outcome has been written: after Record, with the
\* worktree that goes late still to come.
Recorded(r) ==
  pc[r] \in {"notify", "exit"} \/ (pc[r] = "discard" /\ plan[r].drop = "late")

\* The plan's notification fits its status.
Fits(p) ==
  /\ p.status = "needs_review" => p.note = "completed"
  /\ p.status = "skipped" => p.note \in {"skipped", "budget_exceeded"}
  /\ p.status \notin {"needs_review", "skipped"} => p.note = p.status

\* A decided call has a notification that fits its status; the row has the
\* status when it is recorded, and the notification is the only one.
ToldInv ==
  \A r \in Runs :
    /\ pc[r] \in {"record", "notify", "discard", "exit"} => Fits(plan[r])
    /\ pc[r] = "discard" => plan[r].drop \in {"early", "late"}
    /\ Recorded(r) => task[r] = plan[r].status
    /\ ~ Recorded(r) /\ pc[r] \notin {"returned", "dead"} => notes[r] = {}
    /\ pc[r] = "notify" => notes[r] = {}
    /\ pc[r] \in {"discard", "exit"} /\ Recorded(r) => notes[r] = {plan[r].note}
    /\ pc[r] \in {"idle", "create"} => task[r] = "none"
    /\ pc[r] = "returned" /\ task[r] = "none" => notes[r] = {}
    /\ pc[r] = "returned" /\ task[r] # "none" =>
         task[r] = plan[r].status /\ notes[r] = {plan[r].note} /\ Fits(plan[r])

\* ToldInv is inductive.
LEMMA StepToldInv == ~ DBFaults /\ TypeOK /\ ToldInv /\ [Next]_vars => ToldInv'
<1>. SUFFICES ASSUME ~ DBFaults, TypeOK, ToldInv, [Next]_vars PROVE ToldInv'
  OBVIOUS
<1>. USE DEF TypeOK, dbVars, callVars, gitVars, outVars, ToldInv, Recorded,
           Fits
<1>1. ASSUME NEW r \in Runs, Dedup(r) PROVE ToldInv'
  BY <1>1 DEF Dedup, Goto
<1>2. ASSUME NEW r \in Runs, CreateTask(r) PROVE ToldInv'
  BY <1>2 DEF CreateTask, Goto, TaskExists
<1>3. ASSUME NEW r \in Runs, BudgetGate(r) PROVE ToldInv'
  BY <1>3 DEF BudgetGate, Continue, Conclude, Goto
<1>4. ASSUME NEW r \in Runs, Triage(r) PROVE ToldInv'
  BY <1>4 DEF Triage, Continue, Conclude, Goto
<1>5. ASSUME NEW r \in Runs, StartRunning(r) PROVE ToldInv'
  BY <1>5 DEF StartRunning, Goto
<1>6. ASSUME NEW r \in Runs, AttachWorkspace(r) PROVE ToldInv'
  BY <1>6 DEF AttachWorkspace, Goto
<1>7. ASSUME NEW r \in Runs, CreateWorktree(r) PROVE ToldInv'
  BY <1>7 DEF CreateWorktree, Goto
<1>8. ASSUME NEW r \in Runs, CreateWorktreeFails(r) PROVE ToldInv'
  BY <1>8 DEF CreateWorktreeFails, Conclude, Goto
<1>9. ASSUME NEW r \in Runs, Preflight(r) PROVE ToldInv'
  BY <1>9 DEF Preflight, Continue, Fail, Conclude, Goto
<1>10. ASSUME NEW r \in Runs, ToolActs(r) PROVE ToldInv'
  BY <1>10 DEF ToolActs
<1>11. ASSUME NEW r \in Runs, CodingFails(r) PROVE ToldInv'
  BY <1>11 DEF CodingFails, Fail, Conclude, Goto
<1>12. ASSUME NEW r \in Runs, CodingIncomplete(r) PROVE ToldInv'
  BY <1>12 DEF CodingIncomplete, Conclude, Goto
<1>13. ASSUME NEW r \in Runs, CodingCompletes(r) PROVE ToldInv'
  BY <1>13 DEF CodingCompletes, Continue, Conclude, Goto
<1>14. ASSUME NEW r \in Runs, Review(r) PROVE ToldInv'
  BY <1>14 DEF Review
<1>15. ASSUME NEW r \in Runs, PrepareChangeSet(r) PROVE ToldInv'
  BY <1>15 DEF PrepareChangeSet, NextCheck, Goto
<1>16. ASSUME NEW r \in Runs, PrepareFails(r) PROVE ToldInv'
  BY <1>16 DEF PrepareFails, FailChangeSet, Fail, Conclude, Goto
<1>17. ASSUME NEW r \in Runs, IndexDrifted(r) PROVE ToldInv'
  BY <1>17 DEF IndexDrifted, FailChangeSet, Fail, Conclude, Goto
<1>18. ASSUME NEW r \in Runs, CommandPasses(r) PROVE ToldInv'
  BY <1>18 DEF CommandPasses, NextCheck, Goto
<1>19. ASSUME NEW r \in Runs, CommandFails(r) PROVE ToldInv'
  BY <1>19 DEF CommandFails, Fail, Conclude, Goto
<1>20. ASSUME NEW r \in Runs, EvaluationPasses(r) PROVE ToldInv'
  BY <1>20 DEF EvaluationPasses, Evaluated, Continue, Goto
<1>21. ASSUME NEW r \in Runs, EvaluationRejects(r) PROVE ToldInv'
  BY <1>21 DEF EvaluationRejects, Evaluated, Suggest, Conclude, Goto
<1>22. ASSUME NEW r \in Runs, EvaluationPreserved(r) PROVE ToldInv'
  BY <1>22 DEF EvaluationPreserved, Evaluated, Continue, Goto
<1>23. ASSUME NEW r \in Runs, EvaluationAbandoned(r) PROVE ToldInv'
  BY <1>23 DEF EvaluationAbandoned, Evaluated, Fail, Suggest, Conclude, Goto
<1>24. ASSUME NEW r \in Runs, NothingToCommit(r) PROVE ToldInv'
  BY <1>24 DEF NothingToCommit, Conclude, Goto
<1>25. ASSUME NEW r \in Runs, CommitRepair(r) PROVE ToldInv'
  BY <1>25 DEF CommitRepair, Continue, Conclude, Goto
<1>26. ASSUME NEW r \in Runs, CommitFails(r) PROVE ToldInv'
  BY <1>26 DEF CommitFails, FailChangeSet, Fail, Conclude, Goto
<1>27. ASSUME NEW r \in Runs, PushBranch(r) PROVE ToldInv'
  BY <1>27 DEF PushBranch, Goto
<1>28. ASSUME NEW r \in Runs, PushFails(r) PROVE ToldInv'
  BY <1>28 DEF PushFails, FailDelivery, Conclude, Goto
<1>29. ASSUME NEW r \in Runs, AutomationOpensCR(r) PROVE ToldInv'
  BY <1>29 DEF AutomationOpensCR
<1>30. ASSUME NEW r \in Runs, OpenChangeRequest(r) PROVE ToldInv'
  BY <1>30 DEF OpenChangeRequest, ConcludeDelivered, Conclude, Goto
<1>31. ASSUME NEW r \in Runs, ReuseChangeRequest(r) PROVE ToldInv'
  BY <1>31 DEF ReuseChangeRequest, ConcludeDelivered, Conclude, Goto
<1>32. ASSUME NEW r \in Runs, RequestFails(r) PROVE ToldInv'
  BY <1>32 DEF RequestFails, FailDelivery, Conclude, Goto
<1>33. ASSUME NEW r \in Runs, Record(r) PROVE ToldInv'
  BY <1>33 DEF Record, Goto
<1>34. ASSUME NEW r \in Runs, Notify(r) PROVE ToldInv'
  BY <1>34 DEF Notify, Goto
<1>35. ASSUME NEW r \in Runs, DiscardWorktree(r) PROVE ToldInv'
  BY <1>35 DEF DiscardWorktree, Goto
<1>36. ASSUME NEW r \in Runs, Exit(r) PROVE ToldInv'
  <2>1. plan[r].status # "none"
    BY DEF Plans, Terminal
  <2>. QED BY <1>36, <2>1 DEF Exit, Goto
<1>37. ASSUME NEW r \in Runs, Crash(r) PROVE ToldInv'
  BY <1>37 DEF Crash, Goto
<1>38. CASE NewDay
  BY <1>38 DEF NewDay
<1>39. CASE UNCHANGED vars
  BY <1>39 DEF vars
<1>. QED
  BY <1>1, <1>2, <1>3, <1>4, <1>5, <1>6, <1>7, <1>8, <1>9, <1>10, <1>11,
     <1>12, <1>13, <1>14, <1>15, <1>16, <1>17, <1>18, <1>19, <1>20, <1>21,
     <1>22, <1>23, <1>24, <1>25, <1>26, <1>27, <1>28, <1>29, <1>30, <1>31,
     <1>32, <1>33, <1>34, <1>35, <1>36, <1>37, <1>38, <1>39
     DEF Next, Step, Terminated

\* While the database answers, a call that returns has told the operator once,
\* and what it told is what the row says, whichever of the two orders of
\* recording and discarding it took (all Fire calls of loop.go).
THEOREM ToldAsRecorded ==
  ASSUME ~ DBFaults PROVE Spec => []NotifiedAsRecorded
<1>1. Init => ToldInv
  BY DEF Init, ToldInv, Recorded
<1>2. TypeOK /\ ToldInv => NotifiedAsRecorded
  <2>. SUFFICES ASSUME TypeOK, ToldInv, NEW r \in Runs, pc[r] = "returned"
                PROVE  IF task[r] = "none" THEN notes[r] = {}
                       ELSE task[r] \in Terminal /\ notes[r] \in NotesFor(task[r])
    BY DEF NotifiedAsRecorded
  <2>1. CASE task[r] = "none"
    BY <2>1 DEF ToldInv
  <2>2. CASE task[r] # "none"
    <3>1. /\ task[r] = plan[r].status
          /\ notes[r] = {plan[r].note}
          /\ Fits(plan[r])
      BY <2>2 DEF ToldInv
    <3>2. task[r] \in Terminal
      BY <3>1 DEF TypeOK, Plans
    <3>3. notes[r] \in NotesFor(task[r])
      BY <3>1 DEF Fits, NotesFor
    <3>. QED BY <2>2, <3>2, <3>3
  <2>. QED BY <2>1, <2>2
<1>. QED BY <1>1, <1>2, TypeCorrect, StepToldInv, PTL DEF Spec

-----------------------------------------------------------------------------
(* The events explain the status.                                          *)

\* The log says why there is no verdict; it has a change request.
Unevaluated(log) == "evaluation_incomplete" \in log \/ "evaluation_error" \in log
Requested(log) ==
  "change_request_created" \in log \/ "change_request_reused" \in log

\* The events that a status needs, for a call that has pushed or not.
Explains(status, log, shipped) ==
  /\ status = "suggested" => "suggestion" \in log
  /\ shipped /\ status \in {"completed", "needs_review"} =>
       "branch_pushed" \in log /\ Requested(log)
  /\ shipped /\ status = "failed" => "delivery_failed" \in log
  /\ status = "needs_review" => Unevaluated(log)

\* From the commit on the change set is verified in the events; a draft has
\* its reason there; the events that exist and those the plan adds explain
\* the status the plan has, and those that exist the status of the row.
AuditInv ==
  \A r \in Runs :
    /\ pushed[r] # NoTree => pc[r] \in {"request"} \cup Concluded
    /\ pushed[r] # NoTree \/ pc[r] \in {"deliver", "request"} =>
         "repair_change_set_verified" \in events[r]
    /\ draft[r] => Unevaluated(events[r])
    /\ pc[r] \notin Concluded => task[r] \notin Terminal
    /\ pc[r] \in {"record", "notify", "discard"} =>
         Explains(plan[r].status, events[r] \cup plan[r].log, pushed[r] # NoTree)
    /\ Explains(task[r], events[r], pushed[r] # NoTree)

\* While the database answers, appended events are all there.
LEMMA LogAppends ==
  ASSUME ~ DBFaults, NEW r \in Runs, NEW types, Log(r, types)
  PROVE  events' = [events EXCEPT ![r] = @ \cup types]
  BY DEF Log

\* AuditInv is inductive.
LEMMA StepAuditInv == ~ DBFaults /\ TypeOK /\ AuditInv /\ [Next]_vars => AuditInv'
<1>. SUFFICES ASSUME ~ DBFaults, TypeOK, AuditInv, [Next]_vars PROVE AuditInv'
  OBVIOUS
<1>. USE DEF TypeOK, dbVars, callVars, gitVars, outVars, AuditInv, Explains,
           Unevaluated, Requested, Concluded, Terminal
<1>1. ASSUME NEW r \in Runs, Dedup(r) PROVE AuditInv'
  BY <1>1 DEF Dedup, Goto
<1>2. ASSUME NEW r \in Runs, CreateTask(r) PROVE AuditInv'
  BY <1>2 DEF CreateTask, Goto, TaskExists
<1>3. ASSUME NEW r \in Runs, BudgetGate(r) PROVE AuditInv'
  BY <1>3 DEF BudgetGate, Continue, Conclude, Goto
<1>4. ASSUME NEW r \in Runs, Triage(r) PROVE AuditInv'
  BY <1>4, LogAppends DEF Triage, Continue, Conclude, Goto
<1>5. ASSUME NEW r \in Runs, StartRunning(r) PROVE AuditInv'
  BY <1>5 DEF StartRunning, Goto
<1>6. ASSUME NEW r \in Runs, AttachWorkspace(r) PROVE AuditInv'
  BY <1>6, LogAppends DEF AttachWorkspace, Goto
<1>7. ASSUME NEW r \in Runs, CreateWorktree(r) PROVE AuditInv'
  BY <1>7, LogAppends DEF CreateWorktree, Goto
<1>8. ASSUME NEW r \in Runs, CreateWorktreeFails(r) PROVE AuditInv'
  BY <1>8 DEF CreateWorktreeFails, Conclude, Goto
<1>9. ASSUME NEW r \in Runs, Preflight(r) PROVE AuditInv'
  BY <1>9 DEF Preflight, Continue, Fail, Conclude, Goto
<1>10. ASSUME NEW r \in Runs, ToolActs(r) PROVE AuditInv'
  BY <1>10 DEF ToolActs
<1>11. ASSUME NEW r \in Runs, CodingFails(r) PROVE AuditInv'
  BY <1>11 DEF CodingFails, Fail, Conclude, Goto
<1>12. ASSUME NEW r \in Runs, CodingIncomplete(r) PROVE AuditInv'
  BY <1>12, LogAppends DEF CodingIncomplete, Conclude, Goto
<1>13. ASSUME NEW r \in Runs, CodingCompletes(r) PROVE AuditInv'
  BY <1>13, LogAppends DEF CodingCompletes, Continue, Conclude, Goto
<1>14. ASSUME NEW r \in Runs, Review(r) PROVE AuditInv'
  BY <1>14 DEF Review
<1>15. ASSUME NEW r \in Runs, PrepareChangeSet(r) PROVE AuditInv'
  BY <1>15, LogAppends DEF PrepareChangeSet, NextCheck, Goto
<1>16. ASSUME NEW r \in Runs, PrepareFails(r) PROVE AuditInv'
  BY <1>16 DEF PrepareFails, FailChangeSet, Fail, Conclude, Goto
<1>17. ASSUME NEW r \in Runs, IndexDrifted(r) PROVE AuditInv'
  BY <1>17 DEF IndexDrifted, FailChangeSet, Fail, Conclude, Goto
<1>18. ASSUME NEW r \in Runs, CommandPasses(r) PROVE AuditInv'
  BY <1>18, LogAppends DEF CommandPasses, NextCheck, Goto
<1>19. ASSUME NEW r \in Runs, CommandFails(r) PROVE AuditInv'
  BY <1>19 DEF CommandFails, Fail, Conclude, Goto
<1>20. ASSUME NEW r \in Runs, EvaluationPasses(r) PROVE AuditInv'
  BY <1>20, LogAppends DEF EvaluationPasses, Evaluated, Continue, Goto
<1>21. ASSUME NEW r \in Runs, EvaluationRejects(r) PROVE AuditInv'
  BY <1>21, LogAppends DEF EvaluationRejects, Evaluated, Suggest, Conclude,
     Goto
<1>22. ASSUME NEW r \in Runs, EvaluationPreserved(r) PROVE AuditInv'
  BY <1>22, LogAppends DEF EvaluationPreserved, Evaluated, Continue, Goto,
     LogUnevaluated
<1>23. ASSUME NEW r \in Runs, EvaluationAbandoned(r) PROVE AuditInv'
  BY <1>23, LogAppends DEF EvaluationAbandoned, Evaluated, Fail, Suggest,
     Conclude, Goto, LogUnevaluated
<1>24. ASSUME NEW r \in Runs, NothingToCommit(r) PROVE AuditInv'
  BY <1>24 DEF NothingToCommit, Conclude, Goto
<1>25. ASSUME NEW r \in Runs, CommitRepair(r) PROVE AuditInv'
  BY <1>25, LogAppends DEF CommitRepair, Continue, Conclude, Goto
<1>26. ASSUME NEW r \in Runs, CommitFails(r) PROVE AuditInv'
  BY <1>26 DEF CommitFails, FailChangeSet, Fail, Conclude, Goto
<1>27. ASSUME NEW r \in Runs, PushBranch(r) PROVE AuditInv'
  BY <1>27 DEF PushBranch, Goto, Push
<1>28. ASSUME NEW r \in Runs, PushFails(r) PROVE AuditInv'
  BY <1>28 DEF PushFails, FailDelivery, Conclude, Goto, Push
<1>29. ASSUME NEW r \in Runs, AutomationOpensCR(r) PROVE AuditInv'
  BY <1>29 DEF AutomationOpensCR
<1>30. ASSUME NEW r \in Runs, OpenChangeRequest(r) PROVE AuditInv'
  BY <1>30, LogAppends DEF OpenChangeRequest, ConcludeDelivered, Conclude,
     Goto
<1>31. ASSUME NEW r \in Runs, ReuseChangeRequest(r) PROVE AuditInv'
  BY <1>31, LogAppends DEF ReuseChangeRequest, ConcludeDelivered, Conclude,
     Goto
<1>32. ASSUME NEW r \in Runs, RequestFails(r) PROVE AuditInv'
  BY <1>32, LogAppends DEF RequestFails, FailDelivery, Conclude, Goto
<1>33. ASSUME NEW r \in Runs, Record(r) PROVE AuditInv'
  BY <1>33, LogAppends DEF Record, Goto
<1>34. ASSUME NEW r \in Runs, Notify(r) PROVE AuditInv'
  BY <1>34 DEF Notify, Goto
<1>35. ASSUME NEW r \in Runs, DiscardWorktree(r) PROVE AuditInv'
  BY <1>35 DEF DiscardWorktree, Goto
<1>36. ASSUME NEW r \in Runs, Exit(r) PROVE AuditInv'
  BY <1>36 DEF Exit, Goto
<1>37. ASSUME NEW r \in Runs, Crash(r) PROVE AuditInv'
  BY <1>37 DEF Crash, Goto
<1>38. CASE NewDay
  BY <1>38 DEF NewDay
<1>39. CASE UNCHANGED vars
  BY <1>39 DEF vars
<1>. QED
  BY <1>1, <1>2, <1>3, <1>4, <1>5, <1>6, <1>7, <1>8, <1>9, <1>10, <1>11,
     <1>12, <1>13, <1>14, <1>15, <1>16, <1>17, <1>18, <1>19, <1>20, <1>21,
     <1>22, <1>23, <1>24, <1>25, <1>26, <1>27, <1>28, <1>29, <1>30, <1>31,
     <1>32, <1>33, <1>34, <1>35, <1>36, <1>37, <1>38, <1>39
     DEF Next, Step, Terminated

\* While the database answers, every status a row ever has is explained by
\* events that are already there (the AppendTaskEvent calls of loop.go).
THEOREM AuditIsComplete ==
  ASSUME ~ DBFaults PROVE Spec => []AuditExplainsOutcome
<1>1. Init => AuditInv
  BY DEF Init, AuditInv, Explains, Concluded, Terminal
<1>2. AuditInv => AuditExplainsOutcome
  BY DEF AuditInv, Explains, Unevaluated, Requested, AuditExplainsOutcome
<1>. QED BY <1>1, <1>2, TypeCorrect, StepAuditInv, PTL DEF Spec

-----------------------------------------------------------------------------
(* Only approved branches remain.                                          *)

\* The task branch holds the approved snapshot, and that is not empty.
HoldsApproved(r) ==
  /\ approved[r] # NoTree
  /\ repo[r].tip["task"] = approved[r]
  /\ Manifest(approved[r]) # {}

\* No branch without a worktree to discard it with, up to the end of the call;
\* a call that is not going to discard its branch has the approved snapshot in
\* it.
BranchInv ==
  \A r \in Runs :
    /\ pc[r] \in {"idle", "create", "budget", "triage", "start", "workspace"} => ~ branch[r]
    /\ pc[r] \in {"preflight", "coding"} /\ branch[r] => Ships(r)
    /\ branch[r] /\ pc[r] \notin {"exit", "returned", "dead"} => wt[r] = "attached"
    /\ branch[r] /\ OnTaskBranch(r) =>
         /\ pc[r] \in {"deliver", "request", "exit", "returned"} => HoldsApproved(r)
         /\ pc[r] \in {"record", "notify"} => HoldsApproved(r) \/ plan[r].drop = "late"

\* BranchInv is inductive.
LEMMA StepBranchInv == ~ GitFaults /\ TypeOK /\ BranchInv /\ [Next]_vars => BranchInv'
<1>. SUFFICES ASSUME ~ GitFaults, TypeOK, BranchInv, [Next]_vars PROVE BranchInv'
  OBVIOUS
<1>. USE DEF TypeOK, dbVars, callVars, gitVars, outVars, BranchInv,
           HoldsApproved, OnTaskBranch, Ships
<1>1. ASSUME NEW r \in Runs, Dedup(r) PROVE BranchInv'
  BY <1>1 DEF Dedup, Goto
<1>2. ASSUME NEW r \in Runs, CreateTask(r) PROVE BranchInv'
  BY <1>2 DEF CreateTask, Goto, TaskExists
<1>3. ASSUME NEW r \in Runs, BudgetGate(r) PROVE BranchInv'
  BY <1>3 DEF BudgetGate, Continue, Conclude, Goto
<1>4. ASSUME NEW r \in Runs, Triage(r) PROVE BranchInv'
  BY <1>4 DEF Triage, Continue, Conclude, Goto
<1>5. ASSUME NEW r \in Runs, StartRunning(r) PROVE BranchInv'
  BY <1>5 DEF StartRunning, Goto
<1>6. ASSUME NEW r \in Runs, AttachWorkspace(r) PROVE BranchInv'
  BY <1>6 DEF AttachWorkspace, Goto
<1>7. ASSUME NEW r \in Runs, CreateWorktree(r) PROVE BranchInv'
  BY <1>7 DEF CreateWorktree, Goto
<1>8. ASSUME NEW r \in Runs, CreateWorktreeFails(r) PROVE BranchInv'
  <2>1. branch' = [branch EXCEPT ![r] = FALSE]
    BY <1>8, GitFaultsType DEF CreateWorktreeFails
  <2>. QED BY <1>8, <2>1 DEF CreateWorktreeFails, Conclude, Goto
<1>9. ASSUME NEW r \in Runs, Preflight(r) PROVE BranchInv'
  BY <1>9 DEF Preflight, Continue, Fail, Conclude, Goto
<1>10. ASSUME NEW r \in Runs, ToolActs(r) PROVE BranchInv'
  BY <1>10 DEF ToolActs
<1>11. ASSUME NEW r \in Runs, CodingFails(r) PROVE BranchInv'
  BY <1>11 DEF CodingFails, Fail, Conclude, Goto
<1>12. ASSUME NEW r \in Runs, CodingIncomplete(r) PROVE BranchInv'
  BY <1>12 DEF CodingIncomplete, Conclude, Goto
<1>13. ASSUME NEW r \in Runs, CodingCompletes(r) PROVE BranchInv'
  BY <1>13 DEF CodingCompletes, Continue, Conclude, Goto
<1>14. ASSUME NEW r \in Runs, Review(r) PROVE BranchInv'
  BY <1>14 DEF Review
<1>15. ASSUME NEW r \in Runs, PrepareChangeSet(r) PROVE BranchInv'
  BY <1>15 DEF PrepareChangeSet, NextCheck, Goto
<1>16. ASSUME NEW r \in Runs, PrepareFails(r) PROVE BranchInv'
  BY <1>16 DEF PrepareFails, FailChangeSet, Fail, Conclude, Goto
<1>17. ASSUME NEW r \in Runs, IndexDrifted(r) PROVE BranchInv'
  BY <1>17 DEF IndexDrifted, FailChangeSet, Fail, Conclude, Goto
<1>18. ASSUME NEW r \in Runs, CommandPasses(r) PROVE BranchInv'
  BY <1>18 DEF CommandPasses, NextCheck, Goto
<1>19. ASSUME NEW r \in Runs, CommandFails(r) PROVE BranchInv'
  BY <1>19 DEF CommandFails, Fail, Conclude, Goto
<1>20. ASSUME NEW r \in Runs, EvaluationPasses(r) PROVE BranchInv'
  BY <1>20 DEF EvaluationPasses, Evaluated, Continue, Goto
<1>21. ASSUME NEW r \in Runs, EvaluationRejects(r) PROVE BranchInv'
  BY <1>21 DEF EvaluationRejects, Evaluated, Suggest, Conclude, Goto
<1>22. ASSUME NEW r \in Runs, EvaluationPreserved(r) PROVE BranchInv'
  BY <1>22 DEF EvaluationPreserved, Evaluated, Continue, Goto
<1>23. ASSUME NEW r \in Runs, EvaluationAbandoned(r) PROVE BranchInv'
  BY <1>23 DEF EvaluationAbandoned, Evaluated, Fail, Suggest, Conclude, Goto
<1>24. ASSUME NEW r \in Runs, NothingToCommit(r) PROVE BranchInv'
  BY <1>24 DEF NothingToCommit, Conclude, Goto
<1>25. ASSUME NEW r \in Runs, CommitRepair(r) PROVE BranchInv'
  <2>1. approved[r] # NoTree /\ Manifest(approved[r]) # {}
    BY <1>25 DEF CommitRepair, Empty
  <2>2. PICK g \in CommitResults(repo[r]) :
          VerifyCommitted(g, approved[r]) /\ repo' = [repo EXCEPT ![r] = g]
    BY <1>25 DEF CommitRepair
  <2>3. OnTaskBranch(r)' => repo'[r].tip["task"] = approved[r]
    BY <2>2 DEF VerifyCommitted, CommittedSnapshot
  <2>4. \A q \in Runs : q # r => repo'[q] = repo[q]
    BY <2>2
  <2>5. /\ \A q \in Runs \ {r} : pc'[q] = pc[q] /\ plan'[q] = plan[q]
        /\ pc[r] = "commit" /\ pc'[r] \in {"deliver", "record"}
        /\ UNCHANGED <<approved, branch, wt, autonomy>>
    BY <1>25 DEF CommitRepair, Continue, Conclude, Goto
  <2>. QED BY <2>1, <2>3, <2>4, <2>5
<1>26. ASSUME NEW r \in Runs, CommitFails(r) PROVE BranchInv'
  BY <1>26 DEF CommitFails, FailChangeSet, Fail, Conclude, Goto
<1>27. ASSUME NEW r \in Runs, PushBranch(r) PROVE BranchInv'
  BY <1>27 DEF PushBranch, Goto
<1>28. ASSUME NEW r \in Runs, PushFails(r) PROVE BranchInv'
  BY <1>28 DEF PushFails, FailDelivery, Conclude, Goto
<1>29. ASSUME NEW r \in Runs, AutomationOpensCR(r) PROVE BranchInv'
  BY <1>29 DEF AutomationOpensCR
<1>30. ASSUME NEW r \in Runs, OpenChangeRequest(r) PROVE BranchInv'
  BY <1>30 DEF OpenChangeRequest, ConcludeDelivered, Conclude, Goto
<1>31. ASSUME NEW r \in Runs, ReuseChangeRequest(r) PROVE BranchInv'
  BY <1>31 DEF ReuseChangeRequest, ConcludeDelivered, Conclude, Goto
<1>32. ASSUME NEW r \in Runs, RequestFails(r) PROVE BranchInv'
  BY <1>32 DEF RequestFails, FailDelivery, Conclude, Goto
<1>33. ASSUME NEW r \in Runs, Record(r) PROVE BranchInv'
  BY <1>33 DEF Record, Goto
<1>34. ASSUME NEW r \in Runs, Notify(r) PROVE BranchInv'
  BY <1>34 DEF Notify, Goto
<1>35. ASSUME NEW r \in Runs, DiscardWorktree(r) PROVE BranchInv'
  BY <1>35 DEF DiscardWorktree, Goto
<1>36. ASSUME NEW r \in Runs, Exit(r) PROVE BranchInv'
  BY <1>36 DEF Exit, Goto
<1>37. ASSUME NEW r \in Runs, Crash(r) PROVE BranchInv'
  BY <1>37 DEF Crash, Goto
<1>38. CASE NewDay
  BY <1>38 DEF NewDay
<1>39. CASE UNCHANGED vars
  BY <1>39 DEF vars
<1>. QED
  BY <1>1, <1>2, <1>3, <1>4, <1>5, <1>6, <1>7, <1>8, <1>9, <1>10, <1>11,
     <1>12, <1>13, <1>14, <1>15, <1>16, <1>17, <1>18, <1>19, <1>20, <1>21,
     <1>22, <1>23, <1>24, <1>25, <1>26, <1>27, <1>28, <1>29, <1>30, <1>31,
     <1>32, <1>33, <1>34, <1>35, <1>36, <1>37, <1>38, <1>39
     DEF Next, Step, Terminated

\* While git's clean-up commands work, a task branch that outlives its call,
\* with HEAD still on it, holds the approved snapshot: failed, rejected,
\* incomplete and empty repairs leave none (loop.go:919-933 and its callers).
THEOREM RemainingBranchesAreApproved ==
  ASSUME ~ GitFaults PROVE Spec => []OnlyApprovedBranchesRemain
<1>1. Init => BranchInv
  BY DEF Init, BranchInv
<1>2. BranchInv => OnlyApprovedBranchesRemain
  BY DEF BranchInv, HoldsApproved, OnlyApprovedBranchesRemain
<1>. QED BY <1>1, <1>2, TypeCorrect, StepBranchInv, PTL DEF Spec

==============================================================================
