------------------------------ MODULE WorkProofs ------------------------------
(***************************************************************************)
(* What Loop.Run calls on the way from a signal to a change request: what a *)
(* run of MCWork checks on a small instance holds for every configuration,  *)
(* every set of commands, processes, tool calls, agents and memories, every *)
(* list of notifications, and every limit.  Each part has an inductive      *)
(* invariant of its own, unless its property is one; the last section puts  *)
(* them together, with that of EnrichmentProofs.                            *)
(***************************************************************************)
EXTENDS EnrichmentProofs, AgentTraceProofs, SequenceTheorems

-----------------------------------------------------------------------------
(***************************************************************************)
(* Triage.  The decision is taken in one step, from the only object of the  *)
(* answer, from null or from the default: that is where it has to be safe.  *)
(***************************************************************************)
(* The tokens are counted once, with the end of the answer; the level of a  *)
(* decision is one the loop knows.                                          *)
TriageTypes == Decision!TypeOK /\ (consumed.plain = 0 => triageUsage = 0)

(* What is decided on is null, or an object of the answer that has nothing  *)
(* else in braces before its end and no closing brace behind it.            *)
LEMMA AnswerIsAnObject ==
  ASSUME Decision!Parses, ~ Decision!IsNull
  PROVE  \E i \in DOMAIN answer : Decision!IsObject(i) /\ Decision!Answer = answer[i]
BY DEF Decision!Parses, Decision!Answer

(* An object that is decided on is the only thing of the answer that closes *)
(* a brace.                                                                 *)
LEMMA ObjectIsAlone ==
  ASSUME TriageTypes, NEW i \in DOMAIN answer, Decision!IsObject(i)
  PROVE  \A j \in DOMAIN answer \ {i} : answer[j].kind \notin {"object", "broken"}
<1> SUFFICES ASSUME NEW j \in DOMAIN answer \ {i}, answer[j].kind \in {"object", "broken"}
             PROVE  FALSE
  OBVIOUS
<1>1. DOMAIN answer = 1..Len(answer) /\ Len(answer) \in Nat
  BY DEF TriageTypes, Decision!TypeOK
<1>2. i \in Int /\ j \in Int /\ i # j
  BY <1>1
<1>3. j \in Decision!Opening /\ j \in Decision!Closing
  BY DEF Decision!Opening, Decision!Closing
<1>4. i <= j /\ j <= i
  BY <1>3 DEF Decision!IsObject
<1>5. QED
  BY <1>2, <1>4

(* A type of change that the answer does not name has no field.             *)
LEMMA NullShipsNothing ==
  ASSUME TriageTypes, Decision!IsNull
  PROVE  /\ Decision!Answer.act = "" /\ Decision!Answer.type = ""
         /\ Decision!ResolveAutonomy(Decision!Answer.type) = "suggest-only"
<1>1. Decision!Answer = answer[1] /\ answer[1].kind = "null"
  BY DEF Decision!IsNull, Decision!Answer
<1>2. answer[1] \in Decision!Pieces
  <2>1. answer \in Seq(Decision!Pieces)
    BY DEF TriageTypes, Decision!TypeOK
  <2>2. Len(answer) = 1
    BY DEF Decision!IsNull
  <2>3. QED
    BY <2>1, <2>2
<1>3. answer[1].act = "" /\ answer[1].type = ""
  BY <1>1, <1>2 DEF Decision!Pieces
<1>4. "none" \notin Fields
  BY PartAssumptions DEF Decision!TriageAssumption
<1>5. QED
  BY <1>1, <1>3, <1>4 DEF Decision!ResolveAutonomy, Decision!FieldOf

LEMMA StreamEndsSafely ==
  ASSUME TriageTypes, Decision!StreamEnds
  PROVE  TriageFailsSafe'
<1>1. /\ triage' = "decided" /\ decision' = Decision!Decide
      /\ autonomy' = autonomy /\ answer' = answer
  BY DEF Decision!StreamEnds
<1>2. CASE ~ Decision!Parses
  <2>1. decision'.act = TRUE /\ decision'.level = "suggest-only"
    BY <1>1, <1>2 DEF Decision!Decide, Decision!ConservativeDefault
  <2>2. QED
    BY <2>1
       DEF TriageFailsSafe, Decision!FailureNeverDrops, Decision!ShippingWasConfigured
<1>3. CASE Decision!IsNull
  <2>1. decision'.level = "suggest-only"
    BY <1>1, <1>3, NullShipsNothing DEF Decision!Decide, Decision!Parses
  <2>2. Decision!IsNull'
    BY <1>1, <1>3 DEF Decision!IsNull
  <2>3. QED
    BY <2>1, <2>2
       DEF TriageFailsSafe, Decision!FailureNeverDrops, Decision!ShippingWasConfigured
<1>4. CASE Decision!Parses /\ ~ Decision!IsNull
  <2>1. PICK i \in DOMAIN answer : Decision!IsObject(i) /\ Decision!Answer = answer[i]
    BY <1>4, AnswerIsAnObject
  <2>2. /\ decision'.act = (answer[i].act = "yes")
        /\ decision'.level = Decision!ResolveAutonomy(answer[i].type)
    BY <1>1, <1>4, <2>1 DEF Decision!Decide
  <2>3. decision'.level \in {"auto-commit", "pull-request"} =>
          /\ Decision!FieldOf(answer[i].type) \in Fields
          /\ autonomy[Decision!FieldOf(answer[i].type)] = decision'.level
    BY <2>2 DEF Decision!ResolveAutonomy
  <2>4. i \in DOMAIN answer' /\ answer[i].kind = "object"
    BY <1>1, <2>1 DEF Decision!IsObject
  <2>5. \A j \in DOMAIN answer' \ {i} : answer'[j].kind \notin {"object", "broken"}
    BY <1>1, <2>1, ObjectIsAlone
  <2>6. Decision!FailureNeverDrops'
    BY <1>1, <2>2, <2>4, <2>5 DEF Decision!FailureNeverDrops
  <2>7. Decision!ShippingWasConfigured'
    BY <1>1, <2>3, <2>4 DEF Decision!ShippingWasConfigured, Decision!FieldOf
  <2>8. QED
    BY <2>6, <2>7 DEF TriageFailsSafe
<1>5. QED
  BY <1>2, <1>3, <1>4

LEMMA TriageInitInv == Decision!Init => TriageFailsSafe
BY DEF Decision!Init, TriageFailsSafe, Decision!FailureNeverDrops,
       Decision!ShippingWasConfigured

(* Nothing but the end of the stream decides, and a failed build acts.      *)
LEMMA TriageNextInv ==
  TriageFailsSafe /\ TriageTypes /\ [Decision!Next]_triageVars => TriageFailsSafe'
<1> SUFFICES ASSUME TriageFailsSafe, TriageTypes, [Decision!Next]_triageVars
             PROVE  TriageFailsSafe'
  OBVIOUS
<1>1. CASE UNCHANGED triageVars
  BY <1>1 DEF triageVars, TriageFailsSafe, Decision!FailureNeverDrops, Decision!IsNull,
     Decision!ShippingWasConfigured, Decision!FieldOf
<1>2. CASE Decision!BuildFails
  <2>1. decision'.act = TRUE /\ decision'.level = "suggest-only"
    BY <1>2 DEF Decision!BuildFails, Decision!ConservativeDefault
  <2>2. QED
    BY <2>1
       DEF TriageFailsSafe, Decision!FailureNeverDrops, Decision!ShippingWasConfigured
<1>3. CASE Decision!Run \/ Decision!TextDelta \/ Decision!EventDone \/ Decision!RuntimeFails
  <2>1. triage' # "decided"
    BY <1>3 DEF Decision!Run, Decision!TextDelta, Decision!EventDone, Decision!RuntimeFails
  <2>2. QED
    BY <2>1
       DEF TriageFailsSafe, Decision!FailureNeverDrops, Decision!ShippingWasConfigured
<1>4. QED
  BY <1>1, <1>2, <1>3, StreamEndsSafely DEF Decision!Next

(* Nothing is counted before the question.                                  *)
LEMMA TriageInitTypes == Decision!Init => TriageTypes
<1> SUFFICES ASSUME Decision!Init PROVE TriageTypes
  OBVIOUS
<1>1. MaxUsage \in Nat /\ 0 \in 0..MaxUsage
  BY PartAssumptions DEF Decision!TriageAssumption
<1>2. << >> \in Seq(Decision!Pieces)
  OBVIOUS
<1>3. QED
  BY <1>1, <1>2 DEF Decision!Init, TriageTypes, Decision!TypeOK

(* Each event of the runtime keeps the types.                               *)
LEMMA TriageNextTypes == TriageTypes /\ [Decision!Next]_triageVars => TriageTypes'
<1> SUFFICES ASSUME TriageTypes, [Decision!Next]_triageVars PROVE TriageTypes'
  OBVIOUS
<1>1. MaxUsage \in Nat
  BY PartAssumptions DEF Decision!TriageAssumption
<1>2. /\ autonomy \in Decision!ValidAutonomy /\ triage \in {"asked", "reading", "decided"}
      /\ answer \in Seq(Decision!Pieces)
      /\ consumed \in [plain : 0..MaxUsage, cache : 0..MaxUsage]
      /\ triageUsage \in 0..MaxUsage /\ triageFailed \in BOOLEAN
      /\ consumed.plain = 0 => triageUsage = 0
      /\ triage = "decided" => decision.level \in Decision!Levels
  BY DEF TriageTypes, Decision!TypeOK
<1>3. CASE Decision!Run \/ Decision!RuntimeFails \/ Decision!BuildFails \/ UNCHANGED triageVars
  <2>1. /\ UNCHANGED <<autonomy, answer, consumed, triageUsage>>
        /\ triage' \in {"asked", "reading", "decided"} /\ triageFailed' \in BOOLEAN
    BY <1>2, <1>3
       DEF Decision!Run, Decision!RuntimeFails, Decision!BuildFails, triageVars
  <2>2. triage' = "decided" => decision'.level \in Decision!Levels
    BY <1>2, <1>3
       DEF Decision!Run, Decision!RuntimeFails, Decision!BuildFails, triageVars,
           Decision!ConservativeDefault, Decision!Levels
  <2>3. QED
    BY <1>2, <2>1, <2>2 DEF TriageTypes, Decision!TypeOK
<1>4. CASE Decision!TextDelta
  <2>1. PICK p \in Decision!Pieces : answer' = Append(answer, p)
    BY <1>4 DEF Decision!TextDelta
  <2>2. answer' \in Seq(Decision!Pieces)
    BY <1>2, <2>1
  <2>3. QED
    BY <1>2, <1>4, <2>2 DEF Decision!TextDelta, TriageTypes, Decision!TypeOK
<1>5. CASE Decision!EventDone
  <2>1. /\ triage = "reading" /\ consumed.plain = 0
        /\ UNCHANGED <<autonomy, triage, answer, triageFailed, decision>>
    BY <1>5 DEF Decision!EventDone
  <2>2. PICK n \in 1..MaxUsage, c \in 0..MaxUsage :
          consumed' = [plain |-> n, cache |-> c] /\ triageUsage' = triageUsage + consumed'.plain
    BY <1>5 DEF Decision!EventDone, Decision!Counted
  <2>3. triageUsage' = n /\ n \in 0..MaxUsage /\ consumed'.plain = n /\ n # 0
    BY <1>1, <1>2, <2>1, <2>2
  <2>4. consumed' \in [plain : 0..MaxUsage, cache : 0..MaxUsage]
    BY <2>2, <2>3
  <2>5. QED
    BY <1>2, <2>1, <2>3, <2>4 DEF TriageTypes, Decision!TypeOK
<1>6. CASE Decision!StreamEnds
  <2>1. \A type : Decision!ResolveAutonomy(type) \in Decision!Levels
    BY <1>2 DEF Decision!ResolveAutonomy, Decision!ValidAutonomy, Decision!Levels
  <2>2. Decision!Decide.level \in Decision!Levels
    <3>1. CASE Decision!Parses
      BY <2>1, <3>1 DEF Decision!Decide
    <3>2. CASE ~ Decision!Parses
      BY <3>2 DEF Decision!Decide, Decision!ConservativeDefault, Decision!Levels
    <3>3. QED
      BY <3>1, <3>2
  <2>3. QED
    BY <1>2, <1>6, <2>2 DEF Decision!StreamEnds, TriageTypes, Decision!TypeOK
<1>7. QED
  BY <1>3, <1>4, <1>5, <1>6 DEF Decision!Next
-----------------------------------------------------------------------------
(***************************************************************************)
(* The agent run (AgentTrace) in the three ways it is explored: with the    *)
(* traces as configured, without them, and with a runtime that reports the  *)
(* usage of the run as a sum.  What AgentTraceProofs shows for every value  *)
(* of the constants is cited for each; that its copy of the module takes    *)
(* the same steps as the one MCWork runs is seen action by action.          *)
(***************************************************************************)
UntracedRun == INSTANCE AgentTraceProofs WITH Enabled <- FALSE, Capture <- "final-only"
SummedRun == INSTANCE AgentTraceProofs WITH PerRequest <- FALSE

LEMMA RunConstants == UntracedRun!TraceAssumption /\ SummedRun!TraceAssumption
BY TraceAssumption
   DEF TraceAssumption, UntracedRun!TraceAssumption, SummedRun!TraceAssumption

LEMMA UntracedSteps == Untraced!Next = UntracedRun!Next
<1>1. /\ Untraced!Events = UntracedRun!Events
      /\ Untraced!Results = UntracedRun!Results
      /\ Untraced!Current = UntracedRun!Current
  BY DEF Untraced!Events, UntracedRun!Events, Untraced!Results, UntracedRun!Results,
         Untraced!Current, UntracedRun!Current
<1>2. /\ Untraced!BeginRequest = UntracedRun!BeginRequest /\ Untraced!EndRequest = UntracedRun!EndRequest
      /\ Untraced!EndRun = UntracedRun!EndRun /\ \A e : Untraced!Emit(e) = UntracedRun!Emit(e)
  BY DEF Untraced!BeginRequest, UntracedRun!BeginRequest, Untraced!EndRequest,
         UntracedRun!EndRequest, Untraced!EndRun, UntracedRun!EndRun,
         Untraced!Emit, UntracedRun!Emit
<1>3. Untraced!RecordSpend = UntracedRun!RecordSpend /\ Untraced!Crash = UntracedRun!Crash
  BY DEF Untraced!RecordSpend, UntracedRun!RecordSpend, Untraced!Crash, UntracedRun!Crash
<1>4. \A c, r : Untraced!FlushPending(c, r) = UntracedRun!FlushPending(c, r)
  BY DEF Untraced!FlushPending, UntracedRun!FlushPending
<1>5. \A c, r : Untraced!AppendEvent(c, r) = UntracedRun!AppendEvent(c, r)
  BY <1>4 DEF Untraced!AppendEvent, UntracedRun!AppendEvent, Untraced!Cardinality,
         UntracedRun!Cardinality
<1>6. \A c, r : Untraced!FlushText(c, r) = UntracedRun!FlushText(c, r)
  BY <1>5 DEF Untraced!FlushText, UntracedRun!FlushText
<1>7. \A c, r : Untraced!AfterUsage(c, r) = UntracedRun!AfterUsage(c, r)
  BY <1>5, <1>6 DEF Untraced!AfterUsage, UntracedRun!AfterUsage
<1>8. \A c, r : Untraced!AfterTerminal(c, r) = UntracedRun!AfterTerminal(c, r)
  BY <1>4, <1>5, <1>6 DEF Untraced!AfterTerminal, UntracedRun!AfterTerminal
<1>9. \A c : Untraced!Becomes(c) = UntracedRun!Becomes(c)
  BY DEF Untraced!Becomes, UntracedRun!Becomes, Untraced!Cancels, UntracedRun!Cancels
<1>10. Untraced!Flush = UntracedRun!Flush
  BY <1>1, <1>4 DEF Untraced!Flush, UntracedRun!Flush
<1>11. Untraced!HandleText = UntracedRun!HandleText
  BY DEF Untraced!HandleText, UntracedRun!HandleText
<1>12. Untraced!HandleTool = UntracedRun!HandleTool
  BY <1>1, <1>5, <1>9 DEF Untraced!HandleTool, UntracedRun!HandleTool
<1>13. Untraced!HandleUsage = UntracedRun!HandleUsage
  BY <1>1, <1>7, <1>9 DEF Untraced!HandleUsage, UntracedRun!HandleUsage
<1>14. Untraced!HandleTerminal = UntracedRun!HandleTerminal
  BY <1>1, <1>8, <1>9 DEF Untraced!HandleTerminal, UntracedRun!HandleTerminal
<1>15. Untraced!Drain = UntracedRun!Drain
  BY <1>11, <1>12, <1>13, <1>14 DEF Untraced!Drain, UntracedRun!Drain
<1>16. QED
  BY <1>1, <1>2, <1>3, <1>10, <1>15 DEF Untraced!Next, UntracedRun!Next

LEMMA SummedSteps == Summed!Next = SummedRun!Next
<1>1. /\ Summed!Events = SummedRun!Events
      /\ Summed!Results = SummedRun!Results
      /\ Summed!Current = SummedRun!Current
  BY DEF Summed!Events, SummedRun!Events, Summed!Results, SummedRun!Results,
         Summed!Current, SummedRun!Current
<1>2. /\ Summed!BeginRequest = SummedRun!BeginRequest /\ Summed!EndRequest = SummedRun!EndRequest
      /\ Summed!EndRun = SummedRun!EndRun /\ \A e : Summed!Emit(e) = SummedRun!Emit(e)
  BY DEF Summed!BeginRequest, SummedRun!BeginRequest, Summed!EndRequest,
         SummedRun!EndRequest, Summed!EndRun, SummedRun!EndRun,
         Summed!Emit, SummedRun!Emit
<1>3. Summed!RecordSpend = SummedRun!RecordSpend /\ Summed!Crash = SummedRun!Crash
  BY DEF Summed!RecordSpend, SummedRun!RecordSpend, Summed!Crash, SummedRun!Crash
<1>4. \A c, r : Summed!FlushPending(c, r) = SummedRun!FlushPending(c, r)
  BY DEF Summed!FlushPending, SummedRun!FlushPending
<1>5. \A c, r : Summed!AppendEvent(c, r) = SummedRun!AppendEvent(c, r)
  BY <1>4 DEF Summed!AppendEvent, SummedRun!AppendEvent, Summed!Cardinality, SummedRun!Cardinality
<1>6. \A c, r : Summed!FlushText(c, r) = SummedRun!FlushText(c, r)
  BY <1>5 DEF Summed!FlushText, SummedRun!FlushText
<1>7. \A c, r : Summed!AfterUsage(c, r) = SummedRun!AfterUsage(c, r)
  BY <1>5, <1>6 DEF Summed!AfterUsage, SummedRun!AfterUsage
<1>8. \A c, r : Summed!AfterTerminal(c, r) = SummedRun!AfterTerminal(c, r)
  BY <1>4, <1>5, <1>6 DEF Summed!AfterTerminal, SummedRun!AfterTerminal
<1>9. \A c : Summed!Becomes(c) = SummedRun!Becomes(c)
  BY DEF Summed!Becomes, SummedRun!Becomes, Summed!Cancels, SummedRun!Cancels
<1>10. Summed!Flush = SummedRun!Flush
  BY <1>1, <1>4 DEF Summed!Flush, SummedRun!Flush
<1>11. Summed!HandleText = SummedRun!HandleText
  BY DEF Summed!HandleText, SummedRun!HandleText
<1>12. Summed!HandleTool = SummedRun!HandleTool
  BY <1>1, <1>5, <1>9 DEF Summed!HandleTool, SummedRun!HandleTool
<1>13. Summed!HandleUsage = SummedRun!HandleUsage
  BY <1>1, <1>7, <1>9 DEF Summed!HandleUsage, SummedRun!HandleUsage
<1>14. Summed!HandleTerminal = SummedRun!HandleTerminal
  BY <1>1, <1>8, <1>9 DEF Summed!HandleTerminal, SummedRun!HandleTerminal
<1>15. Summed!Drain = SummedRun!Drain
  BY <1>11, <1>12, <1>13, <1>14 DEF Summed!Drain, SummedRun!Drain
<1>16. QED
  BY <1>1, <1>2, <1>3, <1>10, <1>15 DEF Summed!Next, SummedRun!Next

(* In each of them the invariant of AgentTraceProofs holds.                 *)
TraceInv ==
  CASE part = "untraced" -> UntracedRun!TypedInv
    [] part = "summed" -> SummedRun!TypedInv
    [] OTHER -> TypedInv

TraceStep ==
  CASE part = "trace" -> Next
    [] part = "untraced" -> Untraced!Next
    [] part = "summed" -> Summed!Next
    [] OTHER -> UNCHANGED vars

LEMMA TraceInitInv == Init => TraceInv
<1>1. UntracedRun!Init = Init /\ SummedRun!Init = Init
  BY DEF Init, UntracedRun!Init, SummedRun!Init
<1>2. UntracedRun!Init => UntracedRun!TypedInv
  BY RunConstants, UntracedRun!InitTypedInv
<1>3. SummedRun!Init => SummedRun!TypedInv
  BY RunConstants, SummedRun!InitTypedInv
<1>4. QED
  BY <1>1, <1>2, <1>3, InitTypedInv DEF TraceInv

LEMMA TraceNextInv ==
  TraceInv /\ (TraceStep \/ UNCHANGED vars) /\ UNCHANGED part => TraceInv'
<1>1. /\ UNCHANGED vars => UNCHANGED UntracedRun!vars
      /\ UNCHANGED vars => UNCHANGED SummedRun!vars
  BY DEF vars, UntracedRun!vars, SummedRun!vars
<1>2. UntracedRun!TypedInv /\ (Untraced!Next \/ UNCHANGED vars) => UntracedRun!TypedInv'
  <2>1. UntracedRun!TypedInv /\ [UntracedRun!Next]_(UntracedRun!vars) => UntracedRun!TypedInv'
    BY RunConstants, UntracedRun!NextTypedInv
  <2>2. QED
    BY <1>1, <2>1, UntracedSteps
<1>3. SummedRun!TypedInv /\ (Summed!Next \/ UNCHANGED vars) => SummedRun!TypedInv'
  <2>1. SummedRun!TypedInv /\ [SummedRun!Next]_(SummedRun!vars) => SummedRun!TypedInv'
    BY RunConstants, SummedRun!NextTypedInv
  <2>2. QED
    BY <1>1, <2>1, SummedSteps
<1>4. TypedInv /\ (Next \/ UNCHANGED vars) => TypedInv'
  BY NextTypedInv
<1>5. QED
  BY <1>2, <1>3, <1>4 DEF TraceInv, TraceStep

\* A step of any way of tracing is a step of the durable trace or leaves it alone.
LEMMA TraceStepKeepsLog ==
  TraceInv /\ TraceInv' /\ (TraceStep \/ UNCHANGED vars) /\ UNCHANGED part
    => [Log!Next]_(Log!vars)
<1> SUFFICES ASSUME TraceInv, TraceInv', TraceStep \/ UNCHANGED vars, UNCHANGED part
             PROVE  [Log!Next]_(Log!vars)
  OBVIOUS
<1>1. LogState = UntracedRun!LogState /\ LogState = SummedRun!LogState
  BY DEF LogState, UntracedRun!LogState, SummedRun!LogState
<1>2. CASE UNCHANGED vars
  BY <1>2 DEF vars, Log!vars, LogState
<1>3. CASE part = "untraced" /\ Untraced!Next
  <2>1. [UntracedRun!Log!Next]_(UntracedRun!Log!vars)
    <3>1. UntracedRun!IInv /\ UntracedRun!IInv' /\ UntracedRun!Next
      BY <1>3, UntracedSteps DEF TraceInv, UntracedRun!TypedInv, UntracedRun!SpendInv
    <3>2. QED
      BY <3>1, RunConstants, UntracedRun!StepKeepsLog
  <2>2. QED
    BY <1>1, <2>1 DEF Log!Next, Log!vars, Log!Record, Log!Close, Log!Die,
      UntracedRun!Log!Next, UntracedRun!Log!vars, UntracedRun!Log!Record,
      UntracedRun!Log!Close, UntracedRun!Log!Die, LogState, UntracedRun!LogState
<1>4. CASE part = "summed" /\ Summed!Next
  <2>1. [SummedRun!Log!Next]_(SummedRun!Log!vars)
    <3>1. SummedRun!IInv /\ SummedRun!IInv' /\ SummedRun!Next
      BY <1>4, SummedSteps DEF TraceInv, SummedRun!TypedInv, SummedRun!SpendInv
    <3>2. QED
      BY <3>1, RunConstants, SummedRun!StepKeepsLog
  <2>2. QED
    BY <1>1, <2>1 DEF Log!Next, Log!vars, Log!Record, Log!Close, Log!Die,
      SummedRun!Log!Next, SummedRun!Log!vars, SummedRun!Log!Record,
      SummedRun!Log!Close, SummedRun!Log!Die, LogState, SummedRun!LogState
<1>5. CASE part = "trace" /\ Next
  <2>1. IInv /\ IInv'
    BY <1>5 DEF TraceInv, TypedInv, SpendInv
  <2>2. QED
    BY <1>5, <2>1, StepKeepsLog
<1>6. QED
  BY <1>2, <1>3, <1>4, <1>5 DEF TraceStep

LEMMA TraceInvImplies ==
  TraceInv => SpendIsAccounted /\ StoredIsInitialSegment /\ DrainedIsComplete /\ TypeOK
<1> SUFFICES ASSUME TraceInv
             PROVE  /\ SpendIsAccounted /\ StoredIsInitialSegment /\ DrainedIsComplete
                    /\ TypeOK
  OBVIOUS
<1>1. \A S : UntracedRun!Cardinality(S) = Cardinality(S)
  BY DEF UntracedRun!Cardinality, Cardinality
<1>2. \A S : SummedRun!Cardinality(S) = Cardinality(S)
  BY DEF SummedRun!Cardinality, Cardinality
<1>3. CASE part = "untraced"
  <2>1. UntracedRun!TypedInv /\ UntracedRun!SpendInv /\ UntracedRun!IInv
    BY <1>3 DEF TraceInv, UntracedRun!TypedInv, UntracedRun!SpendInv
  <2>2. /\ UntracedRun!SpendCountedOnce /\ UntracedRun!RequestsAreMetered
        /\ UntracedRun!NoRequestAfterFailure
    BY <2>1, RunConstants, UntracedRun!SpendInvImplies
  <2>3. UntracedRun!StoredIsInitialSegment /\ UntracedRun!DrainedIsComplete
    BY <2>1, RunConstants, UntracedRun!RowsAreABeginning, UntracedRun!DrainedRowsAreAll
  <2>4. TypeOK
    <3>1. UntracedRun!TypeOK
      BY <2>1, RunConstants, UntracedRun!TypedInvImplies
    <3>2. UntracedRun!Events = Events /\ UntracedRun!Requests = Requests
      BY DEF UntracedRun!Events, Events, UntracedRun!Requests, Requests
    <3>3. QED
      BY <1>1, <3>1, <3>2 DEF TypeOK, UntracedRun!TypeOK
  <2>5. QED
    BY <1>1, <2>2, <2>3, <2>4
       DEF SpendIsAccounted, SpendCountedOnce, RequestsAreMetered, NoRequestAfterFailure,
           StoredIsInitialSegment, DrainedIsComplete, UntracedRun!SpendCountedOnce,
           UntracedRun!RequestsAreMetered, UntracedRun!NoRequestAfterFailure,
           UntracedRun!StoredIsInitialSegment, UntracedRun!DrainedIsComplete
<1>4. CASE part = "summed"
  <2>1. SummedRun!TypedInv /\ SummedRun!SpendInv /\ SummedRun!IInv
    BY <1>4 DEF TraceInv, SummedRun!TypedInv, SummedRun!SpendInv
  <2>2. SummedRun!SpendCountedOnce /\ SummedRun!NoRequestAfterFailure
    BY <2>1, RunConstants, SummedRun!SpendInvImplies
  <2>3. SummedRun!StoredIsInitialSegment /\ SummedRun!DrainedIsComplete
    BY <2>1, RunConstants, SummedRun!RowsAreABeginning, SummedRun!DrainedRowsAreAll
  <2>4. TypeOK
    <3>1. SummedRun!TypeOK
      BY <2>1, RunConstants, SummedRun!TypedInvImplies
    <3>2. SummedRun!Events = Events /\ SummedRun!Requests = Requests
      BY DEF SummedRun!Events, Events, SummedRun!Requests, Requests
    <3>3. QED
      BY <1>2, <3>1, <3>2 DEF TypeOK, SummedRun!TypeOK
  <2>5. QED
    BY <1>2, <1>4, <2>2, <2>3, <2>4
       DEF SpendIsAccounted, SpendCountedOnce, NoRequestAfterFailure, StoredIsInitialSegment,
           DrainedIsComplete, SummedRun!SpendCountedOnce, SummedRun!NoRequestAfterFailure,
           SummedRun!StoredIsInitialSegment, SummedRun!DrainedIsComplete
<1>5. CASE part \notin {"untraced", "summed"}
  BY <1>5, SpendInvImplies, RowsAreABeginning, DrainedRowsAreAll, TypedInvImplies
     DEF TraceInv, TypedInv, SpendInv, SpendIsAccounted
<1>6. QED
  BY <1>3, <1>4, <1>5

-----------------------------------------------------------------------------
(***************************************************************************)
(* The commands (Verification).  What a result says is true of it when it  *)
(* is recorded, so the invariant is about the command that runs: its shell *)
(* is in the group until it is over, a kill empties the group, and the     *)
(* buffer has what was written up to its size.                             *)
(***************************************************************************)
RecordedResults ==
  [exit : {"none", "zero", "other", "signal"},
   err : {"none", "directory", "start", "wait", "timeout"},
   kept : 0..Cap, truncated : BOOLEAN, written : Nat, left : SUBSET Checks!Procs]

ChecksTypes == results \in Seq(RecordedResults) /\ Checks!TypeOK

(* The shell runs, in its group, until its exit is known.                   *)
ShellIsKnown ==
  /\ command \in {"idle", "over"} => alive = {} /\ exit = "none"
  /\ command = "running" /\ exit = "none" => "shell" \in group
  /\ command = "killed" => exit # "none"
  /\ exit # "none" => "shell" \notin alive

(* The buffer keeps what fits, and its writer never fails.                  *)
BufferIsFull ==
  /\ kept = IF written > Cap THEN Cap ELSE written
  /\ ~ copyError
  /\ written + pipe <= MaxWrites

(* A command runs after passed ones, and before there are enough.           *)
RunsAfterPassed ==
  command \in {"running", "killed"} =>
    /\ Len(results) < Commands
    /\ \A i \in DOMAIN results : Checks!Passed(results[i])

ChecksInv ==
  /\ ChecksTypes /\ ShellIsKnown /\ BufferIsFull /\ RunsAfterPassed
  /\ command = "killed" => group = {}
  /\ ResultsAreTrue

ResultFacts(r) ==
  /\ r.exit = "zero" /\ r.err # "timeout" => Checks!Passed(r)
  /\ r.truncated = (r.written > Cap)
  /\ r.kept = IF r.written > Cap THEN Cap ELSE r.written
  /\ r.err = "timeout" => r.left = {}

LEMMA ChecksConstants ==
  /\ Commands \in Nat /\ Cap \in Nat /\ PipeSize \in Nat /\ MaxWrites \in Nat
  /\ "shell" \notin Children
BY PartAssumptions DEF Checks!VerificationAssumption

(* One more result, after passed ones only.                                 *)
LEMMA RecordedIsTrue ==
  ASSUME ChecksTypes, ResultsAreTrue,
         NEW r \in RecordedResults,
         ResultFacts(r), results' = Append(results, r),
         Len(results) < Commands,
         \A i \in DOMAIN results : Checks!Passed(results[i])
  PROVE  /\ ResultsAreTrue'
         /\ results' \in Seq(RecordedResults)
         /\ Len(results') <= Commands
         /\ \A i \in DOMAIN results' :
              /\ results'[i].exit \in {"none", "zero", "other", "signal"}
              /\ results'[i].err \in {"none", "directory", "start", "wait", "timeout"}
              /\ results'[i].kept \in 0..Cap
<1>1. results \in Seq(RecordedResults) /\ Len(results) \in Nat /\ Commands \in Nat
  BY ChecksConstants DEF ChecksTypes
<1>2. \A x \in RecordedResults :
        /\ x.exit \in {"none", "zero", "other", "signal"}
        /\ x.err \in {"none", "directory", "start", "wait", "timeout"}
        /\ x.kept \in 0..Cap
  BY DEF RecordedResults
<1>3. /\ results' \in Seq(RecordedResults) /\ Len(results') = Len(results) + 1
      /\ DOMAIN results' = 1..(Len(results) + 1) /\ DOMAIN results = 1..Len(results)
      /\ \A i \in 1..Len(results) : results'[i] = results[i]
      /\ results'[Len(results) + 1] = r
  BY <1>1
<1>4. \A i \in DOMAIN results' :
        results'[i] = r \/ (i \in DOMAIN results /\ results'[i] = results[i])
  BY <1>1, <1>3
<1>5. \A i \in DOMAIN results' : i < Len(results') => Checks!Passed(results'[i])
  BY <1>1, <1>3
<1>6. \A i \in DOMAIN results' : ResultFacts(results'[i])
  <2>1. \A i \in DOMAIN results : ResultFacts(results[i])
    BY DEF ResultsAreTrue, Checks!LongOutputDoesNotFail, Checks!OutputIsCutAtTheCap,
           Checks!TimeoutEndsTheGroup, ResultFacts
  <2>2. QED
    BY <1>4, <2>1
<1>7. ResultsAreTrue'
  BY <1>5, <1>6
     DEF ResultsAreTrue, Checks!LongOutputDoesNotFail, Checks!OutputIsCutAtTheCap,
         Checks!TimeoutEndsTheGroup, Checks!OnlyTheLastFails, ResultFacts, Checks!Passed
<1>8. \A i \in DOMAIN results' : results'[i] \in RecordedResults
  BY <1>3
<1>9. Len(results') <= Commands
  BY <1>1, <1>3
<1>10. QED
  BY <1>2, <1>3, <1>7, <1>8, <1>9

LEMMA ChecksInitInv == Checks!Init => ChecksInv
<1> SUFFICES ASSUME Checks!Init PROVE ChecksInv
  OBVIOUS
<1>1. /\ results = << >> /\ command = "idle" /\ alive = {} /\ group = {} /\ holders = {}
      /\ exit = "none" /\ pipe = 0 /\ written = 0 /\ kept = 0 /\ copyError = FALSE
      /\ deadline = FALSE /\ taskCancelled = FALSE /\ survivors = {}
  BY DEF Checks!Init
<1>2. Len(results) = 0 /\ DOMAIN results = {}
  BY <1>1
<1>3. ChecksTypes
  <2>1. results \in Seq(RecordedResults)
    BY <1>1
  <2>2. /\ pipe \in 0..PipeSize /\ written \in 0..MaxWrites /\ kept \in 0..Cap
        /\ Len(results) <= Commands
    BY <1>1, <1>2, ChecksConstants
  <2>3. QED
    BY <1>1, <1>2, <2>1, <2>2 DEF ChecksTypes, Checks!TypeOK
<1>4. ResultsAreTrue
  BY <1>2
     DEF ResultsAreTrue, Checks!LongOutputDoesNotFail, Checks!OutputIsCutAtTheCap,
         Checks!TimeoutEndsTheGroup, Checks!OnlyTheLastFails
<1>5. QED
  BY <1>1, <1>3, <1>4, ChecksConstants
     DEF ChecksInv, ShellIsKnown, BufferIsFull, RunsAfterPassed

(* No result, and the same buffer: only processes come and go.              *)
LEMMA ProcessesKeepInv ==
  ASSUME ChecksInv,
         UNCHANGED <<results, written, kept, copyError>>,
         pipe' \in 0..PipeSize, written + pipe' <= MaxWrites,
         command' \in {"idle", "running", "killed", "over"},
         command' \in {"running", "killed"} => command \in {"running", "killed"},
         alive' \subseteq Checks!Procs, group' \subseteq alive', holders' \subseteq alive',
         exit' \in {"none", "zero", "other", "signal"},
         deadline' \in BOOLEAN, taskCancelled' \in BOOLEAN, survivors' \subseteq Children,
         ShellIsKnown', command' = "killed" => group' = {}
  PROVE  ChecksInv'
<1>1. ChecksTypes' /\ BufferIsFull'
  BY DEF ChecksInv, ChecksTypes, Checks!TypeOK, BufferIsFull
<1>2. ResultsAreTrue'
  BY DEF ChecksInv, ResultsAreTrue, Checks!LongOutputDoesNotFail,
         Checks!OutputIsCutAtTheCap, Checks!TimeoutEndsTheGroup, Checks!OnlyTheLastFails,
         Checks!Passed
<1>3. RunsAfterPassed'
  BY DEF ChecksInv, RunsAfterPassed, Checks!Passed
<1>4. QED
  BY <1>1, <1>2, <1>3 DEF ChecksInv

LEMMA RefuseKeepsInv ==
  ASSUME ChecksInv, Checks!Refuse
  PROVE  ChecksInv'
<1> DEFINE r(err) == [Checks!NoResult EXCEPT !.err = err]
<1>1. PICK err \in {"directory", "start"} : results' = Append(results, r(err))
  BY DEF Checks!Refuse
<1>2. /\ Checks!NoResult \in [exit : {"none"}, err : {"none"}, kept : {0},
                              truncated : BOOLEAN, written : {0}, left : {{}}]
      /\ ~ Checks!NoResult.truncated
  BY DEF Checks!NoResult
<1>3. r(err) \in RecordedResults /\ ResultFacts(r(err))
  <2>1. /\ r(err) \in [exit : {"none"}, err : {"directory", "start"}, kept : {0},
                       truncated : BOOLEAN, written : {0}, left : {{}}]
        /\ ~ r(err).truncated
    BY <1>1, <1>2
  <2> HIDE DEF r
  <2>2. 0 \in 0..Cap /\ ~ (0 > Cap)
    BY ChecksConstants
  <2>3. ASSUME NEW d \in [exit : {"none"}, err : {"directory", "start"}, kept : {0},
                          truncated : BOOLEAN, written : {0}, left : {{}}],
               ~ d.truncated
        PROVE  d \in RecordedResults /\ ResultFacts(d)
    <3>1. d \in RecordedResults
      BY <2>2 DEF RecordedResults
    <3>2. d.exit = "none" /\ d.left = {} /\ d.written = 0 /\ d.kept = 0
      OBVIOUS
    <3>3. d.truncated = (d.written > Cap)
      BY <2>2, <2>3, <3>2
    <3>4. ResultFacts(d)
      BY <2>2, <3>2, <3>3 DEF ResultFacts
    <3>5. QED
      BY <3>1, <3>4
  <2>4. QED
    BY <2>1, <2>3
<1> HIDE DEF r
<1>4. /\ command = "idle" /\ Len(results) < Commands
      /\ \A i \in DOMAIN results : Checks!Passed(results[i])
  BY DEF Checks!Refuse, Checks!NextCommand
<1>5. /\ UNCHANGED <<command, alive, group, holders, exit, pipe, written, kept, copyError,
                     deadline, taskCancelled, survivors>>
  BY DEF Checks!Refuse, Checks!procs, Checks!output
<1>6. ChecksTypes /\ ResultsAreTrue
  BY DEF ChecksInv
<1>7. ResultsAreTrue' /\ ChecksTypes'
  BY <1>1, <1>3, <1>4, <1>5, <1>6, RecordedIsTrue DEF ChecksTypes, Checks!TypeOK
<1>8. QED
  BY <1>4, <1>5, <1>7 DEF ChecksInv, ShellIsKnown, BufferIsFull, RunsAfterPassed

LEMMA RecordKeepsInv ==
  ASSUME ChecksInv, Checks!Finish \/ Checks!FinishKilled
  PROVE  ChecksInv'
<1> DEFINE r(err) == [exit |-> exit, err |-> err, kept |-> kept,
                      truncated |-> written > kept, written |-> written,
                      left |-> alive \intersect group]
<1>1. PICK err \in {"wait", "none", "timeout"} :
        /\ Checks!Record(err) /\ Checks!WaitIsOver /\ command \in {"running", "killed"}
        /\ err = "none" => ~ Checks!WaitFails
        /\ err = "wait" => Checks!WaitFails
        /\ err = "timeout" => command = "killed"
  BY DEF Checks!Finish, Checks!FinishKilled
<1>2. /\ results' = Append(results, r(err))
      /\ command' = "idle" /\ survivors' = survivors \union alive
      /\ alive' = {} /\ group' = {} /\ holders' = {} /\ exit' = "none"
      /\ pipe' = 0 /\ written' = 0 /\ kept' = 0 /\ copyError' = FALSE
      /\ deadline' = FALSE /\ taskCancelled' = taskCancelled
  BY <1>1 DEF Checks!Record
<1>3. /\ ChecksTypes /\ ResultsAreTrue /\ Checks!TypeOK
      /\ written \in Nat /\ kept \in 0..Cap /\ Cap \in Nat
      /\ kept = IF written > Cap THEN Cap ELSE written
  BY ChecksConstants DEF ChecksInv, ChecksTypes, Checks!TypeOK, BufferIsFull
<1>4. r(err) \in RecordedResults
  BY <1>3 DEF Checks!TypeOK, RecordedResults
<1>5. ResultFacts(r(err))
  <2>1. (written > kept) = (written > Cap)
    BY <1>3
  <2>2. err = "timeout" => alive \intersect group = {}
    BY <1>1 DEF ChecksInv
  <2>3. exit = "zero" /\ err # "timeout" => err = "none"
    BY <1>1 DEF Checks!WaitFails, ChecksInv, BufferIsFull
  <2>4. QED
    BY <1>3, <2>1, <2>2, <2>3 DEF ResultFacts, Checks!Passed
<1> HIDE DEF r
<1>6. /\ Len(results) < Commands
      /\ \A i \in DOMAIN results : Checks!Passed(results[i])
  BY <1>1 DEF ChecksInv, RunsAfterPassed
<1>7. survivors' \subseteq Children
  BY <1>1, <1>2, <1>3
     DEF Checks!WaitIsOver, ChecksInv, ShellIsKnown, Checks!TypeOK, Checks!Procs
<1>8. ResultsAreTrue' /\ ChecksTypes'
  <2>1. /\ ResultsAreTrue' /\ results' \in Seq(RecordedResults)
        /\ Len(results') <= Commands
        /\ \A i \in DOMAIN results' :
             /\ results'[i].exit \in {"none", "zero", "other", "signal"}
             /\ results'[i].err \in {"none", "directory", "start", "wait", "timeout"}
             /\ results'[i].kept \in 0..Cap
    BY <1>2, <1>3, <1>4, <1>5, <1>6, RecordedIsTrue
  <2>2. /\ pipe' \in 0..PipeSize /\ written' \in 0..MaxWrites /\ kept' \in 0..Cap
    BY <1>2, ChecksConstants
  <2>3. QED
    BY <1>2, <1>3, <1>7, <2>1, <2>2 DEF ChecksTypes, Checks!TypeOK
<1>9. QED
  BY <1>2, <1>8, ChecksConstants DEF ChecksInv, ShellIsKnown, BufferIsFull, RunsAfterPassed

LEMMA CopyKeepsInv ==
  ASSUME ChecksInv, Checks!Copy
  PROVE  ChecksInv'
<1>1. PICK n \in 1..pipe :
        /\ pipe' = pipe - n /\ written' = written + n
        /\ kept' = Checks!BufferWrite(n).kept
        /\ copyError' = (Checks!BufferWrite(n).taken # n)
  BY DEF Checks!Copy
<1>2. UNCHANGED <<results, command, alive, group, holders, exit, deadline, taskCancelled,
                  survivors>>
  BY DEF Checks!Copy, Checks!procs
<1>3. /\ pipe \in 0..PipeSize /\ written \in 0..MaxWrites /\ kept \in 0..Cap
      /\ kept = (IF written > Cap THEN Cap ELSE written)
      /\ written + pipe <= MaxWrites
  BY DEF ChecksInv, ChecksTypes, Checks!TypeOK, BufferIsFull
<1>4. /\ kept' = IF kept + n > Cap THEN Cap ELSE kept + n
      /\ copyError' = FALSE
  BY <1>1 DEF Checks!BufferWrite
<1>5. /\ n \in Nat /\ n <= pipe /\ pipe \in Nat /\ written \in Nat
      /\ PipeSize \in Nat /\ MaxWrites \in Nat /\ Cap \in Nat
  BY <1>1, <1>3, ChecksConstants
<1>6. /\ pipe' \in 0..PipeSize /\ written' \in 0..MaxWrites /\ kept' \in 0..Cap
      /\ written' + pipe' <= MaxWrites
      /\ kept' = IF written' > Cap THEN Cap ELSE written'
  BY <1>1, <1>3, <1>4, <1>5
<1>7. ChecksTypes' /\ BufferIsFull'
  BY <1>2, <1>4, <1>6 DEF ChecksInv, ChecksTypes, Checks!TypeOK, BufferIsFull
<1>8. ResultsAreTrue'
  BY <1>2 DEF ChecksInv, ResultsAreTrue, Checks!LongOutputDoesNotFail,
     Checks!OutputIsCutAtTheCap, Checks!TimeoutEndsTheGroup, Checks!OnlyTheLastFails,
     Checks!Passed
<1>9. QED
  BY <1>2, <1>7, <1>8 DEF ChecksInv, ShellIsKnown, RunsAfterPassed, Checks!Passed

LEMMA StartKeepsInv ==
  ASSUME ChecksInv, Checks!Start
  PROVE  ChecksInv'
<1>1. /\ command = "idle" /\ Len(results) < Commands
      /\ \A i \in DOMAIN results : Checks!Passed(results[i])
      /\ command' = "running"
      /\ alive' = {"shell"} /\ group' = {"shell"} /\ holders' = {"shell"}
      /\ exit' = "none" /\ deadline' = FALSE
      /\ pipe' = 0 /\ written' = 0 /\ kept' = 0 /\ copyError' = FALSE
      /\ UNCHANGED <<results, taskCancelled, survivors>>
  BY DEF Checks!Start, Checks!NextCommand
<1>2. ChecksTypes' /\ BufferIsFull'
  <2>1. /\ pipe' \in 0..PipeSize /\ written' \in 0..MaxWrites /\ kept' \in 0..Cap
        /\ written' + pipe' <= MaxWrites
        /\ kept' = IF written' > Cap THEN Cap ELSE written'
    BY <1>1, ChecksConstants
  <2>2. ChecksTypes
    BY DEF ChecksInv
  <2>3. QED
    BY <1>1, <2>1, <2>2 DEF ChecksTypes, Checks!TypeOK, BufferIsFull, Checks!Procs
<1>3. ResultsAreTrue'
  BY <1>1 DEF ChecksInv, ResultsAreTrue, Checks!LongOutputDoesNotFail,
     Checks!OutputIsCutAtTheCap, Checks!TimeoutEndsTheGroup, Checks!OnlyTheLastFails,
     Checks!Passed
<1>4. QED
  BY <1>1, <1>2, <1>3 DEF ChecksInv, ShellIsKnown, RunsAfterPassed, Checks!Passed

LEMMA ChecksNextInv == ChecksInv /\ [Checks!Next]_checksVars => ChecksInv'
<1> SUFFICES ASSUME ChecksInv, [Checks!Next]_checksVars PROVE ChecksInv'
  OBVIOUS
<1>0. /\ Checks!TypeOK /\ ShellIsKnown /\ (command = "killed" => group = {})
      /\ written + pipe <= MaxWrites
  BY DEF ChecksInv, ChecksTypes, BufferIsFull
<1>1. CASE UNCHANGED checksVars
  BY <1>0, <1>1, ProcessesKeepInv DEF checksVars, Checks!TypeOK, ShellIsKnown
<1>2. ASSUME NEW c \in Children, Checks!Spawn(c) PROVE ChecksInv'
  BY <1>0, <1>2, ProcessesKeepInv, ChecksConstants
     DEF Checks!Spawn, Checks!output, Checks!Procs, Checks!TypeOK, ShellIsKnown
<1>3. ASSUME NEW c \in Children, Checks!Redirect(c) PROVE ChecksInv'
  BY <1>0, <1>3, ProcessesKeepInv DEF Checks!Redirect, Checks!output, Checks!TypeOK, ShellIsKnown
<1>4. ASSUME NEW c \in Children, Checks!Detach(c) PROVE ChecksInv'
  BY <1>0, <1>4, ProcessesKeepInv DEF Checks!Detach, Checks!output, Checks!TypeOK, ShellIsKnown
<1>5. ASSUME NEW p \in Checks!Procs, Checks!Write(p) PROVE ChecksInv'
  BY <1>0, <1>5, ProcessesKeepInv, ChecksConstants
     DEF Checks!Write, Checks!procs, Checks!TypeOK, ShellIsKnown
<1>6. ASSUME NEW p \in Checks!Procs, Checks!Exit(p) PROVE ChecksInv'
  BY <1>0, <1>6, ProcessesKeepInv DEF Checks!Exit, Checks!output, Checks!TypeOK, ShellIsKnown
<1>7. ASSUME NEW c \in Children, Checks!SurvivorEnds(c) PROVE ChecksInv'
  BY <1>0, <1>7, ProcessesKeepInv
     DEF Checks!SurvivorEnds, Checks!output, Checks!procs, Checks!TypeOK, ShellIsKnown
<1>8. CASE Checks!Deadline \/ Checks!Cancel
  BY <1>0, <1>8, ProcessesKeepInv
     DEF Checks!Deadline, Checks!Cancel, Checks!output, Checks!procs, Checks!TypeOK, ShellIsKnown
<1>9. CASE Checks!Kill
  BY <1>0, <1>9, ProcessesKeepInv
     DEF Checks!Kill, Checks!KillGroup, Checks!output, Checks!TypeOK, ShellIsKnown
<1>10. CASE Checks!Over
  BY <1>0, <1>10, ProcessesKeepInv
     DEF Checks!Over, Checks!output, Checks!procs, Checks!TypeOK, ShellIsKnown
<1>11. QED
  BY <1>1, <1>2, <1>3, <1>4, <1>5, <1>6, <1>7, <1>8, <1>9, <1>10, RefuseKeepsInv,
     StartKeepsInv, CopyKeepsInv, RecordKeepsInv DEF Checks!Next
-----------------------------------------------------------------------------
(***************************************************************************)
(* The review (Evaluator).  That a verdict was said is not inductive: the   *)
(* invariant says of every phase what its text, its requests and its usage  *)
(* have to do with each other, also while the runtime is running.           *)
(***************************************************************************)
ReviewFacts ==
  /\ Verified \subseteq Calls
  /\ MaxTurns \in Nat /\ MaxTurns >= 1 /\ InvestigationCap \in Nat /\ InvestigationCap >= 1
  /\ PerRequest \in BOOLEAN

(* Before the first phase everything is as it was.                          *)
NotYetReviewed ==
  review = "start" =>
    live = FALSE /\ text = "none" /\ said = << >> /\ requests = 0 /\ usage = 0

(* A verdict of the text is the one JSON object of the phase.               *)
TextIsSaid ==
  /\ review \in {"investigate", "finalize"} /\ text = "none" => said = << >>
  /\ text \in {"pass", "reject"} => said = <<text>>

(* The runtime runs in a phase only; what it has asked is within the limit. *)
PhaseIsBounded ==
  /\ live => review \in {"investigate", "finalize"}
  /\ review \in {"investigate", "finalize"} => turn <= Review!Limit
  /\ review = "investigate" => requests = turn
  /\ review = "finalize" => requests <= Review!InvestigationTurns + turn
  /\ requests <= Review!Most(2, MaxTurns)

(* The reserved request ends without an answer for a reason only.           *)
FinalRequestIsMade ==
  review = "finalize" =>
    /\ live /\ next # "ask" => turn = 1
    /\ phaseCancelled => ctxDone \/ unstored
    /\ ~ live => eventErr = "other" \/ unstored \/ ctxDone \/ turn = 1

(* What a phase has used is what was asked in it.                           *)
UsageIsSummed ==
  /\ phaseUse <= turn
  /\ PerRequest => phaseUse = turn
  /\ ~ PerRequest /\ live => phaseUse = 0
  /\ review = "investigate" => usage = 0
  /\ review = "finalize" => usage + turn <= requests
  /\ review = "finalize" /\ PerRequest => usage + turn = requests

(* A call that was executed was seen, and none that is verified was.        *)
ExecutedWasSeen ==
  \A c \in Calls :
    /\ executed[c] \in {0, 1}
    /\ executed[c] = 1 => seen[c] # 0 /\ c \notin Verified

ReviewTypes ==
  /\ review \in {"start", "investigate", "finalize", "done"}
  /\ turn \in Nat /\ requests \in Nat /\ phaseUse \in Nat /\ usage \in Nat
  /\ seen \in [Calls -> 0..3] /\ executed \in [Calls -> Nat]
  /\ review # "done" => outcome = "none"

ReviewInv ==
  /\ ReviewTypes /\ NotYetReviewed /\ TextIsSaid /\ PhaseIsBounded
  /\ FinalRequestIsMade /\ UsageIsSummed /\ ExecutedWasSeen
  /\ VerdictWasSaid
  /\ Review!UsageIsWhole

LEMMA ReviewConstants == ReviewFacts
BY PartAssumptions DEF Review!EvaluatorAssumption, ReviewFacts

LEMMA ReviewLimits ==
  /\ Review!InvestigationTurns \in Nat /\ Review!InvestigationTurns >= 1
  /\ Review!Most(2, MaxTurns) \in Nat
  /\ Review!InvestigationTurns + 1 <= Review!Most(2, MaxTurns)
  /\ Review!Limit = IF review = "investigate" THEN Review!InvestigationTurns ELSE 1
BY ReviewConstants
   DEF ReviewFacts, Review!InvestigationTurns, Review!Limit, Review!Most, Review!Least

LEMMA ReviewInitInv == Review!Init => ReviewInv
<1> SUFFICES ASSUME Review!Init PROVE ReviewInv
  OBVIOUS
<1>1. /\ review = "start" /\ live = FALSE /\ text = "none" /\ said = << >>
      /\ turn = 0 /\ phaseUse = 0 /\ requests = 0 /\ usage = 0 /\ outcome = "none"
      /\ executed = [c \in Calls |-> 0] /\ seen = [c \in Calls |-> 0]
  BY DEF Review!Init, Review!Idle
<1>2. ReviewTypes /\ ExecutedWasSeen
  BY <1>1 DEF ReviewTypes, ExecutedWasSeen
<1>3. 0 <= Review!Most(2, MaxTurns)
  BY ReviewLimits
<1>4. QED
  BY <1>1, <1>2, <1>3
     DEF ReviewInv, NotYetReviewed, TextIsSaid, PhaseIsBounded, FinalRequestIsMade,
         UsageIsSummed, VerdictWasSaid, Review!VerdictWasSaid, Review!IncompleteWasAsked,
         Review!UsageIsWhole

(* The guarded calls of the investigation, the only step that runs any.     *)
LEMMA CallToolKeepsInv ==
  ASSUME ReviewInv, Review!CallTool
  PROVE  ReviewInv'
<1>1. /\ live /\ next = "tool" /\ next' = "ask"
      /\ UNCHANGED <<review, live, turn, text, eventErr, unstored, phaseUse, said, requests,
                     ctxDone, usage, outcome, failed>>
  BY DEF Review!CallTool
<1>2. review \in {"investigate", "finalize"}
  BY <1>1 DEF ReviewInv, PhaseIsBounded
<1>3. /\ seen' \in [Calls -> 0..3] /\ executed' \in [Calls -> Nat]
      /\ ExecutedWasSeen'
      /\ review = "finalize" => phaseCancelled' = phaseCancelled
  <2>1. seen \in [Calls -> 0..3] /\ executed \in [Calls -> Nat] /\ ExecutedWasSeen
    BY DEF ReviewInv, ReviewTypes
  <2>2. CASE review = "finalize"
    BY <1>1, <2>1, <2>2 DEF Review!CallTool, Review!guard, ExecutedWasSeen
  <2>3. CASE review = "investigate"
    <3>1. PICK c \in Calls :
            /\ seen' = [seen EXCEPT ![c] = Review!Least(3, seen[c] + 1)]
            /\ executed' = IF Review!Allowed(c) THEN [executed EXCEPT ![c] = executed[c] + 1]
                           ELSE executed
      BY <2>3 DEF Review!CallTool
    <3>2. Review!Least(3, seen[c] + 1) \in 1..3
      BY <2>1 DEF Review!Least
    <3>3. seen' \in [Calls -> 0..3]
      BY <2>1, <3>1, <3>2
    <3>4. executed' \in [Calls -> Nat]
      BY <2>1, <3>1
    <3>5. ASSUME NEW d \in Calls
          PROVE  /\ executed'[d] \in {0, 1}
                 /\ executed'[d] = 1 => seen'[d] # 0 /\ d \notin Verified
      <4>1. CASE d # c
        BY <2>1, <3>1, <4>1 DEF ExecutedWasSeen
      <4>2. CASE d = c
        BY <2>1, <3>1, <3>2, <4>2 DEF ExecutedWasSeen, Review!Allowed
      <4>3. QED
        BY <4>1, <4>2
    <3>6. ExecutedWasSeen'
      BY <3>5 DEF ExecutedWasSeen
    <3>7. QED
      BY <2>3, <3>3, <3>4, <3>6
  <2>4. QED
    BY <1>2, <2>2, <2>3
<1>4. Review!Limit' = Review!Limit /\ Review!InvestigationTurns' = Review!InvestigationTurns
  BY <1>1 DEF Review!Limit, Review!InvestigationTurns
<1>5. ReviewTypes' /\ PhaseIsBounded' /\ UsageIsSummed'
  BY <1>1, <1>3, <1>4 DEF ReviewInv, ReviewTypes, PhaseIsBounded, UsageIsSummed
<1>6. NotYetReviewed' /\ TextIsSaid' /\ FinalRequestIsMade'
  BY <1>1, <1>2, <1>3 DEF ReviewInv, NotYetReviewed, TextIsSaid, FinalRequestIsMade
<1>7. VerdictWasSaid' /\ Review!UsageIsWhole'
  BY <1>1 DEF ReviewInv, VerdictWasSaid, Review!VerdictWasSaid, Review!IncompleteWasAsked,
     Review!UsageIsWhole
<1>8. QED
  BY <1>3, <1>5, <1>6, <1>7 DEF ReviewInv

(* A request and its answer.                                                *)
LEMMA AskKeepsInv ==
  ASSUME ReviewInv, Review!Ask
  PROVE  ReviewInv'
<1>1. /\ live /\ next = "ask" /\ turn < Review!Limit
      /\ turn' = turn + 1 /\ requests' = requests + 1
      /\ phaseUse' = IF PerRequest THEN phaseUse + 1 ELSE phaseUse
      /\ UNCHANGED <<review, live, eventErr, seen, executed, forced, ctxDone, usage, outcome,
                     failed>>
  BY DEF Review!Ask, Review!guard
<1>2. review \in {"investigate", "finalize"}
  BY <1>1 DEF ReviewInv, PhaseIsBounded
<1>3. TextIsSaid'
  <2>1. PICK f \in {"prose", "pass", "reject", "broken"} :
          /\ text' = Review!Joined(text, f)
          /\ said' = IF f = "prose" THEN said ELSE Append(said, f)
    BY DEF Review!Ask
  <2>2. CASE f = "prose"
    BY <1>1, <2>1, <2>2 DEF Review!Joined, ReviewInv, TextIsSaid
  <2>3. CASE f # "prose" /\ text # "none"
    BY <1>1, <2>1, <2>3 DEF Review!Joined, TextIsSaid
  <2>4. CASE f # "prose" /\ text = "none"
    <3>1. said = << >>
      BY <1>2, <2>4 DEF ReviewInv, TextIsSaid
    <3>2. text' = f /\ said' = <<f>>
      BY <2>1, <2>4, <3>1 DEF Review!Joined
    <3>3. QED
      BY <2>4, <3>2 DEF TextIsSaid
  <2>5. QED
    BY <2>2, <2>3, <2>4
<1>4. review = "finalize" /\ phaseCancelled' => ctxDone' \/ unstored'
  BY <1>1 DEF Review!Ask, Review!Observed
<1>5. Review!Limit' = Review!Limit /\ Review!InvestigationTurns' = Review!InvestigationTurns
  BY <1>1 DEF Review!Limit, Review!InvestigationTurns
<1>6. ReviewTypes'
  BY <1>1, ReviewConstants DEF ReviewInv, ReviewTypes, ReviewFacts
<1>7. PhaseIsBounded'
  <2>1. /\ turn \in Nat /\ requests \in Nat
        /\ review = "investigate" => requests = turn /\ turn < Review!InvestigationTurns
        /\ review = "finalize" => /\ requests <= Review!InvestigationTurns + turn
                                 /\ turn < 1
    BY <1>1, ReviewLimits DEF ReviewInv, ReviewTypes, PhaseIsBounded
  <2>2. requests + 1 <= Review!Most(2, MaxTurns)
    BY <1>2, <2>1, ReviewLimits
  <2>3. turn + 1 <= Review!Limit
    BY <1>1, <2>1, ReviewLimits
  <2>4. QED
    BY <1>1, <1>2, <1>5, <2>1, <2>2, <2>3, ReviewLimits DEF PhaseIsBounded
<1>8. FinalRequestIsMade'
  BY <1>1, <1>4, ReviewLimits DEF ReviewInv, ReviewTypes, FinalRequestIsMade
<1>9. UsageIsSummed'
  BY <1>1, <1>2, ReviewConstants
     DEF ReviewInv, ReviewTypes, UsageIsSummed, ReviewFacts, PhaseIsBounded
<1>10. ExecutedWasSeen'
  BY <1>1 DEF ReviewInv, ExecutedWasSeen
<1>11. NotYetReviewed' /\ VerdictWasSaid'
  BY <1>1, <1>2 DEF ReviewInv, ReviewTypes, NotYetReviewed, VerdictWasSaid,
     Review!VerdictWasSaid, Review!IncompleteWasAsked
<1>12. Review!UsageIsWhole'
  BY <1>1, <1>2 DEF ReviewInv, ReviewTypes, Review!UsageIsWhole
<1>13. QED
  BY <1>3, <1>6, <1>7, <1>8, <1>9, <1>10, <1>11, <1>12 DEF ReviewInv

(* The end of a phase, for whatever reason.                                 *)
LEMMA RunEndsKeepsInv ==
  ASSUME ReviewInv,
         Review!Done \/ Review!TurnLimit \/ Review!RuntimeFails \/ Review!RunCancelled
  PROVE  ReviewInv'
<1>1. /\ live /\ live' = FALSE
      /\ UNCHANGED <<review, next, turn, text, said, requests, seen, executed, forced,
                     ctxDone, usage, outcome>>
  BY DEF Review!Done, Review!TurnLimit, Review!RuntimeFails, Review!RunCancelled,
         Review!RunEnds, Review!guard
<1>2. review \in {"investigate", "finalize"}
  BY <1>1 DEF ReviewInv, PhaseIsBounded
<1>3. phaseUse' = phaseUse \/ phaseUse' = Review!WithAggregate(phaseUse)
  BY DEF Review!Done, Review!TurnLimit, Review!RuntimeFails, Review!RunCancelled
<1>4. /\ phaseUse' \in Nat
      /\ UsageIsSummed'
  BY <1>1, <1>3, ReviewConstants
     DEF ReviewInv, ReviewTypes, UsageIsSummed, ReviewFacts, Review!WithAggregate
<1>5. Review!Limit' = Review!Limit /\ Review!InvestigationTurns' = Review!InvestigationTurns
  BY <1>1 DEF Review!Limit, Review!InvestigationTurns
<1>6. FinalRequestIsMade'
  <2>1. SUFFICES ASSUME review = "finalize"
                 PROVE  /\ phaseCancelled' => ctxDone' \/ unstored'
                        /\ eventErr' = "other" \/ unstored' \/ ctxDone' \/ turn' = 1
    BY <1>1 DEF FinalRequestIsMade
  <2>2. Review!Limit = 1
    BY <2>1, ReviewLimits
  <2>3. CASE Review!Done
    BY <1>1, <2>1, <2>3
       DEF Review!Done, Review!Observed, ReviewInv, FinalRequestIsMade
  <2>4. CASE Review!TurnLimit
    BY <1>1, <2>1, <2>2, <2>4 DEF Review!TurnLimit, ReviewInv, FinalRequestIsMade
  <2>5. CASE Review!RuntimeFails
    BY <1>1, <2>1, <2>5
       DEF Review!RuntimeFails, Review!RunEnds, Review!Observed, ReviewInv,
           FinalRequestIsMade
  <2>6. CASE Review!RunCancelled
    BY <1>1, <2>1, <2>6 DEF Review!RunCancelled, ReviewInv, FinalRequestIsMade
  <2>7. QED
    BY <2>3, <2>4, <2>5, <2>6
<1>7. QED
  BY <1>1, <1>2, <1>4, <1>5, <1>6
     DEF ReviewInv, ReviewTypes, NotYetReviewed, TextIsSaid, PhaseIsBounded,
         ExecutedWasSeen, VerdictWasSaid, Review!VerdictWasSaid, Review!IncompleteWasAsked,
         Review!UsageIsWhole

(* A phase begins.                                                          *)
LEMMA StartPhaseKeepsInv ==
  ASSUME ReviewInv, review # "done",
         review' \in {"investigate", "finalize"}, Review!StartPhase(review'),
         UNCHANGED <<requests, seen, executed, ctxDone, outcome>>,
         usage' \in Nat,
         review' = "investigate" => requests = 0 /\ usage' = 0,
         review' = "finalize" => /\ requests <= Review!InvestigationTurns
                                 /\ usage' <= requests
                                 /\ PerRequest => usage' = requests
  PROVE  ReviewInv'
<1>1. /\ live' = TRUE /\ next' = "ask" /\ turn' = 0 /\ text' = "none"
      /\ phaseCancelled' = ctxDone /\ unstored' = FALSE /\ phaseUse' = 0 /\ said' = << >>
  BY DEF Review!StartPhase
<1>2. Review!InvestigationTurns' = Review!InvestigationTurns
  BY DEF Review!InvestigationTurns
<1>3. Review!Limit' \in Nat
  BY <1>1, <1>2, ReviewLimits DEF Review!Limit
<1>4. ReviewTypes' /\ ExecutedWasSeen'
  BY <1>1 DEF ReviewInv, ReviewTypes, ExecutedWasSeen
<1>5. PhaseIsBounded'
  BY <1>1, <1>2, <1>3, ReviewLimits DEF ReviewInv, ReviewTypes, PhaseIsBounded
<1>6. UsageIsSummed'
  <2>1. \A n \in Nat : n + 0 = n /\ 0 <= n
    OBVIOUS
  <2>2. usage' + turn' = usage' /\ 0 <= requests
    BY <1>1, <2>1 DEF ReviewInv, ReviewTypes
  <2>3. QED
    BY <1>1, <2>2 DEF UsageIsSummed
<1>7. VerdictWasSaid'
  BY <1>1 DEF ReviewInv, ReviewTypes, VerdictWasSaid, Review!VerdictWasSaid,
     Review!IncompleteWasAsked
<1>8. Review!UsageIsWhole'
  BY <1>1 DEF ReviewInv, ReviewTypes, Review!UsageIsWhole
<1>9. NotYetReviewed' /\ TextIsSaid' /\ FinalRequestIsMade'
  BY <1>1 DEF NotYetReviewed, TextIsSaid, FinalRequestIsMade
<1>10. QED
  BY <1>4, <1>5, <1>6, <1>7, <1>8, <1>9 DEF ReviewInv

(* The review is decided.                                                   *)
LEMMA DecideKeepsInv ==
  ASSUME ReviewInv, review # "done", ~ live, review' = "done",
         UNCHANGED <<live, turn, text, phaseUse, requests, seen, executed, ctxDone>>,
         outcome' = "pass" => said' \in {<<"pass">>, <<"no diff">>},
         outcome' = "reject" => said' = <<"reject">>,
         text \in {"pass", "reject"} => said' = said,
         outcome' = "incomplete" => ctxDone \/ turn = 1,
         usage' \in Nat, usage' <= requests, PerRequest => usage' = requests
  PROVE  ReviewInv'
<1>1. /\ ReviewTypes /\ NotYetReviewed /\ TextIsSaid /\ PhaseIsBounded
      /\ FinalRequestIsMade /\ UsageIsSummed /\ ExecutedWasSeen
  BY DEF ReviewInv
<1>3. ReviewTypes' /\ ExecutedWasSeen' /\ NotYetReviewed' /\ FinalRequestIsMade'
  BY <1>1 DEF ReviewTypes, ExecutedWasSeen, NotYetReviewed, FinalRequestIsMade
<1>4. TextIsSaid'
  BY <1>1 DEF TextIsSaid
<1>5. PhaseIsBounded'
  BY <1>1 DEF PhaseIsBounded
<1>6. UsageIsSummed'
  BY <1>1 DEF UsageIsSummed
<1>7. VerdictWasSaid'
  BY DEF VerdictWasSaid, Review!VerdictWasSaid, Review!IncompleteWasAsked
<1>8. Review!UsageIsWhole'
  BY DEF Review!UsageIsWhole
<1>9. QED
  BY <1>3, <1>4, <1>5, <1>6, <1>7, <1>8 DEF ReviewInv

LEMMA InvestigationEndsKeepsInv ==
  ASSUME ReviewInv, Review!InvestigationDecides \/ Review!Finalize
  PROVE  ReviewInv'
<1>1. /\ review = "investigate" /\ ~ live /\ usage' = phaseUse
      /\ UNCHANGED <<requests, seen, executed, forced, ctxDone, failed>>
  BY DEF Review!InvestigationDecides, Review!Finalize, Review!guard
<1>2. /\ phaseUse \in Nat /\ phaseUse <= requests
      /\ PerRequest => phaseUse = requests
      /\ requests <= Review!InvestigationTurns
  BY <1>1, ReviewLimits
     DEF ReviewInv, ReviewTypes, UsageIsSummed, PhaseIsBounded
<1>3. CASE Review!InvestigationDecides
  <2>1. UNCHANGED <<live, turn, text, phaseUse, said>>
    BY <1>3 DEF Review!InvestigationDecides, Review!run
  <2>2. /\ review' = "done"
        /\ outcome' = "error" \/ (outcome' = text /\ text \in {"pass", "reject"})
    BY <1>3 DEF Review!InvestigationDecides, Review!Verdict, Review!Decide
  <2>3. /\ outcome' = "pass" => said' \in {<<"pass">>, <<"no diff">>}
        /\ outcome' = "reject" => said' = <<"reject">>
        /\ outcome' # "incomplete"
    BY <2>1, <2>2 DEF ReviewInv, TextIsSaid
  <2>4. QED
    BY <1>1, <1>2, <2>1, <2>2, <2>3, DecideKeepsInv
<1>4. CASE Review!Finalize
  <2>1. CASE Review!StartPhase("finalize") /\ UNCHANGED outcome
    <3>1. review' = "finalize" /\ Review!StartPhase(review')
      BY <2>1 DEF Review!StartPhase
    <3>2. QED
      BY <1>1, <1>2, <2>1, <3>1, StartPhaseKeepsInv
  <2>2. CASE Review!Decide("error") /\ UNCHANGED Review!run
    <3>1. /\ UNCHANGED <<live, turn, text, phaseUse, said>>
          /\ review' = "done" /\ outcome' = "error"
      BY <2>2 DEF Review!run, Review!Decide
    <3>2. QED
      BY <1>1, <1>2, <3>1, DecideKeepsInv
  <2>3. QED
    BY <1>4, <2>1, <2>2 DEF Review!Finalize
<1>5. QED
  BY <1>3, <1>4

LEMMA FinalizationDecidesKeepsInv ==
  ASSUME ReviewInv, Review!FinalizationDecides
  PROVE  ReviewInv'
<1>1. /\ review = "finalize" /\ ~ live /\ usage' = usage + phaseUse
      /\ UNCHANGED <<live, next, turn, text, eventErr, phaseCancelled, unstored, phaseUse,
                     said, requests, seen, executed, forced, ctxDone, failed>>
  BY DEF Review!FinalizationDecides, Review!run, Review!guard
<1>2. usage' \in Nat /\ usage' <= requests /\ (PerRequest => usage' = requests)
  BY <1>1 DEF ReviewInv, ReviewTypes, UsageIsSummed
<1>3. /\ review' = "done"
      /\ \/ outcome' = "error"
         \/ outcome' = "incomplete" /\ ~ unstored /\ eventErr # "other"
         \/ outcome' = text /\ text \in {"pass", "reject"}
  BY DEF Review!FinalizationDecides, Review!Verdict, Review!Decide
<1>4. /\ outcome' = "pass" => said' \in {<<"pass">>, <<"no diff">>}
      /\ outcome' = "reject" => said' = <<"reject">>
  BY <1>1, <1>3 DEF ReviewInv, TextIsSaid
<1>5. outcome' = "incomplete" => ctxDone \/ turn = 1
  BY <1>1, <1>3 DEF ReviewInv, FinalRequestIsMade
<1>6. QED
  BY <1>1, <1>2, <1>3, <1>4, <1>5, DecideKeepsInv

LEMMA ReviewNextInv == ReviewInv /\ [Review!Next]_reviewVars => ReviewInv'
<1> SUFFICES ASSUME ReviewInv, [Review!Next]_reviewVars PROVE ReviewInv'
  OBVIOUS
<1>1. CASE UNCHANGED reviewVars
  BY <1>1, ZenonT(40)
     DEF reviewVars, ReviewInv, ReviewTypes, NotYetReviewed, TextIsSaid, PhaseIsBounded,
         FinalRequestIsMade, UsageIsSummed, ExecutedWasSeen, VerdictWasSaid,
         Review!VerdictWasSaid, Review!IncompleteWasAsked, Review!UsageIsWhole,
         Review!Limit, Review!InvestigationTurns
<1>2. CASE Review!NothingToRun
  <2>1. /\ review = "start" /\ ~ live /\ text = "none" /\ requests = 0 /\ usage = 0
    BY <1>2 DEF Review!NothingToRun, ReviewInv, NotYetReviewed
  <2>2. /\ UNCHANGED <<live, turn, text, phaseUse, requests, seen, executed, ctxDone, usage>>
        /\ review' = "done"
        /\ outcome' = "error" \/ (outcome' = "pass" /\ said' = <<"no diff">>)
    BY <1>2 DEF Review!NothingToRun, Review!guard, Review!Decide
  <2>3. 0 \in Nat /\ 0 <= 0
    OBVIOUS
  <2>4. QED
    BY <2>1, <2>2, <2>3, DecideKeepsInv
<1>3. CASE Review!Investigate
  <2>1. /\ review = "start" /\ review' = "investigate" /\ Review!StartPhase(review')
        /\ UNCHANGED <<requests, seen, executed, ctxDone, usage, outcome>>
        /\ requests = 0 /\ usage = 0
    BY <1>3 DEF Review!Investigate, Review!guard, Review!StartPhase, ReviewInv, NotYetReviewed
  <2>2. QED
    BY <2>1, StartPhaseKeepsInv
<1>4. CASE Review!ContextEnds
  <2>1. /\ review \in {"investigate", "finalize"} /\ ctxDone' = TRUE
        /\ UNCHANGED <<review, live, next, turn, text, eventErr, unstored, phaseUse, said,
                       requests, seen, executed, forced, usage, outcome, failed>>
    BY <1>4 DEF Review!ContextEnds, Review!guard
  <2>2. Review!Limit' = Review!Limit /\ Review!InvestigationTurns' = Review!InvestigationTurns
    BY <2>1 DEF Review!Limit, Review!InvestigationTurns
  <2>3. QED
    BY <2>1, <2>2
       DEF ReviewInv, ReviewTypes, NotYetReviewed, TextIsSaid, PhaseIsBounded,
           FinalRequestIsMade, UsageIsSummed, ExecutedWasSeen, VerdictWasSaid,
           Review!VerdictWasSaid, Review!IncompleteWasAsked, Review!UsageIsWhole
<1>5. QED
  BY <1>1, <1>2, <1>3, <1>4, CallToolKeepsInv, AskKeepsInv, RunEndsKeepsInv,
     InvestigationEndsKeepsInv, FinalizationDecidesKeepsInv DEF Review!Next

LEMMA ReviewInvBounds == ReviewInv => ReviewIsBounded
BY DEF ReviewInv, ReviewIsBounded, Review!CallsRunOnce, Review!RequestsWithinLimit,
       ExecutedWasSeen, PhaseIsBounded

(* The parts of the review that are no numbers are of their types.           *)
LEMMA ReviewInitTypes == Review!Init => Review!TypeOK
<1> SUFFICES ASSUME Review!Init PROVE Review!TypeOK
  OBVIOUS
<1>1. 0 \in 0..Review!Most(1, Review!InvestigationTurns)
  BY ReviewLimits DEF Review!Most
<1>2. /\ seen \in [Calls -> 0..3] /\ executed \in [Calls -> Nat]
      /\ review = "start" /\ outcome = "none" /\ requests = 0 /\ usage = 0
  BY DEF Review!Init
<1>3. /\ live = FALSE /\ next = "ask" /\ turn = 0 /\ text = "none" /\ eventErr = "none"
      /\ phaseCancelled = FALSE /\ unstored = FALSE /\ phaseUse = 0
      /\ forced = FALSE /\ ctxDone = FALSE /\ failed = FALSE
  BY DEF Review!Init, Review!Idle
<1>4. QED
  BY <1>1, <1>2, <1>3 DEF Review!TypeOK

(* The bounds of the requests are those of the invariant, next.             *)
LEMMA ReviewNextTypes ==
  ReviewInv /\ Review!TypeOK /\ [Review!Next]_reviewVars => Review!TypeOK'
<1> SUFFICES ASSUME ReviewInv, Review!TypeOK, [Review!Next]_reviewVars PROVE Review!TypeOK'
  OBVIOUS
<1>1. ReviewInv'
  BY ReviewNextInv
<1>2. /\ Review!InvestigationTurns \in Nat /\ Review!InvestigationTurns >= 1
      /\ Review!Most(1, Review!InvestigationTurns) = Review!InvestigationTurns
      /\ \A n \in Nat : n <= Review!Limit => n \in 0..Review!InvestigationTurns
  BY ReviewLimits DEF Review!Most
<1>3. /\ requests' \in Nat /\ phaseUse' \in Nat /\ usage' \in Nat
      /\ seen' \in [Calls -> 0..3] /\ executed' \in [Calls -> Nat]
      /\ review' \in {"start", "investigate", "finalize", "done"}
      /\ review' \in {"investigate", "finalize"} => turn' <= Review!Limit'
      /\ review' # "done" => outcome' = "none"
  BY <1>1 DEF ReviewInv, ReviewTypes, PhaseIsBounded
<1>4. /\ {live, forced, phaseCancelled, ctxDone, unstored, failed} \subseteq BOOLEAN
      /\ next \in {"ask", "tool", "end"}
      /\ turn \in 0..Review!InvestigationTurns /\ turn \in Nat
      /\ text \in {"none", "pass", "reject", "broken"}
      /\ eventErr \in {"none", "boundary", "other"}
      /\ outcome \in {"none", "pass", "reject", "incomplete", "error"}
      /\ (review = "done") = (outcome # "none")
  BY <1>2 DEF Review!TypeOK
<1>5. /\ {live', forced', phaseCancelled', ctxDone', unstored', failed'} \subseteq BOOLEAN
      /\ next' \in {"ask", "tool", "end"}
  BY <1>4, ZenonT(40)
     DEF Review!Next, Review!NothingToRun, Review!Investigate, Review!StartPhase, Review!Ask,
         Review!Observed, Review!CallTool, Review!Done, Review!RunEnds, Review!TurnLimit,
         Review!RuntimeFails, Review!RunCancelled, Review!ContextEnds,
         Review!InvestigationDecides, Review!Finalize, Review!FinalizationDecides,
         Review!Decide, Review!run, Review!guard, reviewVars
<1>6. /\ text' \in {"none", "pass", "reject", "broken"}
      /\ eventErr' \in {"none", "boundary", "other"}
  BY <1>4
     DEF Review!Next, Review!NothingToRun, Review!Investigate, Review!StartPhase, Review!Ask,
         Review!Joined, Review!CallTool, Review!Done, Review!RunEnds, Review!TurnLimit,
         Review!RuntimeFails, Review!RunCancelled, Review!ContextEnds,
         Review!InvestigationDecides, Review!Finalize, Review!FinalizationDecides,
         Review!Decide, Review!run, Review!guard, reviewVars
<1>7. /\ outcome' \in {"none", "pass", "reject", "incomplete", "error"}
      /\ (review' = "done") = (outcome' # "none")
  BY <1>4
     DEF Review!Next, Review!NothingToRun, Review!Investigate, Review!StartPhase, Review!Ask,
         Review!CallTool, Review!Done, Review!RunEnds, Review!TurnLimit,
         Review!RuntimeFails, Review!RunCancelled, Review!ContextEnds,
         Review!InvestigationDecides, Review!Finalize, Review!FinalizationDecides,
         Review!Decide, Review!Verdict, Review!run, Review!guard, reviewVars
<1>8. turn' \in 0..Review!InvestigationTurns
  <2>1. CASE Review!Ask
    <3>1. turn' \in Nat /\ turn' <= Review!Limit
      BY <1>4, ReviewLimits, <2>1 DEF Review!Ask
    <3>2. QED
      BY <1>2, <3>1
  <2>2. CASE ~ Review!Ask
    <3>1. turn' = turn \/ turn' = 0
      BY <2>2
     DEF Review!Next, Review!NothingToRun, Review!Investigate, Review!StartPhase,
         Review!CallTool, Review!Done, Review!RunEnds, Review!TurnLimit,
         Review!RuntimeFails, Review!RunCancelled, Review!ContextEnds,
         Review!InvestigationDecides, Review!Finalize, Review!FinalizationDecides,
         Review!Decide, Review!run, Review!guard, reviewVars
    <3>2. QED
      BY <1>2, <1>4, <3>1
  <2>3. QED
    BY <2>1, <2>2
<1>9. QED
  BY <1>2, <1>3, <1>5, <1>6, <1>7, <1>8 DEF Review!TypeOK

-----------------------------------------------------------------------------
(***************************************************************************)
(* The delivery target (DeliveryTarget).  It is made in one step, of which  *)
(* the candidates of the provider, the repository and the base are taken    *)
(* in order.                                                                *)
(***************************************************************************)
(* Known is the first of its candidates that is known.                      *)
LEMMA KnownIsTheFirst ==
  ASSUME NEW seq, NEW nothing, NEW k \in DOMAIN seq, seq[k] # nothing,
         DOMAIN seq \subseteq Nat,
         \A j \in DOMAIN seq : j < k => seq[j] = nothing
  PROVE  Delivery!Known(seq, nothing) = seq[k]
<1> DEFINE known == {i \in DOMAIN seq : seq[i] # nothing}
<1>1. k \in known /\ \A j \in known : k <= j
  OBVIOUS
<1>2. \A i \in known : (\A j \in known : i <= j) => i = k
  BY <1>1
<1>3. k = CHOOSE i \in known : \A j \in known : i <= j
  BY <1>1, <1>2
<1>4. QED
  BY <1>1, <1>3 DEF Delivery!Known

LEMMA KnownOfThree ==
  ASSUME NEW nothing, NEW a, NEW b, NEW c
  PROVE  Delivery!Known(<<a, b, c>>, nothing) =
           IF a # nothing THEN a ELSE IF b # nothing THEN b ELSE c
<1> DEFINE seq == <<a, b, c>>
<1>1. DOMAIN seq = 1..3 /\ seq[1] = a /\ seq[2] = b /\ seq[3] = c
  OBVIOUS
<1> HIDE DEF seq
<1>2. CASE a # nothing
  BY <1>1, <1>2, KnownIsTheFirst DEF seq
<1>3. CASE a = nothing /\ b # nothing
  <2>1. \A j \in DOMAIN seq : j < 2 => seq[j] = nothing
    BY <1>1, <1>3
  <2>2. QED
    BY <1>1, <1>3, <2>1, KnownIsTheFirst DEF seq
<1>4. CASE a = nothing /\ b = nothing /\ c # nothing
  <2>1. \A j \in DOMAIN seq : j < 3 => seq[j] = nothing
    BY <1>1, <1>4
  <2>2. QED
    BY <1>1, <1>4, <2>1, KnownIsTheFirst DEF seq
<1>5. CASE a = nothing /\ b = nothing /\ c = nothing
  <2>1. {i \in DOMAIN seq : seq[i] # nothing} = {}
    BY <1>1, <1>5
  <2>2. Delivery!Known(seq, nothing) = nothing
    BY <2>1 DEF Delivery!Known
  <2>3. QED
    BY <1>5, <2>2 DEF seq
<1>6. QED
  BY <1>2, <1>3, <1>4, <1>5

LEMMA KnownOfTwo ==
  ASSUME NEW nothing, NEW a, NEW b
  PROVE  Delivery!Known(<<a, b>>, nothing) = IF a # nothing THEN a ELSE b
<1> DEFINE seq == <<a, b>>
<1>1. DOMAIN seq = 1..2 /\ seq[1] = a /\ seq[2] = b
  OBVIOUS
<1> HIDE DEF seq
<1>2. CASE a # nothing
  BY <1>1, <1>2, KnownIsTheFirst DEF seq
<1>3. CASE a = nothing /\ b # nothing
  <2>1. \A j \in DOMAIN seq : j < 2 => seq[j] = nothing
    BY <1>1, <1>3
  <2>2. QED
    BY <1>1, <1>3, <2>1, KnownIsTheFirst DEF seq
<1>4. CASE a = nothing /\ b = nothing
  <2>1. {i \in DOMAIN seq : seq[i] # nothing} = {}
    BY <1>1, <1>4
  <2>2. Delivery!Known(seq, nothing) = nothing
    BY <2>1 DEF Delivery!Known
  <2>3. QED
    BY <1>4, <2>2 DEF seq
<1>5. QED
  BY <1>2, <1>3, <1>4

LEMMA DeliveryInitInv == Delivery!Init => DeliveryIsResolved
BY DEF Delivery!Init, DeliveryIsResolved, Delivery!RequestMeetsBranch,
       Delivery!NothingIsAssumed, Delivery!Resolved

(* The target that is made meets the branch and was not assumed.            *)
LEMMA ResolveKeepsInv ==
  ASSUME Delivery!Resolve
  PROVE  DeliveryIsResolved'
<1>1. /\ target' = [provider |-> Delivery!Provider, repo |-> Delivery!Repo,
                    base |-> Delivery!Base, token |-> Delivery!Token]
      /\ UNCHANGED <<cfg, remote, head, signal>>
      /\ Delivery!Provider \in {"github", "gitlab"}
  BY DEF Delivery!Resolve, Delivery!HasRepository, Delivery!HasProvider, Delivery!inputs
<1>2. /\ target'.provider = Delivery!Provider /\ target'.repo = Delivery!Repo
      /\ target'.base = Delivery!Base
  BY <1>1
<1>3. Delivery!Provider =
        IF cfg.provider # "" THEN cfg.provider
        ELSE IF Delivery!OfRemote # "" THEN Delivery!OfRemote
        ELSE Delivery!ProviderOfSource(signal.source)
  <2>1. PICK none : none = ""
    OBVIOUS
  <2>2. Delivery!Known(<<cfg.provider, Delivery!OfRemote,
                         Delivery!ProviderOfSource(signal.source)>>, none) =
          IF cfg.provider # none THEN cfg.provider
          ELSE IF Delivery!OfRemote # none THEN Delivery!OfRemote
          ELSE Delivery!ProviderOfSource(signal.source)
    BY KnownOfThree
  <2>3. QED
    BY <2>1, <2>2 DEF Delivery!Provider
<1>4. Delivery!Repo =
        IF cfg.repo # <<>> THEN cfg.repo
        ELSE IF Delivery!RemoteRepo # <<>> THEN Delivery!RemoteRepo ELSE signal.repo
  BY KnownOfThree DEF Delivery!Repo
<1>5. Delivery!Base \in {cfg.base, head}
  <2>1. PICK none : none = ""
    OBVIOUS
  <2>2. Delivery!Known(<<cfg.base, head>>, none) \in {cfg.base, head}
    BY KnownOfTwo
  <2>3. QED
    BY <2>1, <2>2 DEF Delivery!Base
<1>6. Delivery!Parsed' = Delivery!Parsed
  BY <1>1 DEF Delivery!Parsed
<1>7. Delivery!Parsed => Delivery!RemoteRepo = remote.path /\ remote.path # <<>>
  BY DEF Delivery!Parsed, Delivery!RemoteRepo
<1>8. Delivery!OfRemote # "" =>
        Delivery!Parsed /\ Delivery!OfRemote = Delivery!ProviderForHost(remote.host)
  BY DEF Delivery!OfRemote
<1>9. Delivery!Parsed => Delivery!OfRemote = Delivery!ProviderForHost(remote.host)
  BY DEF Delivery!OfRemote
<1>10. Delivery!ProviderOfSource(signal.source) # "" =>
         signal.source \in {"github-ci", "gitlab-ci"}
  BY DEF Delivery!ProviderOfSource
<1>11. Delivery!RequestMeetsBranch'
  BY <1>1, <1>2, <1>3, <1>4, <1>6, <1>7, <1>9
     DEF Delivery!RequestMeetsBranch, Delivery!ProviderForHost
<1>12. Delivery!NothingIsAssumed'
  BY <1>1, <1>2, <1>3, <1>5, <1>6, <1>8, <1>10
     DEF Delivery!NothingIsAssumed, Delivery!ProviderForHost
<1>13. QED
  BY <1>11, <1>12 DEF DeliveryIsResolved

LEMMA DeliveryNextInv ==
  DeliveryIsResolved /\ [Delivery!Next]_deliveryVars => DeliveryIsResolved'
<1> SUFFICES ASSUME DeliveryIsResolved, [Delivery!Next]_deliveryVars
             PROVE  DeliveryIsResolved'
  OBVIOUS
<1>1. CASE ~ Delivery!Resolve
  <2>1. UNCHANGED <<cfg, remote, head, signal, target>>
    BY <1>1
       DEF Delivery!Next, Delivery!NoProvider, Delivery!NoRepository,
           Delivery!NotOwnerRepository, Delivery!NoRemote, Delivery!NoBase, Delivery!Fail,
           Delivery!inputs, deliveryVars
  <2>2. QED
    BY <2>1
       DEF DeliveryIsResolved, Delivery!RequestMeetsBranch, Delivery!NothingIsAssumed,
           Delivery!Resolved, Delivery!Parsed, Delivery!ProviderForHost
<1>2. QED
  BY <1>1, ResolveKeepsInv

(* The target that is resolved is one to which a request can be opened.      *)
LEMMA DeliveryInitTypes == Delivery!Init => Delivery!TypeOK
BY DEF Delivery!Init, Delivery!TypeOK, Delivery!Resolved

(* A failed resolution has a reason, a resolved one a target.               *)
LEMMA DeliveryNextTypes ==
  Delivery!TypeOK /\ [Delivery!Next]_deliveryVars => Delivery!TypeOK'
<1> SUFFICES ASSUME Delivery!TypeOK, [Delivery!Next]_deliveryVars PROVE Delivery!TypeOK'
  OBVIOUS
<1>1. CASE UNCHANGED deliveryVars
  BY <1>1 DEF deliveryVars, Delivery!TypeOK, Delivery!Resolved
<1>2. CASE Delivery!Resolve
  <2>1. /\ target'.provider = Delivery!Provider /\ target'.repo = Delivery!Repo
        /\ reason' = "none"
        /\ cfg' = cfg /\ remote' = remote /\ head' = head
    BY <1>2 DEF Delivery!Resolve, Delivery!HasRepository, Delivery!HasProvider, Delivery!Open,
                Delivery!inputs
  <2>2. /\ Delivery!Provider \in {"github", "gitlab"}
        /\ Len(Delivery!Repo) >= 2 /\ Delivery!Repo[1] # ""
        /\ Delivery!Provider = "github" => Len(Delivery!Repo) = 2
    BY <1>2 DEF Delivery!Resolve, Delivery!HasRepository, Delivery!HasProvider,
                Delivery!IsSlug
  <2>3. QED
    BY <2>1, <2>2 DEF Delivery!TypeOK, Delivery!Resolved
<1>3. ASSUME NEW why \in {"provider", "repository", "owner/repository", "remote", "base"},
             Delivery!Open, Delivery!Fail(why)
      PROVE  Delivery!TypeOK'
  <2>1. /\ target = Delivery!Unresolved /\ target' = target /\ reason' = why
        /\ cfg' = cfg /\ remote' = remote /\ head' = head
    BY <1>3 DEF Delivery!Open, Delivery!Fail, Delivery!inputs
  <2>2. QED
    BY <2>1 DEF Delivery!TypeOK, Delivery!Resolved
<1>4. CASE Delivery!NoProvider \/ Delivery!NoRepository \/ Delivery!NotOwnerRepository
           \/ Delivery!NoRemote \/ Delivery!NoBase
  BY <1>3, <1>4
     DEF Delivery!NoProvider, Delivery!NoRepository, Delivery!NotOwnerRepository,
         Delivery!NoRemote, Delivery!NoBase, Delivery!HasProvider, Delivery!HasRepository
<1>5. QED
  BY <1>1, <1>2, <1>4 DEF Delivery!Next

-----------------------------------------------------------------------------
(***************************************************************************)
(* The memory (MemoryStore).  What keeps a memory alive is that a row is   *)
(* deleted by an update only after a newer one of the same memory exists;   *)
(* what keeps it single is that a call which meets no other one finds the   *)
(* only row there is.                                                       *)
(***************************************************************************)
MemoryCalls ==
  [op : {"none", "save", "update", "remove"},
   step : {"idle", "get", "embed", "insert", "delete"}, id : Nat, cat : Categories]

MemoryTypes ==
  /\ Memory!TypeOK
  /\ memoryCall \in [Agents -> MemoryCalls]

(* The row a call is about exists; how far it is tells what it is.          *)
CallsFit ==
  \A a \in Agents :
    /\ memoryCall[a].step = "idle" => memoryCall[a].op = "none"
    /\ memoryCall[a].step = "get" => memoryCall[a].op = "update"
    /\ memoryCall[a].step \in {"embed", "insert"} => memoryCall[a].op \in {"save", "update"}
    /\ memoryCall[a].step = "delete" => memoryCall[a].op \in {"update", "remove"}
    /\ memoryCall[a].id \in 0..inserted
    /\ (memoryCall[a].id = 0) = (memoryCall[a].op \in {"none", "save"})

(* Every row has a successor that is left, unless its memory was removed;   *)
(* an update deletes a row that has one.                                    *)
NewestIsKept ==
  /\ \A i \in 1..inserted :
       memory[i] \notin removed => \E j \in rows : i <= j /\ memory[j] = memory[i]
  /\ \A a \in Agents :
       /\ memoryCall[a].op = "remove" => memory[memoryCall[a].id] \in removed
       /\ memoryCall[a].op = "update" /\ memoryCall[a].step = "delete" =>
            \E j \in 1..inserted :
              memoryCall[a].id < j /\ memory[j] = memory[memoryCall[a].id]

(* What an update has read is the category of its row.                      *)
ReadIsCurrent ==
  \A a \in Agents :
    memoryCall[a].op = "update" /\ memoryCall[a].step \in {"embed", "insert"} =>
      memoryCall[a].cat = category[memoryCall[a].id]

Undisturbed(m) == m \notin overlaps \cup undeleted

(* Calls that meet are known.                                               *)
CallsMeetNowhere ==
  \A a, b \in Agents :
    /\ memoryCall[a].id # 0 /\ memoryCall[b].id # 0
    /\ memory[memoryCall[a].id] = memory[memoryCall[b].id]
    /\ Undisturbed(memory[memoryCall[a].id])
    => a = b

(* Two rows of an undisturbed memory are the old and the new one of an      *)
(* update that is about to delete the old one.                              *)
TwoRowsAreUpdated ==
  \A i, j \in rows :
    i # j /\ memory[i] = memory[j] /\ Undisturbed(memory[i]) =>
      \E a \in Agents : memoryCall[a].step = "delete" /\ memoryCall[a].id \in {i, j}

(* An update that has read its row has read the only one.                   *)
ReadIsTheOnly ==
  \A a \in Agents :
    /\ memoryCall[a].op = "update" /\ memoryCall[a].step \in {"embed", "insert"}
    /\ Undisturbed(memory[memoryCall[a].id])
    => \A i \in rows : memory[i] = memory[memoryCall[a].id] => i = memoryCall[a].id

MemoryInv ==
  /\ MemoryTypes /\ CallsFit /\ NewestIsKept /\ ReadIsCurrent
  /\ Memory!CategoryIsInherited
  /\ CallsMeetNowhere /\ TwoRowsAreUpdated /\ ReadIsTheOnly

LEMMA MemoryConstants ==
  "semantic" \in Categories /\ MaxRows \in Nat /\ MaxCalls \in Nat
BY PartAssumptions DEF Memory!MemoryAssumption

(* The types, with the bounds that the steps need.                          *)
LEMMA MemoryFacts ==
  ASSUME MemoryInv
  PROVE  /\ inserted \in Nat /\ inserted <= MaxRows /\ MaxRows \in Nat
         /\ rows \subseteq 1..inserted
         /\ Memory!Ids = 1..MaxRows /\ 1..inserted \subseteq 1..MaxRows
         /\ category \in [1..MaxRows -> Categories]
         /\ DOMAIN memory = 1..MaxRows
         /\ \A i \in 1..inserted : memory[i] \in 1..i
         /\ \A i \in 1..inserted : memory[i] \in 1..inserted
         /\ memoryCall \in [Agents -> MemoryCalls]
<1>1. /\ inserted \in Nat /\ inserted <= MaxRows /\ MaxRows \in Nat
      /\ rows \subseteq 1..inserted
      /\ Memory!Ids = 1..MaxRows
      /\ category \in [1..MaxRows -> Categories]
      /\ DOMAIN memory = 1..MaxRows
      /\ \A i \in 1..inserted : memory[i] \in 1..i
      /\ memoryCall \in [Agents -> MemoryCalls]
  BY MemoryConstants DEF MemoryInv, MemoryTypes, Memory!TypeOK, Memory!Ids
<1>2. QED
  BY <1>1

LEMMA MemoryInitInv == Memory!Init => MemoryInv
<1> SUFFICES ASSUME Memory!Init PROVE MemoryInv
  OBVIOUS
<1>1. /\ rows = {} /\ inserted = 0 /\ calls = 0
      /\ category = [i \in 1..MaxRows |-> "semantic"]
      /\ memory = [i \in 1..MaxRows |-> 0]
      /\ memoryCall = [a \in Agents |-> [op |-> "none", step |-> "idle", id |-> 0,
                                         cat |-> "semantic"]]
      /\ removed = {} /\ overlaps = {} /\ undeleted = {}
  BY DEF Memory!Init, Memory!NoCall, Memory!None, Memory!Ids
<1>2. 1..0 = {} /\ 0 \in 0..0 /\ 0 \in 0..MaxRows /\ 0 \in 0..MaxCalls
  BY MemoryConstants
<1>3. /\ memoryCall \in [Agents -> MemoryCalls]
      /\ \A a \in Agents : /\ memoryCall[a].op = "none" /\ memoryCall[a].step = "idle"
                           /\ memoryCall[a].id = 0 /\ memoryCall[a].cat \in Categories
  BY <1>1, MemoryConstants DEF MemoryCalls
<1>4. MemoryTypes
  <2>1. /\ category \in [Memory!Ids -> Categories]
        /\ memory \in [Memory!Ids -> Memory!Ids \cup {Memory!None}]
    BY <1>1, MemoryConstants DEF Memory!Ids, Memory!None
  <2>2. QED
    BY <1>1, <1>2, <1>3, <2>1 DEF MemoryTypes, Memory!TypeOK
<1>5. CallsFit
  BY <1>1, <1>2, <1>3 DEF CallsFit
<1>6. NewestIsKept /\ ReadIsCurrent /\ Memory!CategoryIsInherited
  BY <1>1, <1>2, <1>3 DEF NewestIsKept, ReadIsCurrent, Memory!CategoryIsInherited
<1>7. CallsMeetNowhere /\ TwoRowsAreUpdated /\ ReadIsTheOnly
  BY <1>1, <1>3 DEF CallsMeetNowhere, TwoRowsAreUpdated, ReadIsTheOnly
<1>8. QED
  BY <1>4, <1>5, <1>6, <1>7 DEF MemoryInv

(* A call begins.                                                           *)
LEMMA BeginKeepsInv ==
  ASSUME MemoryInv, NEW a \in Agents,
         Memory!Save(a) \/ Memory!Update(a) \/ Memory!Remove(a)
  PROVE  MemoryInv'
<1>1. PICK r \in MemoryCalls :
        /\ memoryCall[a].step = "idle" /\ calls < MaxCalls /\ calls' = calls + 1
        /\ memoryCall' = [memoryCall EXCEPT ![a] = r]
        /\ \/ r.op = "save" /\ r.step = "embed" /\ r.id = 0 /\ removed' = removed
           \/ /\ r.op = "update" /\ r.step = "get" /\ r.id \in 1..inserted
              /\ removed' = removed
           \/ /\ r.op = "remove" /\ r.step = "delete" /\ r.id \in 1..inserted
              /\ removed' = removed \cup {memory[r.id]}
        /\ overlaps' = IF r.id # 0 /\ Memory!BusyWith(memory[r.id])
                       THEN overlaps \cup {memory[r.id]} ELSE overlaps
  <2>1. CASE Memory!Save(a)
    <3>1. PICK c \in Categories : Memory!Begin(a, "save", "embed", 0, c)
      BY <2>1 DEF Memory!Save, Memory!None
    <3>2. [op |-> "save", step |-> "embed", id |-> 0, cat |-> c] \in MemoryCalls
      BY DEF MemoryCalls
    <3>3. QED
      BY <2>1, <3>1, <3>2 DEF Memory!Save, Memory!Begin
  <2>2. CASE Memory!Update(a)
    <3>1. PICK id \in 1..inserted :
            /\ Memory!Begin(a, "update", "get", id, "semantic")
            /\ overlaps' = IF Memory!BusyWith(memory[id]) THEN overlaps \cup {memory[id]}
                           ELSE overlaps
      BY <2>2 DEF Memory!Update
    <3>2. id \in Nat /\ id # 0
      BY MemoryFacts
    <3>3. [op |-> "update", step |-> "get", id |-> id, cat |-> "semantic"] \in MemoryCalls
      BY <3>2, MemoryConstants DEF MemoryCalls
    <3>4. QED
      BY <2>2, <3>1, <3>2, <3>3 DEF Memory!Update, Memory!Begin
  <2>3. CASE Memory!Remove(a)
    <3>1. PICK id \in 1..inserted :
            /\ Memory!Begin(a, "remove", "delete", id, "semantic")
            /\ removed' = removed \cup {memory[id]}
            /\ overlaps' = IF Memory!BusyWith(memory[id]) THEN overlaps \cup {memory[id]}
                           ELSE overlaps
      BY <2>3 DEF Memory!Remove
    <3>2. id \in Nat /\ id # 0
      BY MemoryFacts
    <3>3. [op |-> "remove", step |-> "delete", id |-> id, cat |-> "semantic"] \in MemoryCalls
      BY <3>2, MemoryConstants DEF MemoryCalls
    <3>4. QED
      BY <2>3, <3>1, <3>2, <3>3 DEF Memory!Remove, Memory!Begin
  <2>4. QED
    BY <2>1, <2>2, <2>3
<1>2. UNCHANGED <<rows, category, memory, inserted, undeleted>>
  BY DEF Memory!Save, Memory!Update, Memory!Remove
<1>3. /\ memoryCall' \in [Agents -> MemoryCalls] /\ memoryCall'[a] = r
      /\ \A b \in Agents : b # a => memoryCall'[b] = memoryCall[b]
  BY <1>1, MemoryFacts
<1>4. \A b \in Agents : memoryCall[b].step # "idle" => b # a
  BY <1>1
<1>5. /\ overlaps \subseteq overlaps' /\ removed \subseteq removed'
      /\ r.id # 0 /\ Memory!BusyWith(memory[r.id]) => memory[r.id] \in overlaps'
      /\ r.id # 0 => r.id \in 1..inserted /\ memory[r.id] \in 1..inserted
  BY <1>1, MemoryFacts
<1>6. /\ MemoryTypes /\ CallsFit /\ NewestIsKept /\ ReadIsCurrent
      /\ Memory!CategoryIsInherited /\ CallsMeetNowhere /\ TwoRowsAreUpdated /\ ReadIsTheOnly
  BY DEF MemoryInv
<1>7. MemoryTypes'
  <2>1. calls' \in 0..MaxCalls
    BY <1>1, <1>6, MemoryConstants DEF MemoryTypes, Memory!TypeOK
  <2>2. /\ overlaps' \subseteq Memory!Ids /\ removed' \subseteq Memory!Ids
    BY <1>1, <1>5, <1>6, MemoryFacts DEF MemoryTypes, Memory!TypeOK
  <2>3. \A b \in Agents :
          /\ memoryCall'[b].op \in {"none", "save", "update", "remove"}
          /\ memoryCall'[b].step \in {"idle", "get", "embed", "insert", "delete"}
          /\ memoryCall'[b].id \in 0..inserted
          /\ memoryCall'[b].cat \in Categories
    BY <1>1, <1>3, <1>6, MemoryFacts DEF MemoryCalls, MemoryTypes, Memory!TypeOK
  <2>4. QED
    BY <1>2, <1>3, <1>6, <2>1, <2>2, <2>3 DEF MemoryTypes, Memory!TypeOK
<1>8. CallsFit'
  BY <1>1, <1>2, <1>3, <1>6, MemoryFacts DEF CallsFit
<1>9. NewestIsKept'
  BY <1>1, <1>2, <1>3, <1>5, <1>6 DEF NewestIsKept
<1>10. ReadIsCurrent'
  BY <1>1, <1>2, <1>3, <1>6 DEF ReadIsCurrent
<1>11. Memory!CategoryIsInherited'
  BY <1>2, <1>6 DEF Memory!CategoryIsInherited
<1>12. CallsMeetNowhere'
  <2>1. SUFFICES ASSUME NEW b \in Agents, NEW c \in Agents, b # c,
                        memoryCall'[b].id # 0, memoryCall'[c].id # 0,
                        memory[memoryCall'[b].id] = memory[memoryCall'[c].id],
                        memory[memoryCall'[b].id] \notin overlaps' \cup undeleted
                 PROVE  FALSE
    BY <1>2 DEF CallsMeetNowhere, Undisturbed
  <2>2. CASE b # a /\ c # a
    BY <1>3, <1>5, <1>6, <2>1, <2>2 DEF CallsMeetNowhere, Undisturbed
  <2>3. CASE b = a
    <3>1. Memory!BusyWith(memory[r.id])
      BY <1>3, <2>1, <2>3 DEF Memory!BusyWith, Memory!None
    <3>2. QED
      BY <1>3, <1>5, <2>1, <2>3, <3>1
  <2>4. CASE c = a
    <3>1. Memory!BusyWith(memory[r.id])
      BY <1>3, <2>1, <2>4 DEF Memory!BusyWith, Memory!None
    <3>2. QED
      BY <1>3, <1>5, <2>1, <2>4, <3>1
  <2>5. QED
    BY <2>2, <2>3, <2>4
<1>13. TwoRowsAreUpdated'
  BY <1>2, <1>3, <1>4, <1>5, <1>6 DEF TwoRowsAreUpdated, Undisturbed
<1>14. ReadIsTheOnly'
  BY <1>1, <1>2, <1>3, <1>5, <1>6 DEF ReadIsTheOnly, Undisturbed
<1>15. QED
  BY <1>7, <1>8, <1>9, <1>10, <1>11, <1>12, <1>13, <1>14 DEF MemoryInv

(* A call goes on, or returns, without touching a row.                      *)
LEMMA CallGoesOnKeepsInv ==
  ASSUME MemoryInv, NEW a \in Agents, NEW r \in MemoryCalls,
         memoryCall' = [memoryCall EXCEPT ![a] = r],
         UNCHANGED <<rows, category, memory, inserted, calls, removed, overlaps, undeleted>>,
         memoryCall[a].step # "delete",
         \/ r.op = "none" /\ r.step = "idle" /\ r.id = 0
         \/ /\ r.op = memoryCall[a].op /\ r.id = memoryCall[a].id
            /\ memoryCall[a].op \in {"save", "update"}
            /\ r.step \in {"embed", "insert"}
            /\ r.op = "update" => r.cat = category[r.id]
            /\ \/ r.id \in rows /\ memoryCall[a].step = "get"
               \/ memoryCall[a].step \in {"embed", "insert"}
  PROVE  MemoryInv'
<1>1. /\ memoryCall' \in [Agents -> MemoryCalls] /\ memoryCall'[a] = r
      /\ \A b \in Agents : b # a => memoryCall'[b] = memoryCall[b]
  BY MemoryFacts
<1>2. /\ MemoryTypes /\ CallsFit /\ NewestIsKept /\ ReadIsCurrent
      /\ Memory!CategoryIsInherited /\ CallsMeetNowhere /\ TwoRowsAreUpdated /\ ReadIsTheOnly
  BY DEF MemoryInv
<1>3. r.id \in {0, memoryCall[a].id}
  OBVIOUS
<1>4. CallsFit'
  BY <1>1, <1>2, MemoryFacts DEF CallsFit
<1>5. MemoryTypes'
  <2>1. \A b \in Agents :
          /\ memoryCall'[b].op \in {"none", "save", "update", "remove"}
          /\ memoryCall'[b].step \in {"idle", "get", "embed", "insert", "delete"}
          /\ memoryCall'[b].cat \in Categories
    BY <1>1 DEF MemoryCalls
  <2>2. \A b \in Agents : memoryCall'[b].id \in 0..inserted
    BY <1>4 DEF CallsFit
  <2>3. QED
    BY <1>1, <1>2, <2>1, <2>2 DEF MemoryTypes, Memory!TypeOK
<1>6. NewestIsKept' /\ ReadIsCurrent' /\ Memory!CategoryIsInherited'
  BY <1>1, <1>2 DEF NewestIsKept, ReadIsCurrent, Memory!CategoryIsInherited
<1>7. CallsMeetNowhere' /\ TwoRowsAreUpdated'
  BY <1>1, <1>2 DEF CallsMeetNowhere, TwoRowsAreUpdated, Undisturbed
<1>8. ReadIsTheOnly'
  <2>1. SUFFICES ASSUME r.op = "update", r.step \in {"embed", "insert"},
                        Undisturbed(memory[r.id]),
                        NEW i \in rows, memory[i] = memory[r.id], i # r.id
                 PROVE  FALSE
    BY <1>1, <1>2 DEF ReadIsTheOnly, Undisturbed
  <2>2. CASE memoryCall[a].step \in {"embed", "insert"}
    BY <1>2, <2>1, <2>2 DEF ReadIsTheOnly
  <2>3. CASE r.id \in rows /\ memoryCall[a].step = "get"
    <3>1. PICK b \in Agents : memoryCall[b].step = "delete" /\ memoryCall[b].id \in {i, r.id}
      BY <1>2, <2>1, <2>3 DEF TwoRowsAreUpdated
    <3>2. /\ memoryCall[b].id # 0 /\ r.id # 0 /\ r.id = memoryCall[a].id
          /\ memory[memoryCall[b].id] = memory[r.id]
      BY <2>1, <2>3, <3>1, MemoryFacts
    <3>3. a = b
      BY <1>2, <2>1, <3>2 DEF CallsMeetNowhere
    <3>4. QED
      BY <2>3, <3>1, <3>3
  <2>4. QED
    BY <2>1, <2>2, <2>3
<1>9. QED
  BY <1>2, <1>4, <1>5, <1>6, <1>7, <1>8 DEF MemoryInv

LEMMA ReadKeepsInv ==
  ASSUME MemoryInv, NEW a \in Agents, Memory!Get(a) \/ Memory!Embed(a)
  PROVE  MemoryInv'
<1> DEFINE none == [op |-> "none", step |-> "idle", id |-> 0, cat |-> "semantic"]
<1>1. /\ none \in MemoryCalls /\ none.op = "none" /\ none.step = "idle" /\ none.id = 0
      /\ Memory!NoCall = none
  BY MemoryConstants DEF MemoryCalls, Memory!NoCall, Memory!None
<1> HIDE DEF none
<1>2. /\ UNCHANGED <<rows, category, memory, inserted, calls, removed, overlaps, undeleted>>
      /\ memoryCall[a].step \in {"get", "embed"}
  BY DEF Memory!Get, Memory!Embed
<1>3. memoryCall[a] \in MemoryCalls
  BY MemoryFacts
<1>4. CASE Memory!Returns(a)
  BY <1>1, <1>2, <1>4, CallGoesOnKeepsInv DEF Memory!Returns
<1>5. CASE Memory!Get(a) /\ ~ Memory!Returns(a)
  <2> DEFINE r == [memoryCall[a] EXCEPT !.step = "embed", !.cat = category[memoryCall[a].id]]
  <2>1. /\ memoryCall[a].step = "get" /\ memoryCall[a].id \in rows
        /\ memoryCall' = [memoryCall EXCEPT ![a] = r]
    BY <1>3, <1>5, MemoryFacts DEF Memory!Get
  <2>2. category[memoryCall[a].id] \in Categories
    BY <2>1, MemoryFacts
  <2>3. /\ r \in MemoryCalls
        /\ r.op = memoryCall[a].op /\ r.id = memoryCall[a].id /\ r.step = "embed"
        /\ r.cat = category[r.id]
    BY <1>3, <2>2 DEF MemoryCalls
  <2>4. memoryCall[a].op = "update"
    BY <2>1 DEF MemoryInv, CallsFit
  <2> HIDE DEF r
  <2>5. QED
    BY <1>2, <2>1, <2>3, <2>4, CallGoesOnKeepsInv
<1>6. CASE Memory!Embed(a) /\ ~ Memory!Returns(a)
  <2> DEFINE r == [memoryCall[a] EXCEPT !.step = "insert"]
  <2>1. /\ memoryCall[a].step = "embed"
        /\ memoryCall' = [memoryCall EXCEPT ![a] = r]
    BY <1>3, <1>6, MemoryFacts DEF Memory!Embed, Memory!Goes
  <2>2. /\ r \in MemoryCalls
        /\ r.op = memoryCall[a].op /\ r.id = memoryCall[a].id /\ r.step = "insert"
        /\ r.cat = memoryCall[a].cat
    BY <1>3 DEF MemoryCalls
  <2>3. /\ memoryCall[a].op \in {"save", "update"}
        /\ r.op = "update" => r.cat = category[r.id]
    BY <2>1, <2>2 DEF MemoryInv, CallsFit, ReadIsCurrent
  <2> HIDE DEF r
  <2>4. QED
    BY <1>2, <2>1, <2>2, <2>3, CallGoesOnKeepsInv
<1>7. QED
  BY <1>4, <1>5, <1>6

(* A new row, of a new memory or of that of the row an update is about.     *)
LEMMA NewRowKeepsInv ==
  ASSUME MemoryInv, NEW a \in Agents, NEW r \in MemoryCalls,
         memoryCall[a].step = "insert", inserted < MaxRows,
         Memory!InsertRow(a, inserted + 1),
         memoryCall' = [memoryCall EXCEPT ![a] = r],
         UNCHANGED <<calls, removed, overlaps>>,
         \/ r.op = "none" /\ r.step = "idle" /\ r.id = 0
         \/ /\ r.op = "update" /\ memoryCall[a].op = "update"
            /\ r.step = "delete" /\ r.id = memoryCall[a].id,
         undeleted' = IF memoryCall[a].op = "update" /\ r.op = "none"
                      THEN undeleted \cup {memory[memoryCall[a].id]} ELSE undeleted
  PROVE  MemoryInv'
<1> DEFINE n == inserted + 1
           m == IF memoryCall[a].op = "save" THEN n ELSE memory[memoryCall[a].id]
<1>1. /\ memoryCall' \in [Agents -> MemoryCalls] /\ memoryCall'[a] = r
      /\ \A b \in Agents : b # a => memoryCall'[b] = memoryCall[b]
  BY MemoryFacts
<1>2. /\ MemoryTypes /\ CallsFit /\ NewestIsKept /\ ReadIsCurrent
      /\ Memory!CategoryIsInherited /\ CallsMeetNowhere /\ TwoRowsAreUpdated /\ ReadIsTheOnly
  BY DEF MemoryInv
<1>3. /\ inserted \in Nat /\ n \in 1..MaxRows /\ n \in Nat /\ n > inserted
      /\ n \notin 1..inserted
      /\ \A i \in 1..n : i \in 1..inserted \/ i = n
      /\ \A i \in 1..inserted : i \in 1..n /\ i # n
  BY MemoryFacts
<1>4. /\ inserted' = n /\ rows' = rows \cup {n}
      /\ category' = [category EXCEPT ![n] = memoryCall[a].cat]
      /\ memory' = [memory EXCEPT ![n] = m]
  BY DEF Memory!InsertRow
<1>5. /\ memory'[n] = m /\ category'[n] = memoryCall[a].cat
      /\ \A i \in 1..inserted : memory'[i] = memory[i] /\ category'[i] = category[i]
  BY <1>3, <1>4, MemoryFacts
<1>6. /\ memoryCall[a].op \in {"save", "update"}
      /\ memoryCall[a].op = "update" => /\ memoryCall[a].id \in 1..inserted
                                       /\ m = memory[memoryCall[a].id]
                                       /\ m \in 1..inserted
      /\ memoryCall[a].op = "save" => m = n
  <2>1. memoryCall[a].op \in {"save", "update"}
    BY <1>2 DEF CallsFit
  <2>2. memoryCall[a].op = "update" => memoryCall[a].id \in 1..inserted
    BY <1>2, MemoryFacts DEF CallsFit
  <2>3. QED
    BY <2>1, <2>2, MemoryFacts
<1> HIDE DEF n, m
<1>7. \A b \in Agents : memoryCall[b].id # 0 =>
        /\ memoryCall[b].id \in 1..inserted
        /\ memory[memoryCall[b].id] \in 1..inserted
        /\ memory'[memoryCall[b].id] = memory[memoryCall[b].id]
        /\ category'[memoryCall[b].id] = category[memoryCall[b].id]
  <2>1. \A b \in Agents : memoryCall[b].id # 0 => memoryCall[b].id \in 1..inserted
    BY <1>2, MemoryFacts DEF CallsFit
  <2>2. QED
    BY <1>5, <2>1, MemoryFacts
<1>8. \A b \in Agents : /\ memoryCall'[b].id # 0 => memoryCall'[b].id = memoryCall[b].id
                        /\ memoryCall'[b].op = "update" => memoryCall'[b].id # 0
                        /\ memoryCall[b].op \in {"update", "remove"} => memoryCall[b].id # 0
  BY <1>1, <1>2, <1>6, <1>7 DEF CallsFit
<1>9. \A i \in rows : i \in 1..inserted
  BY MemoryFacts
<1>10. \A i \in 1..inserted : memory[i] \in 1..inserted /\ memory[i] # n
  BY <1>3, MemoryFacts
<1>11. CallsFit'
  <2>1. \A i \in 0..inserted : i \in 0..n
    BY <1>3
  <2>2. r.id \in 0..n
    BY <1>2, <1>3, <2>1 DEF CallsFit
  <2>3. QED
    BY <1>1, <1>2, <1>4, <1>8, <2>1, <2>2 DEF CallsFit
<1>12. MemoryTypes'
  <2>1. /\ category' \in [Memory!Ids -> Categories]
        /\ memory' \in [Memory!Ids -> Memory!Ids \cup {Memory!None}]
    <3>1. memoryCall[a].cat \in Categories /\ n \in Memory!Ids /\ m \in Memory!Ids
      BY <1>3, <1>6, MemoryFacts DEF MemoryCalls
    <3>2. /\ category \in [Memory!Ids -> Categories]
          /\ memory \in [Memory!Ids -> Memory!Ids \cup {Memory!None}]
      BY <1>2 DEF MemoryTypes, Memory!TypeOK
    <3>3. QED
      BY <1>4, <3>1, <3>2
  <2>2. \A i \in 1..inserted' : memory'[i] \in 1..i
    <3>1. m \in 1..n
      BY <1>3, <1>6
    <3>2. QED
      BY <1>3, <1>4, <1>5, <3>1, MemoryFacts
  <2>3. rows' \subseteq 1..inserted' /\ inserted' \in 0..MaxRows
    BY <1>3, <1>4, <1>9, MemoryFacts
  <2>4. undeleted' \subseteq Memory!Ids
    BY <1>2, <1>6, MemoryFacts DEF MemoryTypes, Memory!TypeOK
  <2>5. \A b \in Agents :
          /\ memoryCall'[b].op \in {"none", "save", "update", "remove"}
          /\ memoryCall'[b].step \in {"idle", "get", "embed", "insert", "delete"}
          /\ memoryCall'[b].cat \in Categories
    BY <1>1 DEF MemoryCalls
  <2>6. \A b \in Agents : memoryCall'[b].id \in 0..inserted'
    BY <1>11 DEF CallsFit
  <2>7. QED
    BY <1>1, <1>2, <2>1, <2>2, <2>3, <2>4, <2>5, <2>6 DEF MemoryTypes, Memory!TypeOK
<1>13. NewestIsKept'
  <2>1. ASSUME NEW i \in 1..inserted', memory'[i] \notin removed
        PROVE  \E j \in rows' : i <= j /\ memory'[j] = memory'[i]
    <3>1. CASE i = n
      BY <1>3, <1>4, <3>1
    <3>2. CASE i \in 1..inserted
      <4>1. memory[i] \notin removed /\ memory'[i] = memory[i]
        BY <1>5, <2>1, <3>2
      <4>2. PICK j \in rows : i <= j /\ memory[j] = memory[i]
        BY <1>2, <3>2, <4>1 DEF NewestIsKept
      <4>3. j \in rows' /\ memory'[j] = memory[j]
        BY <1>4, <1>5, <1>9
      <4>4. QED
        BY <4>1, <4>2, <4>3
    <3>3. QED
      BY <1>3, <1>4, <3>1, <3>2
  <2>2. ASSUME NEW b \in Agents, memoryCall'[b].op = "remove"
        PROVE  memory'[memoryCall'[b].id] \in removed
    BY <1>1, <1>2, <1>7, <1>8, <2>2 DEF NewestIsKept
  <2>3. ASSUME NEW b \in Agents, memoryCall'[b].op = "update", memoryCall'[b].step = "delete"
        PROVE  \E j \in 1..inserted' :
                 /\ memoryCall'[b].id < j
                 /\ memory'[j] = memory'[memoryCall'[b].id]
    <3>1. CASE b = a
      <4>1. /\ memoryCall'[b].id = memoryCall[a].id /\ memoryCall[a].op = "update"
            /\ memoryCall[a].id \in 1..inserted
        BY <1>1, <1>6, <2>3, <3>1
      <4>2. memory'[memoryCall[a].id] = m /\ memory'[n] = m
        BY <1>5, <1>6, <4>1
      <4>3. n \in 1..inserted' /\ memoryCall[a].id < n
        BY <1>3, <1>4, <4>1
      <4>4. QED
        BY <4>1, <4>2, <4>3
    <3>2. CASE b # a
      <4>1. memoryCall'[b] = memoryCall[b]
        BY <1>1, <3>2
      <4>2. PICK j \in 1..inserted :
              memoryCall[b].id < j /\ memory[j] = memory[memoryCall[b].id]
        BY <1>2, <2>3, <4>1 DEF NewestIsKept
      <4>3. /\ j \in 1..inserted' /\ memory'[j] = memory[j]
            /\ memory'[memoryCall[b].id] = memory[memoryCall[b].id]
        BY <1>3, <1>4, <1>5, <1>7, <1>8, <2>3, <4>1
      <4>4. QED
        BY <4>1, <4>2, <4>3
    <3>3. QED
      BY <3>1, <3>2
  <2>4. QED
    BY <2>1, <2>2, <2>3 DEF NewestIsKept
<1>14. ReadIsCurrent'
  BY <1>1, <1>2, <1>7, <1>8 DEF ReadIsCurrent
<1>15. Memory!CategoryIsInherited'
  <2>1. \A i \in 1..inserted : category'[i] = category'[memory'[i]]
    BY <1>2, <1>5, <1>10 DEF Memory!CategoryIsInherited
  <2>2. category'[n] = category'[memory'[n]]
    <3>1. CASE memoryCall[a].op = "save"
      BY <1>5, <1>6, <3>1
    <3>2. CASE memoryCall[a].op = "update"
      <4>1. category'[n] = category[memoryCall[a].id]
        BY <1>2, <1>5, <3>2 DEF ReadIsCurrent
      <4>2. category[memoryCall[a].id] = category[m]
        BY <1>2, <1>6, <3>2 DEF Memory!CategoryIsInherited
      <4>3. category'[m] = category[m]
        BY <1>5, <1>6, <3>2
      <4>4. QED
        BY <1>5, <4>1, <4>2, <4>3
    <3>3. QED
      BY <1>6, <3>1, <3>2
  <2>3. QED
    BY <1>3, <1>4, <2>1, <2>2 DEF Memory!CategoryIsInherited
<1>16. \A x : Undisturbed(x)' => Undisturbed(x)
  BY DEF Undisturbed
<1>17. CallsMeetNowhere'
  <2>1. SUFFICES ASSUME NEW b \in Agents, NEW c \in Agents,
                        memoryCall'[b].id # 0, memoryCall'[c].id # 0,
                        memory'[memoryCall'[b].id] = memory'[memoryCall'[c].id],
                        memory'[memoryCall'[b].id] \notin overlaps' \cup undeleted'
                 PROVE  b = c
    BY DEF CallsMeetNowhere, Undisturbed
  <2>2. /\ memoryCall'[b].id = memoryCall[b].id /\ memoryCall'[c].id = memoryCall[c].id
        /\ memory'[memoryCall[b].id] = memory[memoryCall[b].id]
        /\ memory'[memoryCall[c].id] = memory[memoryCall[c].id]
    BY <1>7, <1>8, <2>1
  <2>3. Undisturbed(memory[memoryCall[b].id])
    BY <2>1, <2>2 DEF Undisturbed
  <2>4. QED
    BY <1>2, <2>1, <2>2, <2>3 DEF CallsMeetNowhere
<1>18. TwoRowsAreUpdated'
  <2>1. SUFFICES ASSUME NEW i \in rows', NEW j \in rows', i # j, memory'[i] = memory'[j],
                        memory'[i] \notin overlaps' \cup undeleted'
                 PROVE  \E b \in Agents :
                          memoryCall'[b].step = "delete" /\ memoryCall'[b].id \in {i, j}
    BY DEF TwoRowsAreUpdated, Undisturbed
  <2>2. CASE i \in rows /\ j \in rows
    <3>1. memory'[i] = memory[i] /\ memory'[j] = memory[j] /\ Undisturbed(memory[i])
      BY <1>5, <1>9, <2>1, <2>2 DEF Undisturbed
    <3>2. PICK b \in Agents : memoryCall[b].step = "delete" /\ memoryCall[b].id \in {i, j}
      BY <1>2, <2>1, <2>2, <3>1 DEF TwoRowsAreUpdated
    <3>3. b # a
      BY <3>2
    <3>4. QED
      BY <1>1, <3>2, <3>3
  <2>3. ASSUME NEW k \in rows, memory'[k] = memory'[n],
               memory'[k] \notin overlaps' \cup undeleted'
        PROVE  memoryCall'[a].step = "delete" /\ memoryCall'[a].id = k
    <3>1. memory[k] = m /\ k \in 1..inserted /\ m \in 1..inserted
      BY <1>5, <1>9, <1>10, <2>3
    <3>2. memoryCall[a].op = "update"
      BY <1>3, <1>6, <3>1
    <3>3. m = memory[memoryCall[a].id]
      BY <1>6, <3>2
    <3>4. Undisturbed(m) /\ m \notin undeleted'
      BY <1>5, <2>3, <3>1 DEF Undisturbed
    <3>5. r.op # "none"
      BY <3>2, <3>3, <3>4
    <3>6. k = memoryCall[a].id
      BY <1>2, <3>1, <3>2, <3>3, <3>4 DEF ReadIsTheOnly
    <3>7. QED
      BY <1>1, <3>5, <3>6
  <2>4. QED
    BY <1>4, <2>1, <2>2, <2>3
<1>19. ReadIsTheOnly'
  <2>1. SUFFICES ASSUME NEW b \in Agents,
                        memoryCall'[b].op = "update",
                        memoryCall'[b].step \in {"embed", "insert"},
                        memory'[memoryCall'[b].id] \notin overlaps' \cup undeleted',
                        NEW i \in rows', memory'[i] = memory'[memoryCall'[b].id]
                 PROVE  i = memoryCall'[b].id
    BY DEF ReadIsTheOnly, Undisturbed
  <2>2. b # a /\ memoryCall'[b] = memoryCall[b]
    BY <1>1, <2>1
  <2>3. /\ memoryCall[b].id # 0
        /\ memory'[memoryCall[b].id] = memory[memoryCall[b].id]
        /\ memory[memoryCall[b].id] \in 1..inserted
        /\ Undisturbed(memory[memoryCall[b].id])
    BY <1>7, <1>8, <2>1, <2>2 DEF Undisturbed
  <2>4. CASE i \in rows
    BY <1>2, <1>5, <1>9, <2>1, <2>2, <2>3, <2>4 DEF ReadIsTheOnly
  <2>5. CASE i = n
    <3>1. m = memory[memoryCall[b].id]
      BY <1>5, <2>1, <2>2, <2>3, <2>5
    <3>2. memoryCall[a].op = "update"
      BY <1>3, <1>6, <2>3, <3>1
    <3>3. memoryCall[a].id # 0 /\ memory[memoryCall[a].id] = memory[memoryCall[b].id]
      BY <1>6, <1>8, <3>1, <3>2
    <3>4. a = b
      BY <1>2, <2>3, <3>3 DEF CallsMeetNowhere
    <3>5. QED
      BY <2>2, <3>4
  <2>6. QED
    BY <1>4, <2>4, <2>5
<1>20. QED
  BY <1>11, <1>12, <1>13, <1>14, <1>15, <1>17, <1>18, <1>19 DEF MemoryInv

LEMMA InsertKeepsInv ==
  ASSUME MemoryInv, NEW a \in Agents, Memory!Insert(a)
  PROVE  MemoryInv'
<1> DEFINE none == [op |-> "none", step |-> "idle", id |-> 0, cat |-> "semantic"]
           deletes == [memoryCall[a] EXCEPT !.step = "delete"]
<1>1. /\ none \in MemoryCalls /\ none.op = "none" /\ none.step = "idle" /\ none.id = 0
      /\ Memory!NoCall = none
  BY MemoryConstants DEF MemoryCalls, Memory!NoCall, Memory!None
<1>2. /\ UNCHANGED <<calls, removed, overlaps>> /\ memoryCall[a].step = "insert"
  BY DEF Memory!Insert
<1>3. memoryCall[a] \in MemoryCalls /\ memoryCall[a].op \in {"save", "update"}
  BY <1>2, MemoryFacts DEF MemoryInv, CallsFit
<1>4. /\ deletes \in MemoryCalls
      /\ deletes.op = memoryCall[a].op /\ deletes.id = memoryCall[a].id
      /\ deletes.step = "delete"
  BY <1>3 DEF MemoryCalls
<1>5. Memory!Returns(a) => memoryCall' = [memoryCall EXCEPT ![a] = none]
  BY <1>1 DEF Memory!Returns
<1>6. Memory!Goes(a, "delete") => memoryCall' = [memoryCall EXCEPT ![a] = deletes]
  BY <1>3, MemoryFacts DEF Memory!Goes
<1> HIDE DEF none, deletes
<1>7. CASE /\ inserted < MaxRows /\ Memory!InsertRow(a, inserted + 1)
           /\ memoryCall[a].op = "update" /\ Memory!Goes(a, "delete")
           /\ undeleted' = undeleted
  <2>1. memoryCall' = [memoryCall EXCEPT ![a] = deletes] /\ deletes.op = "update"
    BY <1>4, <1>6, <1>7
  <2>2. QED
    BY <1>2, <1>4, <1>7, <2>1, NewRowKeepsInv
<1>8. CASE /\ inserted < MaxRows /\ Memory!InsertRow(a, inserted + 1) /\ Memory!Returns(a)
           /\ undeleted' = IF memoryCall[a].op = "update"
                           THEN undeleted \cup {memory[memoryCall[a].id]} ELSE undeleted
  BY <1>1, <1>2, <1>5, <1>8, NewRowKeepsInv
<1>9. CASE Memory!Returns(a) /\ UNCHANGED <<rows, category, memory, inserted, undeleted>>
  BY <1>1, <1>2, <1>5, <1>9, CallGoesOnKeepsInv
<1>10. QED
  BY <1>3, <1>7, <1>8, <1>9 DEF Memory!Insert

(* The row of a removed memory goes, or the old one of an update.           *)
LEMMA DeleteKeepsInv ==
  ASSUME MemoryInv, NEW a \in Agents, Memory!Delete(a)
  PROVE  MemoryInv'
<1> DEFINE none == [op |-> "none", step |-> "idle", id |-> 0, cat |-> "semantic"]
           id == memoryCall[a].id
<1>1. /\ none \in MemoryCalls /\ none.op = "none" /\ none.step = "idle" /\ none.id = 0
      /\ Memory!NoCall = none
  BY MemoryConstants DEF MemoryCalls, Memory!NoCall, Memory!None
<1> HIDE DEF none
<1>2. /\ memoryCall' = [memoryCall EXCEPT ![a] = none] /\ memoryCall[a].step = "delete"
      /\ \/ rows' = rows \ {id} /\ undeleted' = undeleted
         \/ rows' = rows /\ undeleted' = undeleted \cup {memory[id]}
      /\ UNCHANGED <<category, memory, inserted, calls, removed, overlaps>>
  BY <1>1 DEF Memory!Delete, Memory!Returns
<1>3. /\ memoryCall' \in [Agents -> MemoryCalls] /\ memoryCall'[a] = none
      /\ \A b \in Agents : b # a => memoryCall'[b] = memoryCall[b]
  BY <1>1, <1>2, MemoryFacts
<1>4. /\ MemoryTypes /\ CallsFit /\ NewestIsKept /\ ReadIsCurrent
      /\ Memory!CategoryIsInherited /\ CallsMeetNowhere /\ TwoRowsAreUpdated /\ ReadIsTheOnly
  BY DEF MemoryInv
<1>5. /\ memoryCall[a].op \in {"update", "remove"} /\ id \in 1..inserted
      /\ memory[id] \in 1..inserted
  BY <1>2, <1>4, MemoryFacts DEF CallsFit
<1> HIDE DEF id
<1>6. CallsFit'
  BY <1>1, <1>2, <1>3, <1>4, MemoryFacts DEF CallsFit
<1>7. MemoryTypes'
  <2>1. \A b \in Agents :
          /\ memoryCall'[b].op \in {"none", "save", "update", "remove"}
          /\ memoryCall'[b].step \in {"idle", "get", "embed", "insert", "delete"}
          /\ memoryCall'[b].cat \in Categories
    BY <1>3 DEF MemoryCalls
  <2>2. \A b \in Agents : memoryCall'[b].id \in 0..inserted
    BY <1>2, <1>6 DEF CallsFit
  <2>3. rows' \subseteq 1..inserted /\ undeleted' \subseteq Memory!Ids
    BY <1>2, <1>4, <1>5, MemoryFacts DEF MemoryTypes, Memory!TypeOK
  <2>4. QED
    BY <1>2, <1>3, <1>4, <2>1, <2>2, <2>3 DEF MemoryTypes, Memory!TypeOK
<1>8. NewestIsKept'
  <2>1. ASSUME NEW i \in 1..inserted, memory[i] \notin removed
        PROVE  \E j \in rows' : i <= j /\ memory[j] = memory[i]
    <3>1. PICK j \in rows : i <= j /\ memory[j] = memory[i]
      BY <1>4, <2>1 DEF NewestIsKept
    <3>2. CASE j # id
      BY <1>2, <3>1, <3>2
    <3>3. CASE j = id
      <4>1. memoryCall[a].op = "update"
        BY <1>4, <1>5, <2>1, <3>1, <3>3 DEF NewestIsKept, id
      <4>2. PICK k \in 1..inserted : id < k /\ memory[k] = memory[id]
        BY <1>2, <1>4, <4>1 DEF NewestIsKept, id
      <4>3. PICK l \in rows : k <= l /\ memory[l] = memory[k]
        BY <1>4, <2>1, <3>1, <3>3, <4>2 DEF NewestIsKept
      <4>4. l \in Nat /\ k \in Nat /\ id \in Nat /\ i \in Nat /\ i <= id
        BY <1>5, <3>1, <3>3, MemoryFacts
      <4>5. l # id /\ i <= l
        BY <4>2, <4>3, <4>4
      <4>6. QED
        BY <1>2, <3>1, <3>3, <4>2, <4>3, <4>5
    <3>4. QED
      BY <3>2, <3>3
  <2>2. QED
    BY <1>1, <1>2, <1>3, <1>4, <2>1 DEF NewestIsKept
<1>9. ReadIsCurrent' /\ Memory!CategoryIsInherited' /\ CallsMeetNowhere'
  BY <1>1, <1>2, <1>3, <1>4
     DEF ReadIsCurrent, Memory!CategoryIsInherited, CallsMeetNowhere, Undisturbed
<1>10. TwoRowsAreUpdated'
  <2>1. SUFFICES ASSUME NEW i \in rows', NEW j \in rows', i # j, memory[i] = memory[j],
                        memory[i] \notin overlaps \cup undeleted'
                 PROVE  \E b \in Agents :
                          memoryCall'[b].step = "delete" /\ memoryCall'[b].id \in {i, j}
    BY <1>2 DEF TwoRowsAreUpdated, Undisturbed
  <2>2. i \in rows /\ j \in rows /\ Undisturbed(memory[i])
    BY <1>2, <2>1 DEF Undisturbed
  <2>3. PICK b \in Agents : memoryCall[b].step = "delete" /\ memoryCall[b].id \in {i, j}
    BY <1>4, <2>1, <2>2 DEF TwoRowsAreUpdated
  <2>4. b # a
    <3>1. SUFFICES ASSUME id \in {i, j} PROVE FALSE
      BY <2>3 DEF id
    <3>2. QED
      BY <1>2, <2>1, <3>1
  <2>5. QED
    BY <1>3, <2>3, <2>4
<1>11. ReadIsTheOnly'
  BY <1>1, <1>2, <1>3, <1>4 DEF ReadIsTheOnly, Undisturbed
<1>12. QED
  BY <1>6, <1>7, <1>8, <1>9, <1>10, <1>11 DEF MemoryInv

LEMMA MemoryNextInv == MemoryInv /\ [Memory!Next]_memoryVars => MemoryInv'
<1> SUFFICES ASSUME MemoryInv, [Memory!Next]_memoryVars PROVE MemoryInv'
  OBVIOUS
<1>1. CASE UNCHANGED memoryVars
  BY <1>1
     DEF memoryVars, MemoryInv, MemoryTypes, Memory!TypeOK, CallsFit, NewestIsKept,
         ReadIsCurrent, Memory!CategoryIsInherited, CallsMeetNowhere, TwoRowsAreUpdated,
         ReadIsTheOnly, Undisturbed
<1>2. QED
  BY <1>1, BeginKeepsInv, ReadKeepsInv, InsertKeepsInv, DeleteKeepsInv DEF Memory!Next

(* A set of numbers without two different ones has no two elements.         *)
LEMMA AtMostOne ==
  ASSUME NEW S, \A i, j \in S : i = j
  PROVE  Cardinality(S) \in {0, 1}
<1>1. CASE S = {}
  BY <1>1, FS_EmptySet
<1>2. CASE S # {}
  <2>1. PICK x : S = {x}
    BY <1>2
  <2>2. QED
    BY <2>1, FS_Singleton
<1>3. QED
  BY <1>1, <1>2

LEMMA MemoryInvImplies == MemoryInv => MemoryIsKept
<1> SUFFICES ASSUME MemoryInv PROVE MemoryIsKept
  OBVIOUS
<1>1. Memory!MemoryIsKept
  <2>1. SUFFICES ASSUME NEW m \in 1..inserted, memory[m] = m, m \notin removed
                 PROVE  \E i \in rows : memory[i] = m
    BY DEF Memory!MemoryIsKept, Memory!RowsOf
  <2>2. QED
    BY <2>1 DEF MemoryInv, NewestIsKept
<1>2. Memory!DuplicatesAreExplained
  <2>1. SUFFICES ASSUME NEW m \in 1..inserted,
                        m \notin overlaps \cup undeleted, ~ Memory!BusyWith(m)
                 PROVE  ~ (Memory!Cardinality(Memory!RowsOf(m)) > 1)
    BY DEF Memory!DuplicatesAreExplained
  <2>2. \A i, j \in Memory!RowsOf(m) : i = j
    <3>1. SUFFICES ASSUME NEW i \in rows, NEW j \in rows, memory[i] = m, memory[j] = m,
                          i # j
                   PROVE  FALSE
      BY DEF Memory!RowsOf
    <3>2. PICK a \in Agents : memoryCall[a].step = "delete" /\ memoryCall[a].id \in {i, j}
      BY <2>1, <3>1 DEF MemoryInv, TwoRowsAreUpdated, Undisturbed
    <3>3. memoryCall[a].id # 0 /\ memory[memoryCall[a].id] = m
      BY <3>1, <3>2, MemoryFacts
    <3>4. QED
      BY <2>1, <3>3 DEF Memory!BusyWith, Memory!None
  <2>3. Cardinality(Memory!RowsOf(m)) \in {0, 1}
    BY <2>2, AtMostOne
  <2>4. Memory!Cardinality(Memory!RowsOf(m)) = Cardinality(Memory!RowsOf(m))
    BY DEF Memory!Cardinality, Cardinality
  <2>5. QED
    BY <2>3, <2>4
<1>3. QED
  BY <1>1, <1>2 DEF MemoryInv, MemoryIsKept
-----------------------------------------------------------------------------
(***************************************************************************)
(* The notifications (Notifications).  Which entries a round has called is  *)
(* inductive when it is said at every point of the round: those before the  *)
(* one in hand that are subscribed to the event, and this one while it is   *)
(* being sent, in their order.                                              *)
(***************************************************************************)
(* The notifiers are those of the entries one by one, in their order.       *)
LEMMA EntriesFold ==
  ASSUME NEW n \in Nat, NEW q \in [1..n -> Notify!Notification], NEW base \in Seq(Notify!Notification)
  PROVE  \E h : /\ h[0] = base
                /\ \A i \in 1..n : h[i] = Notify!AddEntry(h[i - 1], q[i])
                /\ Notify!FoldLeft(Notify!AddEntry, base, q) = h[n]
<1> DEFINE A == Seq(Notify!Notification)
           F == [p \in (1..n) \X A |-> Notify!AddEntry(p[2], q[p[1]])]
           E(it) == [s \in SUBSET (1..n) |->
                       IF s = {} THEN base
                       ELSE Notify!AddEntry(it[s \ {Notify!Max(s)}], q[Notify!Max(s)])]
           g == CHOOSE it : it = E(it)
           h == [i \in 0..n |-> g[1..i]]
<1>0. \A S : Notify!Max(S) = Context!Max(S)
  BY DEF Notify!Max, Context!Max
<1>1. F \in [(1..n) \X A -> A]
  <2> SUFFICES ASSUME NEW a \in A, NEW n1 \in Notify!Notification PROVE Notify!AddEntry(a, n1) \in A
    OBVIOUS
  <2>1. QED
    BY DEF Notify!AddEntry
<1>2. \E it : it = E(it)
  <2>1. PICK f \in [SUBSET (1..n) -> A] : IsFold(f, n, base, F)
    <3> HIDE DEF A, F
    <3>1. base \in A
      BY DEF A
    <3>2. QED
      BY <1>1, <3>1, FoldExists
  <2>2. ASSUME NEW s \in SUBSET (1..n), s # {}
        PROVE  f[s] = Notify!AddEntry(f[s \ {Context!Max(s)}], q[Context!Max(s)])
    <3> DEFINE m == Context!Max(s)
               p == <<m, f[s \ {m}]>>
    <3>1. m \in 1..n
      BY <2>2, MaxIsElement
    <3>2. s \ {m} \in SUBSET (1..n)
      OBVIOUS
    <3> HIDE DEF m
    <3>3. p \in (1..n) \X A
      BY <3>1, <3>2, <2>1
    <3>4. F[p] = Notify!AddEntry(p[2], q[p[1]])
      BY <3>3
    <3>5. f[s] = F[p]
      BY <2>1, <2>2 DEF m, IsFold
    <3>6. QED
      BY <3>4, <3>5 DEF m
  <2>3. f = E(f)
    BY <1>0, <2>1, <2>2 DEF IsFold
  <2>4. QED
    BY <2>3
<1>3. g = E(g)
  <2> HIDE DEF E
  <2>1. QED
    BY <1>2
<1>4. Notify!FoldLeft(Notify!AddEntry, base, q) = g[1..n]
  BY DEF Notify!FoldLeft, Notify!MapThenFoldSet
<1> HIDE DEF g
<1>5. h[0] = base
  <2>1. 1..0 = {} /\ {} \in SUBSET (1..n)
    OBVIOUS
  <2>2. g[{}] = base
    BY <1>3, <2>1
  <2>3. QED
    BY <2>1, <2>2
<1>6. ASSUME NEW i \in 1..n PROVE h[i] = Notify!AddEntry(h[i - 1], q[i])
  <2>1. /\ 1..i \in SUBSET (1..n) /\ 1..i # {} /\ i \in Nat \ {0}
        /\ (1..i) \ {i} = 1..(i - 1) /\ i \in 0..n /\ i - 1 \in 0..n
    BY LastOfSegment
  <2>2. Notify!Max(1..i) = i
    BY <1>0, <2>1, MaxOfSegment
  <2>3. g[1..i] = Notify!AddEntry(g[1..(i - 1)], q[i])
    BY <1>3, <2>1, <2>2
  <2>4. QED
    BY <2>1, <2>3
<1>7. n \in 0..n
  OBVIOUS
<1>8. h[n] = g[1..n]
  BY <1>7
<1> HIDE DEF h
<1>9. QED
  BY <1>4, <1>5, <1>6, <1>8

(* However many notifications are left out, the others are a sequence.      *)
LEMMA EntriesAreASequence == Notify!Entries \in Seq(Notify!Notification)
<1>1. Configured \in Seq(Notify!Notification)
  BY PartAssumptions DEF Notify!NotificationsAssumption
<1> DEFINE n == Len(Configured)
<1>2. n \in Nat /\ Configured \in [1..n -> Notify!Notification] /\ << >> \in Seq(Notify!Notification)
  BY <1>1
<1>3. PICK h : /\ h[0] = << >>
               /\ \A i \in 1..n : h[i] = Notify!AddEntry(h[i - 1], Configured[i])
               /\ Notify!Entries = h[n]
  <2> HIDE DEF n
  <2>1. QED
    BY <1>2, EntriesFold DEF Notify!Entries
<1> DEFINE S == {i \in 0..n : h[i] \in Seq(Notify!Notification)}
<1> HIDE DEF n
<1>4. 0 \in S
  <2>1. 0 \in 0..n
    BY <1>2
  <2>2. h[0] \in Seq(Notify!Notification)
    BY <1>2, <1>3
  <2>3. QED
    BY <2>1, <2>2
<1>5. ASSUME NEW i \in 1..n, i - 1 \in S PROVE i \in S
  <2>1. Configured[i] \in Notify!Notification /\ h[i - 1] \in Seq(Notify!Notification)
    BY <1>2, <1>5
  <2>2. Notify!AddEntry(h[i - 1], Configured[i]) \in Seq(Notify!Notification)
    BY <2>1 DEF Notify!AddEntry
  <2>3. i \in 0..n
    BY <1>2
  <2>4. QED
    BY <1>3, <2>2, <2>3
<1>6. n \in S
  <2> HIDE DEF S
  <2>1. \A i \in 0..n : i \in S
    BY <1>2, <1>4, <1>5, BoundedInduction
  <2>2. n \in 0..n
    BY <1>2
  <2>3. QED
    BY <2>1, <2>2
<1>7. QED
  BY <1>3, <1>6 DEF S

(* The round has come to entry i and has called it if it is subscribed.     *)
Reached(i) == i < at \/ (i = at /\ sending # "no")

(* The calls of the round so far.                                           *)
CallsInOrder ==
  /\ \A i \in 1..Len(Notify!Entries) :
       (\E k \in DOMAIN attempts : attempts[k] = i) <=> Notify!Subscribed(i) /\ Reached(i)
  /\ \A k \in DOMAIN attempts : attempts[k] \in 1..Len(Notify!Entries) /\ Reached(attempts[k])
  /\ \A j, k \in DOMAIN attempts : j < k => attempts[j] < attempts[k]

(* Something is sent only in a round, to an entry there is.                 *)
NotifyInv ==
  /\ Notify!TypeOK
  /\ attempts \in Seq(Nat)
  /\ sending # "no" => event # "none" /\ at <= Len(Notify!Entries)
  /\ event # "none" => CallsInOrder

(* There is no round yet.                                                   *)
LEMMA NotifyInitInv == Notify!Init => NotifyInv
<1>1. Len(Notify!Entries) \in Nat
  BY EntriesAreASequence
<1>2. ASSUME Notify!Init PROVE NotifyInv
  <2>1. /\ fires = 0 /\ event = "none" /\ at = 1
        /\ sending = "no" /\ attempts = <<>> /\ fireCancelled = FALSE
    BY <1>2 DEF Notify!Init
  <2>2. MaxFires \in Nat /\ 0 \in 0..MaxFires /\ 1 \in 1..(Len(Notify!Entries) + 1)
    BY <1>1, PartAssumptions DEF Notify!NotificationsAssumption
  <2>3. Notify!TypeOK
    BY <2>1, <2>2 DEF Notify!TypeOK
  <2>4. attempts \in Seq(Nat)
    BY <2>1
  <2>5. QED
    BY <2>1, <2>3, <2>4 DEF NotifyInv
<1>3. QED
  BY <1>2

(* Every step of the round, of a client or of the mail server keeps it.     *)
LEMMA NotifyNextInv == NotifyInv /\ [Notify!Next]_notifyVars => NotifyInv'
<1> SUFFICES ASSUME NotifyInv, [Notify!Next]_notifyVars PROVE NotifyInv'
  OBVIOUS
<1> DEFINE n == Len(Notify!Entries)
<1>1. /\ n \in Nat /\ MaxFires \in Nat /\ n' = n
      /\ Notify!Entries' = Notify!Entries
  BY EntriesAreASequence, PartAssumptions DEF Notify!NotificationsAssumption
<1>2. /\ fires \in 0..MaxFires /\ event \in LoopEvents \cup {"none"} /\ at \in 1..(n + 1)
      /\ sending \in {"no", "connecting", "talking"} /\ fireCancelled \in BOOLEAN
      /\ attempts \in Seq(Nat)
  BY DEF NotifyInv, Notify!TypeOK
<1>3. CASE Notify!Call
  <2> DEFINE l == Len(attempts)
  <2>1. /\ attempts' = Append(attempts, at) /\ sending' = "connecting"
        /\ UNCHANGED <<fires, event, at, fireCancelled>>
        /\ event # "none" /\ at <= n /\ sending = "no" /\ Notify!Subscribed(at)
    BY <1>3 DEF Notify!Call, Notify!InHand
  <2>2. /\ l \in Nat /\ DOMAIN attempts = 1..l /\ DOMAIN attempts' = 1..(l + 1)
        /\ attempts' \in Seq(Nat)
        /\ \A k \in 1..l : attempts'[k] = attempts[k]
        /\ attempts'[l + 1] = at
    BY <1>2, <2>1
  <2> HIDE DEF l
  <2>3. /\ \A i \in 1..n : (\E k \in 1..l : attempts[k] = i) <=>
                             Notify!Subscribed(i) /\ i < at
        /\ \A k \in 1..l : attempts[k] \in 1..n /\ attempts[k] < at
        /\ \A j, k \in 1..l : j < k => attempts[j] < attempts[k]
    BY <2>1, <2>2 DEF NotifyInv, CallsInOrder, Reached
  <2>4. \A k \in 1..(l + 1) : k \in 1..l \/ k = l + 1
    BY <2>2
  <2>5. l + 1 \in 1..(l + 1) /\ \A k \in 1..l : k \in 1..(l + 1)
    BY <2>2
  <2>6. \A i \in 1..n : (\E k \in 1..(l + 1) : attempts'[k] = i) <=>
                          Notify!Subscribed(i) /\ (i < at \/ i = at)
    <3>1. ASSUME NEW i \in 1..n
          PROVE  (\E k \in 1..(l + 1) : attempts'[k] = i) <=>
                   (\E k \in 1..l : attempts[k] = i) \/ i = at
      BY <2>2, <2>4, <2>5
    <3>2. QED
      BY <2>1, <2>3, <3>1
  <2>7. \A k \in 1..(l + 1) : attempts'[k] \in 1..n /\ (attempts'[k] < at \/ attempts'[k] = at)
    BY <1>1, <1>2, <2>1, <2>2, <2>3, <2>4
  <2>8. \A j, k \in 1..(l + 1) : j < k => attempts'[j] < attempts'[k]
    <3>1. SUFFICES ASSUME NEW j \in 1..(l + 1), NEW k \in 1..(l + 1), j < k
                   PROVE  attempts'[j] < attempts'[k]
      OBVIOUS
    <3>2. j \in 1..l
      BY <2>2, <3>1
    <3>3. QED
      BY <2>2, <2>3, <2>4, <3>1, <3>2
  <2>9. \A i : Notify!Subscribed(i)' <=> Notify!Subscribed(i)
    BY <1>1, <2>1 DEF Notify!Subscribed
  <2>10. Notify!TypeOK'
    <3>1. \A k \in DOMAIN attempts' : event' \in Notify!Entries[attempts'[k]].on
      BY <2>1, <2>2, <2>6, <2>7 DEF Notify!Subscribed
    <3>2. QED
      BY <1>1, <1>2, <2>1, <3>1 DEF Notify!TypeOK, Notify!Subscribed
  <2>11. QED
    BY <1>1, <2>1, <2>2, <2>6, <2>7, <2>8, <2>9, <2>10 DEF NotifyInv, CallsInOrder, Reached
<1>4. ASSUME event # "none", sending' = "no", at' = at + 1, at <= n,
             sending # "no" \/ ~ Notify!Subscribed(at),
             UNCHANGED <<fires, event, attempts, fireCancelled>>
      PROVE  NotifyInv'
  <2>1. at \in 1..n /\ at' \in 1..(n + 1) /\ \A i \in 1..n : i < at + 1 <=> i < at \/ i = at
    BY <1>1, <1>2, <1>4
  <2>2. CallsInOrder
    BY <1>4 DEF NotifyInv
  <2>3. \A i \in 1..n : Notify!Subscribed(i) => (Reached(i)' <=> Reached(i))
    BY <1>4, <2>1 DEF Reached
  <2>4. \A i : Notify!Subscribed(i)' <=> Notify!Subscribed(i)
    BY <1>1, <1>4 DEF Notify!Subscribed
  <2>5. \A k \in DOMAIN attempts : Notify!Subscribed(attempts[k])
    BY <1>4 DEF NotifyInv, Notify!TypeOK
  <2>6. CallsInOrder'
    <3>1. \A k \in DOMAIN attempts : attempts[k] \in 1..n /\ Reached(attempts[k])'
      <4>1. SUFFICES ASSUME NEW k \in DOMAIN attempts
                     PROVE  attempts[k] \in 1..n /\ Reached(attempts[k])'
        OBVIOUS
      <4>2. attempts[k] \in 1..n /\ Reached(attempts[k])
        BY <2>2 DEF CallsInOrder
      <4>3. attempts'[k] = attempts[k] /\ attempts[k]' = attempts[k]
        BY <1>4
      <4>4. attempts[k] < at + 1
        BY <1>2, <2>1, <4>2 DEF Reached
      <4>5. QED
        BY <1>4, <4>2, <4>3, <4>4 DEF Reached
    <3>2. \A i \in 1..n : (\E k \in DOMAIN attempts : attempts[k] = i) <=>
                             Notify!Subscribed(i)' /\ Reached(i)'
      BY <2>2, <2>3, <2>4 DEF CallsInOrder
    <3>3. QED
      BY <1>1, <1>4, <2>2, <3>1, <3>2 DEF CallsInOrder
  <2>7. Notify!TypeOK'
    BY <1>1, <1>2, <1>4, <2>1, <2>5 DEF Notify!TypeOK, Notify!Subscribed
  <2>8. QED
    BY <1>2, <1>4, <2>6, <2>7 DEF NotifyInv
<1>5. CASE Notify!Skip
  BY <1>4, <1>5 DEF Notify!Skip, Notify!InHand
<1>6. CASE Notify!HttpAnswer \/ Notify!HttpTimeout \/ Notify!MailRefused \/ Notify!MailAnswer
  <2>1. /\ sending # "no" /\ sending' = "no" /\ at' = at + 1
        /\ UNCHANGED <<fires, event, attempts, fireCancelled>>
    BY <1>6 DEF Notify!HttpAnswer, Notify!HttpTimeout, Notify!MailRefused, Notify!MailAnswer,
                Notify!Returned, Notify!NextEntry
  <2>2. event # "none" /\ at <= n
    BY <2>1 DEF NotifyInv
  <2>3. QED
    BY <1>4, <2>1, <2>2
<1>7. ASSUME NEW ev \in LoopEvents, Notify!Fire(ev) PROVE NotifyInv'
  <2>1. /\ fires' = fires + 1 /\ fires < MaxFires /\ event' = ev /\ at' = 1
        /\ sending' = "no" /\ attempts' = << >> /\ fireCancelled' = fireCancelled
    BY <1>7 DEF Notify!Fire
  <2>2. fires' \in 0..MaxFires /\ 1 \in 1..(n + 1) /\ \A i \in 1..n : ~ (i < 1)
    BY <1>1, <1>2, <2>1
  <2>3. Notify!TypeOK'
    BY <1>1, <1>2, <2>1, <2>2 DEF Notify!TypeOK
  <2>4. CallsInOrder'
    BY <1>1, <2>1, <2>2 DEF CallsInOrder, Reached
  <2>5. QED
    BY <2>1, <2>3, <2>4 DEF NotifyInv
<1>8. CASE Notify!MailConnected
  <2>1. /\ sending = "connecting" /\ sending' = "talking"
        /\ UNCHANGED <<fires, event, at, attempts, fireCancelled>>
    BY <1>8 DEF Notify!MailConnected
  <2>2. QED
    BY <1>1, <1>2, <2>1
       DEF NotifyInv, Notify!TypeOK, CallsInOrder, Reached, Notify!Subscribed
<1>9. CASE Notify!FireReturns
  <2>1. /\ event # "none" /\ at > n /\ event' = "none"
        /\ UNCHANGED <<fires, at, sending, attempts, fireCancelled>>
    BY <1>9 DEF Notify!FireReturns
  <2>2. sending = "no"
    BY <1>1, <1>2, <2>1 DEF NotifyInv
  <2>3. QED
    BY <1>1, <1>2, <2>1, <2>2 DEF NotifyInv, Notify!TypeOK
<1>10. CASE Notify!Cancel \/ UNCHANGED notifyVars
  <2>1. /\ UNCHANGED <<fires, event, at, sending, attempts>>
        /\ fireCancelled' \in BOOLEAN
    BY <1>2, <1>10 DEF Notify!Cancel, notifyVars
  <2>2. QED
    BY <1>1, <2>1 DEF NotifyInv, Notify!TypeOK, CallsInOrder, Reached, Notify!Subscribed
<1>11. QED
  BY <1>3, <1>5, <1>6, <1>7, <1>8, <1>9, <1>10 DEF Notify!Next

(* The step that ends the round finds every entry reached.                  *)
LEMMA NotifyStepCallsAll ==
  NotifyInv /\ [Notify!Next]_notifyVars =>
    (event # "none" /\ event' = "none" =>
       /\ Notify!ToSet(attempts) = {i \in 1..Len(Notify!Entries) : Notify!Subscribed(i)}
       /\ \A j, k \in DOMAIN attempts : j < k => attempts[j] < attempts[k])
<1> SUFFICES ASSUME NotifyInv, [Notify!Next]_notifyVars, event # "none", event' = "none"
             PROVE  /\ Notify!ToSet(attempts) =
                         {i \in 1..Len(Notify!Entries) : Notify!Subscribed(i)}
                    /\ \A j, k \in DOMAIN attempts : j < k => attempts[j] < attempts[k]
  OBVIOUS
<1> DEFINE n == Len(Notify!Entries)
<1>1. at > n
  BY DEF Notify!Next, Notify!Fire, Notify!Skip, Notify!Call, Notify!HttpAnswer,
         Notify!HttpTimeout, Notify!MailRefused, Notify!MailConnected, Notify!MailAnswer,
         Notify!Returned, Notify!FireReturns, Notify!Cancel, notifyVars
<1>2. n \in Nat /\ at \in Nat /\ CallsInOrder /\ \A i \in 1..n : i < at
  BY <1>1, EntriesAreASequence DEF NotifyInv, Notify!TypeOK
<1>3. \A i \in 1..n : (\E k \in DOMAIN attempts : attempts[k] = i) <=> Notify!Subscribed(i)
  BY <1>2 DEF CallsInOrder, Reached
<1>4. \A k \in DOMAIN attempts : attempts[k] \in 1..n
  BY <1>2 DEF CallsInOrder
<1>5. {attempts[k] : k \in DOMAIN attempts} = {i \in 1..n : Notify!Subscribed(i)}
  BY <1>3, <1>4
<1>6. Notify!ToSet(attempts) = {attempts[k] : k \in DOMAIN attempts}
  BY DEF Notify!ToSet
<1>7. QED
  BY <1>2, <1>5, <1>6 DEF CallsInOrder
-----------------------------------------------------------------------------
(***************************************************************************)
(* The retention of traces (TraceRetention), for every batch size and every *)
(* workload, whether the batches keep up with it or not.  The bound is not  *)
(* inductive: right before a batch nothing says how much the batch leaves.  *)
(* Backlog says it: what is expired has expired since the last batch, or is *)
(* the excess of an earlier one.                                            *)
(***************************************************************************)
RetentionInv == RetentionTypeOK /\ Backlog

(* A longer time lets no fewer rows expire.                                *)
LEMMA RowsGrowWithTime ==
  ASSUME NEW a \in Nat, NEW b \in Nat, a <= b
  PROVE  PerTick * a <= PerTick * b
  <1>1. PerTick \in Nat
    BY RetentionAssumption
  <1>2. PICK d \in Nat : b = a + d
    <2>1. b - a \in Nat /\ b = a + (b - a)
      OBVIOUS
    <2>2. QED
      BY <2>1
  <1>3. PerTick * (a + d) = PerTick * a + PerTick * d
    BY <1>1
  <1>4. PerTick * d \in Nat /\ PerTick * a \in Nat
    BY <1>1
  <1>5. QED
    BY <1>2, <1>3, <1>4

(* What one batch leaves behind is a number, and no batch leaves more of a  *)
(* round; the excess adds up.                                               *)
LEMMA ExcessIsCounted ==
  /\ PerRound \in Nat /\ Excess \in Nat
  /\ PerRound - Batch <= Excess
  /\ \A k \in Nat : k * Excess \in Nat /\ (k + 1) * Excess = k * Excess + Excess
  <1>1. PerTick \in Nat /\ Day + MaxQuiet \in Nat /\ Batch \in Nat
    BY RetentionAssumption
  <1>2. PerRound \in Nat
    BY <1>1 DEF PerRound
  <1>3. Excess \in Nat /\ PerRound - Batch <= Excess
    BY <1>1, <1>2 DEF Excess
  <1>4. \A k \in Nat : k * Excess \in Nat /\ (k + 1) * Excess = k * Excess + Excess
    BY <1>3
  <1>5. QED
    BY <1>2, <1>3, <1>4

(* However long ago the last batch was, no more than a round has expired    *)
(* since.                                                                   *)
LEMMA BacklogIsBounded ==
  ASSUME RetentionInv
  PROVE  BacklogBounded
  <1>1. /\ since \in 0..Day /\ quiet \in 0..MaxQuiet /\ expired \in Nat /\ batches \in Nat
        /\ Day \in Nat /\ MaxQuiet \in Nat /\ PerTick \in Nat
    BY RetentionAssumption DEF RetentionInv, RetentionTypeOK
  <1>2. since + quiet \in Nat /\ Day + MaxQuiet \in Nat
        /\ since + quiet <= Day + MaxQuiet
    BY <1>1
  <1>3. PerTick * (since + quiet) <= PerRound
    BY <1>2, RowsGrowWithTime DEF PerRound
  <1>4. PerTick * (since + quiet) \in Nat /\ PerRound \in Nat /\ batches * Excess \in Nat
    BY <1>1, <1>2, ExcessIsCounted
  <1>5. expired <= PerTick * (since + quiet) + batches * Excess
    BY DEF RetentionInv, Backlog
  <1>6. expired <= PerRound + batches * Excess
    BY <1>1, <1>3, <1>4, <1>5
  <1>7. QED
    BY <1>6 DEF BacklogBounded

(* Nothing is expired when the process starts.                             *)
LEMMA RetentionInitInv == RetentionInit => RetentionInv
  <1>1. /\ PerTick \in Nat /\ Day \in Nat /\ MaxQuiet \in Nat
    BY RetentionAssumption
  <1>2. ASSUME RetentionInit PROVE RetentionInv
    <2>1. PerTick * (Day + 0) \in Nat /\ 0 * Excess \in Nat
      BY <1>1, ExcessIsCounted
    <2>2. QED
      BY <1>1, <1>2, <2>1 DEF RetentionInit, RetentionInv, RetentionTypeOK, Backlog
  <1>3. QED
    BY <1>2

(* Every step keeps the invariant.                                         *)
LEMMA RetentionNextInv == RetentionInv /\ [RetentionNext]_retentionVars => RetentionInv'
  <1> SUFFICES ASSUME RetentionInv, [RetentionNext]_retentionVars PROVE RetentionInv'
    OBVIOUS
  <1>1. /\ since \in 0..Day /\ quiet \in 0..MaxQuiet /\ expired \in Nat /\ batches \in Nat
        /\ Day \in Nat \ {0} /\ MaxQuiet \in Nat \ {0}
        /\ PerTick \in Nat /\ Batch \in Nat
    BY RetentionAssumption DEF RetentionInv, RetentionTypeOK
  <1> DEFINE left == batches * Excess
  <1>2. expired <= PerTick * (since + quiet) + left
    BY DEF RetentionInv, Backlog
  <1>3. left \in Nat /\ (batches + 1) * Excess = left + Excess /\ Excess \in Nat
    BY <1>1, ExcessIsCounted
  <1>4. PerTick * (since + quiet) \in Nat
    BY <1>1
  <1> HIDE DEF left
  <1>5. CASE Tick
    <2>1. PICK n \in 0..PerTick : expired' = expired + n
      BY <1>5 DEF Tick
    <2>2. /\ since' + quiet' = (since + quiet) + 1 /\ batches' = batches
          /\ since' \in 0..Day /\ quiet' \in 0..MaxQuiet
      BY <1>1, <1>5 DEF Tick
    <2>3. PerTick * ((since + quiet) + 1) = PerTick * (since + quiet) + PerTick
      BY <1>1
    <2>4. PerTick * (since' + quiet') = PerTick * (since + quiet) + PerTick
      BY <2>2, <2>3
    <2>5. /\ expired + n <= PerTick * (since + quiet) + PerTick + left
          /\ expired + n \in Nat
      BY <1>1, <1>2, <1>3, <1>4
    <2>6. RetentionTypeOK'
      BY <1>1, <2>1, <2>2, <2>5 DEF RetentionTypeOK
    <2>7. expired' <= PerTick * (since' + quiet') + left
      BY <2>1, <2>4, <2>5
    <2>8. Backlog'
      BY <2>2, <2>7 DEF Backlog, left, Excess, PerRound
    <2>9. QED
      BY <2>6, <2>8 DEF RetentionInv
  <1>6. CASE CleanUp
    <2>1. /\ expired' = expired - Deleted(expired) /\ since' = 0 /\ quiet' = 0
          /\ batches' = batches + 1
      BY <1>6 DEF CleanUp
    <2>2. expired <= PerRound + left /\ PerRound \in Nat /\ PerRound - Batch <= Excess
      BY BacklogIsBounded, ExcessIsCounted DEF BacklogBounded, left
    <2>3. expired' \in Nat /\ expired' <= left + Excess
      <3>1. CASE expired <= Batch
        BY <1>1, <1>3, <2>1, <3>1 DEF Deleted
      <3>2. CASE ~ (expired <= Batch)
        <4>1. expired' = expired - Batch
          BY <2>1, <3>2 DEF Deleted
        <4>2. QED
          BY <1>1, <1>3, <2>2, <3>2, <4>1
      <3>3. QED
        BY <3>1, <3>2
    <2>4. PerTick * (0 + 0) = 0
      BY <1>1
    <2>5. expired' <= PerTick * (since' + quiet') + batches' * Excess
      BY <1>3, <2>1, <2>3, <2>4
    <2>6. QED
      BY <1>1, <2>1, <2>3, <2>5
         DEF RetentionInv, RetentionTypeOK, Backlog, Excess, PerRound
  <1>7. CASE CleanUpFails \/ UNCHANGED retentionVars
    BY <1>7 DEF CleanUpFails, retentionVars, RetentionInv, RetentionTypeOK, Backlog, Excess,
                PerRound
  <1>8. CASE Restart
    <2>1. /\ since' = Day /\ expired' = expired /\ quiet' = quiet /\ batches' = batches
          /\ since + quiet <= Day + quiet
      BY <1>1, <1>8 DEF Restart
    <2>2. PerTick * (since + quiet) <= PerTick * (Day + quiet)
      BY <1>1, <2>1, RowsGrowWithTime
    <2>3. PerTick * (Day + quiet) \in Nat
      BY <1>1
    <2>4. expired' <= PerTick * (since' + quiet') + left
      BY <1>1, <1>2, <1>3, <1>4, <2>1, <2>2, <2>3
    <2>5. QED
      BY <1>1, <2>1, <2>4
         DEF RetentionInv, RetentionTypeOK, Backlog, left, Excess, PerRound
  <1>9. QED
    BY <1>5, <1>6, <1>7, <1>8 DEF RetentionNext

(* However many rows expire, however many a batch deletes and however long  *)
(* it is put off: the expired rows are never more than those of one round   *)
(* and, for every batch so far, what a round has more than a batch: nothing *)
(* if the batches keep up with the workload (loop.runTraceRetention).       *)
THEOREM TraceTableIsBounded == RetentionSpec => []BacklogBounded
<1>1. RetentionSpec => []RetentionInv
  BY RetentionInitInv, RetentionNextInv, PTL DEF RetentionSpec
<1>2. QED
  BY <1>1, BacklogIsBounded, PTL

-----------------------------------------------------------------------------
(***************************************************************************)
(* All parts.  A step moves one of them and leaves the others alone, so     *)
(* each part takes a step of its own or stutters.                           *)
(***************************************************************************)
WorkInv ==
  /\ part \in Parts
  /\ EnrichmentInv
  /\ TriageFailsSafe /\ TriageTypes
  /\ TraceInv
  /\ ChecksInv
  /\ ReviewInv /\ Review!TypeOK
  /\ DeliveryIsResolved /\ Delivery!TypeOK
  /\ NotifyInv
  /\ MemoryInv
  /\ RetentionInv

LEMMA WorkInitInv == WorkInit => WorkInv
BY EnrichmentInitInv, TriageInitInv, TriageInitTypes, TraceInitInv, ChecksInitInv,
   ReviewInitInv, ReviewInitTypes, DeliveryInitInv, DeliveryInitTypes, NotifyInitInv,
   MemoryInitInv, RetentionInitInv
   DEF WorkInit, WorkInv

(* Each part takes a step of its own or none.                               *)
PartsMove ==
  /\ [Context!Next]_contextVars /\ [Decision!Next]_triageVars
  /\ TraceStep \/ UNCHANGED vars
  /\ [Checks!Next]_checksVars /\ [Review!Next]_reviewVars
  /\ [Delivery!Next]_deliveryVars /\ [Notify!Next]_notifyVars
  /\ [Memory!Next]_memoryVars /\ [RetentionNext]_retentionVars
  /\ UNCHANGED part

LEMMA WorkPartsMoveAlone == [WorkNext]_workVars => PartsMove
<1>1. CASE WorkNext
  <2>1. TraceStep
    BY <1>1 DEF WorkNext, TraceStep
  <2>2. /\ [Context!Next]_contextVars /\ [Decision!Next]_triageVars
        /\ [Checks!Next]_checksVars /\ [Review!Next]_reviewVars
        /\ [Delivery!Next]_deliveryVars /\ [Notify!Next]_notifyVars
        /\ [Memory!Next]_memoryVars /\ [RetentionNext]_retentionVars
        /\ UNCHANGED part
    BY <1>1 DEF WorkNext
  <2>3. QED
    BY <2>1, <2>2 DEF PartsMove
<1>2. CASE UNCHANGED workVars
  BY <1>2 DEF workVars, PartsMove
<1>3. QED
  BY <1>1, <1>2

LEMMA WorkNextInv == WorkInv /\ [WorkNext]_workVars => WorkInv'
<1> SUFFICES ASSUME WorkInv, PartsMove PROVE WorkInv'
  BY WorkPartsMoveAlone
<1>1. part' \in Parts
  BY DEF WorkInv, PartsMove
<1>2. EnrichmentInv'
  BY EnrichmentNextInv DEF WorkInv, PartsMove
<1>3. TriageFailsSafe' /\ TriageTypes'
  BY TriageNextInv, TriageNextTypes DEF WorkInv, PartsMove
<1>4. TraceInv'
  BY TraceNextInv DEF WorkInv, PartsMove
<1>5. ChecksInv'
  BY ChecksNextInv DEF WorkInv, PartsMove
<1>6. ReviewInv' /\ Review!TypeOK'
  BY ReviewNextInv, ReviewNextTypes DEF WorkInv, PartsMove
<1>7. DeliveryIsResolved' /\ Delivery!TypeOK'
  BY DeliveryNextInv, DeliveryNextTypes DEF WorkInv, PartsMove
<1>8. NotifyInv'
  BY NotifyNextInv DEF WorkInv, PartsMove
<1>9. MemoryInv'
  BY MemoryNextInv DEF WorkInv, PartsMove
<1>10. RetentionInv'
  BY RetentionNextInv DEF WorkInv, PartsMove
<1>11. QED
  BY <1>1, <1>2, <1>3, <1>4, <1>5, <1>6, <1>7, <1>8, <1>9, <1>10 DEF WorkInv

LEMMA WorkInvAlways == WorkSpec => []WorkInv
BY WorkInitInv, WorkNextInv, PTL DEF WorkSpec

(* Every variable of every part stays of its type, for every value of the   *)
(* constants: with it, a decision has a level the loop knows, a target a    *)
(* provider and a repository, a buffer fewer events than a batch.           *)
THEOREM WorkIsTyped == WorkSpec => []WorkTypeOK
<1>1. WorkInv => WorkTypeOK
  BY TraceInvImplies
     DEF WorkInv, WorkTypeOK, EnrichmentInv, TriageTypes, ChecksInv, ChecksTypes, NotifyInv,
         MemoryInv, MemoryTypes, RetentionInv
<1>2. QED
  BY WorkInvAlways, <1>1, PTL

(* What a signal is enriched with is what the replies said, as far as they   *)
(* were read, whatever the limits: the error context keeps the tail and the  *)
(* first errors of as much of the log as was read, a diff is whole or absent *)
(* for the files listed, a flake is one among the runs of the page           *)
(* (gitlabci.go:208-439).  A log longer than 64 KiB loses its end before.    *)
THEOREM EnrichmentHolds == WorkSpec => []EnrichmentIsFaithful
<1>1. WorkInv => EnrichmentIsFaithful
  BY DEF WorkInv, EnrichmentInv, EnrichmentIsFaithful
<1>2. QED
  BY WorkInvAlways, <1>1, PTL

(* A round of notifications calls every subscriber once, in the order of    *)
(* the configuration, whatever a notifier before it did, for every list of  *)
(* notifications and every sequence of events (notify.go:97-109).           *)
THEOREM EverySubscriberCalled == WorkSpec => SubscribersAreCalled
<1>1. WorkInv /\ [WorkNext]_workVars =>
        (event # "none" /\ event' = "none" =>
           /\ Notify!ToSet(attempts) = {i \in 1..Len(Notify!Entries) : Notify!Subscribed(i)}
           /\ \A j, k \in DOMAIN attempts : j < k => attempts[j] < attempts[k])
  BY NotifyStepCallsAll, WorkPartsMoveAlone DEF WorkInv, PartsMove
<1>2. QED
  BY <1>1, WorkInvAlways, PTL
     DEF WorkSpec, SubscribersAreCalled, Notify!EverySubscriberIsCalled

(* Triage that fails neither drops a signal nor ships a change: a signal is *)
(* dropped only for an answer that decodes, as null or as the one object it *)
(* has, and does not ask for a repair; a change is shipped only if an       *)
(* object of the answer names its type and the operator has configured that *)
(* level for it (triage.go:47-235).  That an object without should_act is   *)
(* enough to drop a signal is part of the statement.                        *)
THEOREM TriageIsSafe == WorkSpec => []TriageFailsSafe
<1>1. WorkInv => TriageFailsSafe
  BY DEF WorkInv
<1>2. QED
  BY WorkInvAlways, <1>1, PTL

(* No request of an agent run is counted twice against the budget, each is  *)
(* when nothing failed, and no run but the reviewer's begins a request after *)
(* its usage could not be stored, whether traces are stored or not          *)
(* (loop.go:462, 572, collector.go:225-260).                                *)
THEOREM SpendAccounted == WorkSpec => []SpendIsAccounted
<1>1. WorkInv => SpendIsAccounted
  BY TraceInvImplies DEF WorkInv
<1>2. QED
  BY WorkInvAlways, <1>1, PTL

(* The rows of a trace are its first events, all of them after a run        *)
(* without a failure, whether traces are stored, switched off, or come from  *)
(* a runtime that does not report its requests one by one; and the expired  *)
(* rows of the table exceed those of a round only by the excess of each      *)
(* batch so far (collector.go:290-331, loop.go:982-1004).                    *)
THEOREM TracesAreSound ==
  WorkSpec => [](StoredIsInitialSegment /\ DrainedIsComplete /\ BacklogBounded)
<1>1. WorkInv => StoredIsInitialSegment /\ DrainedIsComplete /\ BacklogBounded
  BY TraceInvImplies, BacklogIsBounded DEF WorkInv
<1>2. QED
  BY WorkInvAlways, <1>1, PTL

(* With traces stored, switched off or summed up, and whatever call of the   *)
(* database fails or is answered wrongly: the collector writes a trace the   *)
(* way DurableTrace promises (collector.go:290-331).                         *)
THEOREM TracesAreDurable == WorkSpec => TraceIsDurable
<1>1. WorkInit => Log!Init
  BY DEF WorkInit, Init, Log!Init, LogState
<1>2. WorkInv /\ WorkInv' /\ [WorkNext]_workVars => [Log!Next]_(Log!vars)
  BY TraceStepKeepsLog, WorkPartsMoveAlone DEF WorkInv, PartsMove
<1>3. QED
  BY <1>1, <1>2, WorkInvAlways, PTL DEF WorkSpec, TraceIsDurable, Log!Spec

(* No command fails for the length of its output, what is missing from it   *)
(* is marked, a timeout leaves no process of the group, and only the last   *)
(* result may be a failure (verification.go:97-190).                        *)
THEOREM ResultsTellTheTruth == WorkSpec => []ResultsAreTrue
<1>1. WorkInv => ResultsAreTrue
  BY DEF WorkInv, ChecksInv
<1>2. QED
  BY WorkInvAlways, <1>1, PTL

(* A pass or a rejection was said by the model in the phase that decides,   *)
(* and a review is incomplete only after the reserved request was made, or  *)
(* when the caller went away (evaluate.go:151-304).                         *)
THEOREM VerdictsWereSaid == WorkSpec => []VerdictWasSaid
<1>1. WorkInv => VerdictWasSaid
  BY DEF WorkInv, ReviewInv
<1>2. QED
  BY WorkInvAlways, <1>1, PTL

(* A review stays within its requests, runs no call twice and reports the   *)
(* usage of every request (evaluate.go:254-456).                            *)
THEOREM ReviewsAreBounded == WorkSpec => []ReviewIsBounded
<1>1. WorkInv => ReviewIsBounded
  BY ReviewInvBounds DEF WorkInv
<1>2. QED
  BY WorkInvAlways, <1>1, PTL

(* The change request is opened where the branch was pushed, and nothing    *)
(* about the target is assumed (delivery.go:60-135).                        *)
THEOREM DeliveryMeetsBranch == WorkSpec => []DeliveryIsResolved
<1>1. WorkInv => DeliveryIsResolved
  BY DEF WorkInv
<1>2. QED
  BY WorkInvAlways, <1>1, PTL

(* A saved memory is never without a row until it is removed, keeps its     *)
(* category, and has two rows only when two calls met or a deletion failed  *)
(* (store_adapter.go:146-190).                                              *)
THEOREM MemoriesAreKept == WorkSpec => []MemoryIsKept
<1>1. WorkInv => MemoryIsKept
  BY MemoryInvImplies DEF WorkInv
<1>2. QED
  BY WorkInvAlways, <1>1, PTL

=============================================================================
