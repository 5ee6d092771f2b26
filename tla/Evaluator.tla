----------------------------- MODULE Evaluator ------------------------------
(***************************************************************************)
(* internal/evaluate: the adversarial review of the staged diff.  A bounded *)
(* investigation with guarded tools, then, unless it gave a verdict, one    *)
(* reserved request without tools.  The runtime, its model and the event    *)
(* observer (the trace collector) may fail at any point.                    *)
(***************************************************************************)
EXTENDS Integers, Sequences

CONSTANTS
  Calls,            \* tool calls, equal ones being the same value
  Verified,         \* bash calls equivalent to a check that was already run
  MaxTurns,         \* workflow.evaluator.max_turns
  InvestigationCap, \* turns the investigation never exceeds: 8 in the code
  PerRequest        \* does the runtime report the usage of every request

EvaluatorAssumption ==
  /\ Verified \subseteq Calls
  /\ {MaxTurns, InvestigationCap} \subseteq Nat \ {0}
  /\ PerRequest \in BOOLEAN

VARIABLES
  phase,     \* "start", "investigate", "finalize" or "done"
  live,      \* the phase's runtime still runs
  next,      \* what it does next: "ask", "tool" or "end"
  turn,      \* requests of the phase
  requests,  \* requests of both
  text,      \* what the visible text of the phase parses as
  eventErr,  \* the phase's error event: "none", "boundary" or "other"
  seen,      \* how often the guard has seen each call, up to 3
  executed,  \* how often each call was executed
  forced,    \* the guard asked for finalization
  cancelled, \* the phase's context is done
  ctxDone,   \* the caller's context is done
  unstored,  \* the observer failed in this phase
  phaseUse,  \* usage summed up in the phase
  usage,     \* usage returned
  outcome,   \* "none", "pass", "reject", "incomplete" or "error"
  said,      \* ghost: what the model wrote in the phase besides prose
  failed     \* ghost: the runtime reported a failure of its own

run == <<live, next, turn, text, eventErr, cancelled, unstored, phaseUse, said>>
guard == <<seen, executed, forced>>
vars == <<phase, run, requests, guard, ctxDone, usage, outcome, failed>>

Most(a, b) == IF a < b THEN b ELSE a
Least(a, b) == IF a < b THEN a ELSE b

InvestigationTurns == Most(1, Least(MaxTurns - 1, InvestigationCap))

Limit == IF phase = "investigate" THEN InvestigationTurns ELSE 1

TypeOK ==
  /\ phase \in {"start", "investigate", "finalize", "done"}
  /\ {live, forced, cancelled, ctxDone, unstored, failed} \subseteq BOOLEAN
  /\ next \in {"ask", "tool", "end"}
  /\ turn \in 0..Most(1, InvestigationTurns)
  /\ phase \in {"investigate", "finalize"} => turn <= Limit
  /\ requests \in Nat /\ phaseUse \in Nat /\ usage \in Nat
  /\ text \in {"none", "pass", "reject", "broken"}
  /\ eventErr \in {"none", "boundary", "other"}
  /\ seen \in [Calls -> 0..3]
  /\ executed \in [Calls -> Nat]
  /\ outcome \in {"none", "pass", "reject", "incomplete", "error"}
  /\ (phase = "done") = (outcome # "none")

Idle ==
  /\ live = FALSE /\ next = "ask" /\ turn = 0 /\ text = "none" /\ eventErr = "none"
  /\ cancelled = FALSE /\ unstored = FALSE /\ phaseUse = 0 /\ said = << >>

Init ==
  /\ phase = "start" /\ Idle
  /\ requests = 0
  /\ seen = [c \in Calls |-> 0] /\ executed = [c \in Calls |-> 0] /\ forced = FALSE
  /\ ctxDone = FALSE /\ usage = 0 /\ outcome = "none" /\ failed = FALSE

-----------------------------------------------------------------------------
Decide(result) ==
  /\ phase' = "done"
  /\ outcome' = result

\* git diff fails, there is nothing to judge, or the runtime cannot be started.
NothingToRun ==
  /\ phase = "start"
  /\ \/ Decide("error") /\ UNCHANGED said
     \/ Decide("pass") /\ said' = <<"no diff">>
  /\ UNCHANGED <<live, next, turn, text, eventErr, cancelled, unstored, phaseUse,
                 requests, guard, ctxDone, usage, failed>>

StartPhase(p) ==
  /\ phase' = p
  /\ live' = TRUE /\ next' = "ask" /\ turn' = 0 /\ text' = "none" /\ eventErr' = "none"
  /\ cancelled' = ctxDone /\ unstored' = FALSE /\ phaseUse' = 0 /\ said' = << >>

Investigate ==
  /\ phase = "start"
  /\ StartPhase("investigate")
  /\ UNCHANGED <<requests, guard, ctxDone, usage, outcome, failed>>

-----------------------------------------------------------------------------
(* A phase of the runtime, and runPhase that observes its events.          *)

\* Mutant: the first verdict of the text counts.
FirstVerdict(t, f) == IF f = "prose" \/ t # "none" THEN t ELSE f

\* The text from its first brace to its last: two JSON objects do not parse.
Joined(t, f) == IF f = "prose" THEN t ELSE IF t = "none" THEN f ELSE "broken"

Observed(ok) ==
  /\ unstored' = (unstored \/ ~ ok)
  /\ cancelled' = (cancelled \/ ~ ok)

\* A request and its answer: text, its usage, and tools to call or the end.
Ask ==
  /\ live /\ next = "ask" /\ ~ cancelled /\ turn < Limit
  /\ turn' = turn + 1
  /\ requests' = requests + 1
  /\ phaseUse' = IF PerRequest THEN phaseUse + 1 ELSE phaseUse
  /\ next' \in {"tool", "end"}
  /\ \E f \in {"prose", "pass", "reject", "broken"} :
       /\ text' = Joined(text, f)
       /\ said' = IF f = "prose" THEN said ELSE Append(said, f)
  /\ \E ok \in BOOLEAN : Observed(ok)
  /\ UNCHANGED <<phase, live, eventErr, guard, ctxDone, usage, outcome, failed>>

\* Mutant: the first repetition is let through.
AllowedTwice(c) == seen[c] < 2 /\ c \notin Verified

\* check: a call runs once, and not at all when its result is known already.
Allowed(c) == seen[c] = 0 /\ c \notin Verified

\* A third equal call cancels the investigation.  The finalization has no tools.
CallTool ==
  /\ live /\ next = "tool"
  /\ next' = "ask"
  /\ \/ /\ phase = "investigate"
        /\ \E c \in Calls :
             /\ seen' = [seen EXCEPT ![c] = Least(3, @ + 1)]
             /\ executed' = IF Allowed(c) THEN [executed EXCEPT ![c] = @ + 1] ELSE executed
             /\ forced' = (forced \/ seen[c] >= 2)
             /\ cancelled' = (cancelled \/ seen[c] >= 2)
     \/ phase = "finalize" /\ UNCHANGED <<guard, cancelled>>
  /\ UNCHANGED <<phase, live, turn, text, eventErr, unstored, phaseUse, said, requests,
                 ctxDone, usage, outcome, failed>>

\* The aggregate of the run counts when its requests were not reported.
WithAggregate(n) == IF PerRequest THEN n ELSE n + turn

RunEnds(err) ==
  /\ live' = FALSE
  /\ eventErr' = err
  /\ UNCHANGED <<phase, next, turn, text, said, requests, guard, ctxDone, usage, outcome>>

Done ==
  /\ live /\ next = "end"
  /\ RunEnds("none")
  /\ phaseUse' = WithAggregate(phaseUse)
  /\ \E ok \in BOOLEAN : Observed(ok)
  /\ UNCHANGED failed

\* "maximum turns" is not shown to the observer.
TurnLimit ==
  /\ live /\ next = "ask" /\ turn = Limit
  /\ RunEnds("boundary")
  /\ UNCHANGED <<cancelled, unstored, phaseUse, failed>>

RuntimeFails ==
  /\ live
  /\ RunEnds("other")
  /\ failed' = TRUE
  /\ \E ok \in BOOLEAN : Observed(ok)
  /\ UNCHANGED phaseUse

\* A cancelled run ends with context.Canceled, or with an abort only.
RunCancelled ==
  /\ live /\ cancelled
  /\ \E err \in {"boundary", "none"} : RunEnds(err)
  /\ UNCHANGED <<cancelled, unstored, phaseUse, failed>>

ContextEnds ==
  /\ phase \in {"investigate", "finalize"} /\ ~ ctxDone
  /\ ctxDone' = TRUE /\ cancelled' = TRUE
  /\ UNCHANGED <<phase, live, next, turn, text, eventErr, unstored, phaseUse, said,
                 requests, guard, usage, outcome, failed>>

-----------------------------------------------------------------------------
(* What EvaluatePrepared... makes of a phase that has ended.               *)

Verdict == text \in {"pass", "reject"}

InvestigationDecides ==
  /\ phase = "investigate" /\ ~ live
  /\ \/ unstored /\ Decide("error")
     \/ ~ unstored /\ Verdict /\ Decide(text)
     \/ ~ unstored /\ ~ Verdict /\ eventErr = "other" /\ ~ forced /\ Decide("error")
  /\ usage' = phaseUse
  /\ UNCHANGED <<run, requests, guard, ctxDone, failed>>

Finalize ==
  /\ phase = "investigate" /\ ~ live
  /\ ~ unstored /\ ~ Verdict
  /\ eventErr # "other" \/ forced
  /\ usage' = phaseUse
  /\ \/ StartPhase("finalize") /\ UNCHANGED outcome
     \/ Decide("error") /\ UNCHANGED run
  /\ UNCHANGED <<requests, guard, ctxDone, failed>>

FinalizationDecides ==
  /\ phase = "finalize" /\ ~ live
  /\ usage' = usage + phaseUse
  /\ \/ (unstored \/ eventErr = "other") /\ Decide("error")
     \/ ~ unstored /\ eventErr = "boundary" /\ Decide("incomplete")
     \/ ~ unstored /\ eventErr = "none" /\ Decide(IF Verdict THEN text ELSE "incomplete")
  /\ UNCHANGED <<run, requests, guard, ctxDone, failed>>

Next ==
  \/ NothingToRun \/ Investigate
  \/ Ask \/ CallTool \/ Done \/ TurnLimit \/ RuntimeFails \/ RunCancelled \/ ContextEnds
  \/ InvestigationDecides \/ Finalize \/ FinalizationDecides

Spec == Init /\ [][Next]_vars

-----------------------------------------------------------------------------
(* Properties.                                                             *)

\* A pass or a rejection is the one and only JSON object the model wrote in the
\* deciding phase: never a verdict it later revised, never one of the phase
\* before, and never inferred (evaluate.go:151-185, 267-304).
VerdictWasSaid ==
  /\ outcome = "pass" => said \in {<<"pass">>, <<"no diff">>}
  /\ outcome = "reject" => said = <<"reject">>

\* A tool call is executed once in a review, however often it is repeated, and
\* one that repeats a deterministic check not at all (evaluate.go:403-456).
CallsRunOnce == \A c \in Calls : executed[c] <= IF c \in Verified THEN 0 ELSE 1

\* A review is given up as incomplete only after the reserved request was made,
\* unless the caller went away (evaluate.go:254-304).
IncompleteWasAsked == outcome = "incomplete" => ctxDone \/ turn = 1

\* The review never takes more requests than configured, the reserved one included
\* (evaluate.go:255-261); a limit of one is exceeded by one.
RequestsWithinLimit == requests <= Most(2, MaxTurns)

\* The usage returned is that of every request whose answer came, on every outcome
\* (evaluate.go:313-365), and never more.
UsageIsWhole ==
  /\ usage <= requests
  /\ (PerRequest /\ phase = "done") => usage = requests

\* "WHEN evaluation ends because of a provider, runtime, persistence, or
\* cancellation failure THEN Sidecar records evaluation_error".
FailureIsError == (phase = "done" /\ failed) => outcome = "error"

\* The same for a caller that went away before the review was decided.
CancellationIsError == (phase = "done" /\ ctxDone) => outcome # "incomplete"

\* "A valid verdict terminates the evaluator immediately. Sidecar does not permit
\* more investigation after receiving it."
VerdictEndsInvestigation == [][Verdict => UNCHANGED executed]_vars

=============================================================================
