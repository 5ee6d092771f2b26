----------------------------- MODULE AgentTrace -----------------------------
(***************************************************************************)
(* internal/agenttrace: the collector that numbers, buffers and stores the  *)
(* events of one agent run and meters its model requests, with the runtime  *)
(* that emits them, the loop that drains them and the database that may     *)
(* fail at every call (loop.go:429-474, 556-580, 953-974; store/trace.go).  *)
(***************************************************************************)
EXTENDS Integers, Sequences, FiniteSets

CONSTANTS
  Roles,       \* of "coding", "evaluator", "reviewer"
  Enabled,     \* agent_traces.enabled
  Capture,     \* "none", "final-only" or "all-visible"
  PerRequest,  \* does the runtime report the usage of every request, or the sum
  MaxPending,  \* maxPendingEvents
  MaxRequests, \* bound: model requests of a run
  MaxSequence, \* bound: text and tool events
  QueueCap     \* capacity of the event channel

ASSUME TraceAssumption ==
  /\ Roles \subseteq {"coding", "evaluator", "reviewer"}
  /\ {Enabled, PerRequest} \subseteq BOOLEAN
  /\ Capture \in {"none", "final-only", "all-visible"}
  /\ MaxPending \in Nat \ {0}
  /\ {MaxRequests, MaxSequence, QueueCap} \subseteq Nat

Requests == 1..MaxRequests

\* What a database call may do: succeed, fail, or commit and lose the answer.
Results == {"ok", "failed", "lost"}

VARIABLES
  role,
  running,   \* the runtime may still emit
  requested, \* model requests begun
  open,      \* a request is under way
  cancelled, \* the loop has cancelled the runtime
  queue,     \* events on their way to the loop
  trace,     \* the collector: sequence, text, pending, failed, requests
  stored,    \* sequence numbers in agent_trace_events
  metered,   \* requests in agent_request_usage
  fallback,  \* requests summed up in a "usage" task event
  spent,     \* what the aggregate of the run reports, for the fallback
  phase,     \* of the loop: "draining", "drained" or "done"; or "crashed"
  begunLate  \* ghost: a request began after the loop knew of a failure

vars == <<role, running, requested, open, cancelled, queue, trace, stored, metered,
          fallback, spent, phase, begunLate>>

Events == {"text", "tool", "usage", "terminal"}

TypeOK ==
  /\ role \in Roles
  /\ {running, open, cancelled, begunLate} \subseteq BOOLEAN
  /\ requested \in 0..MaxRequests
  /\ queue \in Seq(Events) /\ Len(queue) <= QueueCap
  /\ trace.sequence \in Nat /\ trace.requests \in Nat
  /\ {trace.text, trace.failed} \subseteq BOOLEAN
  /\ trace.pending \subseteq 1..trace.sequence
  /\ Cardinality(trace.pending) < MaxPending
  /\ stored \subseteq 1..trace.sequence
  /\ metered \subseteq Requests
  /\ fallback \in 0..MaxRequests /\ spent \in 0..MaxRequests
  /\ phase \in {"draining", "drained", "done", "crashed"}

Init ==
  /\ role \in Roles
  /\ running = TRUE /\ requested = 0 /\ open = FALSE /\ cancelled = FALSE
  /\ queue = << >>
  /\ trace = [sequence |-> 0, text |-> FALSE, pending |-> {}, failed |-> FALSE, requests |-> 0]
  /\ stored = {} /\ metered = {} /\ fallback = 0 /\ spent = 0
  /\ phase = "draining"
  /\ begunLate = FALSE

-----------------------------------------------------------------------------
(* The runtime: requests, and the events it emits.  A cancelled one begins   *)
(* no new request, yet what it has emitted is still on its way.              *)

BeginRequest ==
  /\ running /\ ~ open /\ ~ cancelled /\ requested < MaxRequests
  /\ open' = TRUE
  /\ requested' = requested + 1
  /\ begunLate' = (begunLate \/ trace.failed)
  /\ UNCHANGED <<role, running, cancelled, queue, trace, stored, metered, fallback,
                 spent, phase>>

\* The answer: a usage event, when the runtime reports requests one by one.
EndRequest ==
  /\ running /\ open /\ Len(queue) < QueueCap
  /\ open' = FALSE
  /\ queue' = IF PerRequest THEN Append(queue, "usage") ELSE queue
  /\ UNCHANGED <<role, running, requested, cancelled, trace, stored, metered, fallback,
                 spent, phase, begunLate>>

\* Visible text, and a tool call, a tool result or a compaction.
Emit(e) ==
  /\ e \in {"text", "tool"}
  /\ running /\ Len(queue) < QueueCap
  /\ requested > 0 /\ trace.sequence + Len(queue) < MaxSequence
  /\ queue' = Append(queue, e)
  /\ UNCHANGED <<role, running, requested, open, cancelled, trace, stored, metered,
                 fallback, spent, phase, begunLate>>

\* The run ends, normally with a terminal event.
EndRun ==
  /\ running /\ ~ open /\ Len(queue) < QueueCap
  /\ running' = FALSE
  /\ \E e \in {<< >>, <<"terminal">>} : queue' = queue \o e
  /\ UNCHANGED <<role, requested, open, cancelled, trace, stored, metered, fallback,
                 spent, phase, begunLate>>

-----------------------------------------------------------------------------
(* The collector.  A state of it and of its rows is a record [t, s]: trace   *)
(* and stored; each step says what a database call gave it.                  *)

\* flushPending: the batch is one transaction and is given up when it fails.
FlushPending(c, result) ==
  IF c.t.pending = {} THEN c
  ELSE [t |-> [c.t EXCEPT !.pending = {}, !.failed = @ \/ result # "ok"],
        s |-> IF result = "failed" THEN c.s ELSE c.s \cup c.t.pending]

\* append: numbered at once, stored when the buffer is full.
AppendEvent(c, result) ==
  LET n == c.t.sequence + 1
      v == [c.t EXCEPT !.sequence = n, !.pending = @ \cup {n}]
      u == [c EXCEPT !.t = v]
  IN IF Cardinality(u.t.pending) < MaxPending THEN u ELSE FlushPending(u, result)

\* flushText: the text gathered so far becomes an event.
FlushText(c, result) ==
  IF ~ c.t.text \/ Capture = "none" THEN c
  ELSE IF Enabled THEN AppendEvent([c EXCEPT !.t.text = FALSE], result)
  ELSE [c EXCEPT !.t.text = FALSE]

\* requestUsage after its row was written.
AfterUsage(c, results) ==
  LET flushed == IF Capture = "all-visible" THEN FlushText(c, results[1]) ELSE c
  IN IF flushed.t.failed \/ ~ Enabled THEN flushed ELSE AppendEvent(flushed, results[2])

\* A terminal event: the text, the event, and all that is pending.
AfterTerminal(c, results) ==
  LET flushed == FlushText(c, results[1])
      numbered == IF flushed.t.failed THEN flushed ELSE AppendEvent(flushed, results[2])
  IN IF numbered.t.failed THEN numbered ELSE FlushPending(numbered, results[3])

-----------------------------------------------------------------------------
(* The loop hands the collector one event after the other; once it failed the *)
(* rest is drained unseen.                                                    *)

Current == [t |-> trace, s |-> stored]

\* The loops of the coding agent and of the evaluator do; the reviewer's only
\* stops handing events to the collector.
Cancels(failed) == failed /\ role # "reviewer"

Becomes(c) ==
  /\ trace' = c.t
  /\ stored' = c.s
  /\ cancelled' = (cancelled \/ Cancels(c.t.failed))

HandleText ==
  /\ trace' = [trace EXCEPT !.text = @ \/ (Enabled /\ Capture # "none")]
  /\ UNCHANGED <<stored, metered, cancelled>>

HandleTool ==
  /\ IF Enabled THEN \E result \in Results : Becomes(AppendEvent(Current, result))
     ELSE UNCHANGED <<trace, stored, cancelled>>
  /\ UNCHANGED metered

\* The request is counted, its row written, then the event numbered.
HandleUsage ==
  LET c == [Current EXCEPT !.t.requests = @ + 1]
      failed == [c EXCEPT !.t.failed = TRUE]
  IN \/ \E results \in [1..2 -> Results] :
          Becomes(AfterUsage(c, results)) /\ metered' = metered \cup {c.t.requests}
     \/ \E rows \in {metered, metered \cup {c.t.requests}} :
          Becomes(failed) /\ metered' = rows

HandleTerminal ==
  /\ IF Enabled
     THEN \E results \in [1..3 -> Results] : Becomes(AfterTerminal(Current, results))
     ELSE UNCHANGED <<trace, stored, cancelled>>
  /\ UNCHANGED metered

\* Mutant: what comes after a failure is recorded too.
DrainAll ==
  /\ phase = "draining" /\ queue # << >>
  /\ queue' = Tail(queue)
  /\ spent' = IF Head(queue) = "terminal" THEN requested ELSE spent
  /\ CASE Head(queue) = "text" -> HandleText
       [] Head(queue) = "tool" -> HandleTool
       [] Head(queue) = "usage" -> HandleUsage
       [] Head(queue) = "terminal" -> HandleTerminal
  /\ UNCHANGED <<role, running, requested, open, fallback, phase, begunLate>>

\* The loop sums up the aggregate of the run whatever the collector says.
Drain ==
  /\ phase = "draining" /\ queue # << >>
  /\ queue' = Tail(queue)
  /\ spent' = IF Head(queue) = "terminal" THEN requested ELSE spent
  /\ IF trace.failed THEN UNCHANGED <<trace, stored, metered, cancelled>>
     ELSE CASE Head(queue) = "text" -> HandleText
            [] Head(queue) = "tool" -> HandleTool
            [] Head(queue) = "usage" -> HandleUsage
            [] Head(queue) = "terminal" -> HandleTerminal
  /\ UNCHANGED <<role, running, requested, open, fallback, phase, begunLate>>

\* Flush, after the channel is closed.
Flush ==
  /\ phase = "draining" /\ ~ running /\ queue = << >>
  /\ \E result \in Results :
       LET c == FlushPending(Current, result) IN trace' = c.t /\ stored' = c.s
  /\ phase' = "drained"
  /\ UNCHANGED <<role, running, requested, open, cancelled, queue, metered, fallback,
                 spent, begunLate>>

\* Mutant: the usage event is written on top of the metered requests.
RecordSpendAlways ==
  /\ phase = "drained"
  /\ phase' = "done"
  /\ IF role # "reviewer"
     THEN \E total \in {0, spent} : fallback' = total
     ELSE UNCHANGED fallback
  /\ UNCHANGED <<role, running, requested, open, cancelled, queue, trace, stored, metered,
                 spent, begunLate>>

\* A "usage" task event when the collector saw no request; its error is ignored.
RecordSpend ==
  /\ phase = "drained"
  /\ phase' = "done"
  /\ IF role # "reviewer" /\ trace.requests = 0
     THEN \E total \in {0, spent} : fallback' = total
     ELSE UNCHANGED fallback
  /\ UNCHANGED <<role, running, requested, open, cancelled, queue, trace, stored, metered,
                 spent, begunLate>>

\* The process dies: the buffer is gone, the rows are not.
Crash ==
  /\ phase \in {"draining", "drained"}
  /\ phase' = "crashed"
  /\ running' = FALSE /\ open' = FALSE
  /\ queue' = << >>
  /\ trace' = [trace EXCEPT !.pending = {}, !.text = FALSE]
  /\ UNCHANGED <<role, requested, cancelled, stored, metered, fallback, spent, begunLate>>

Next ==
  \/ BeginRequest \/ EndRequest \/ \E e \in Events : Emit(e)
  \/ EndRun \/ Drain \/ Flush \/ RecordSpend \/ Crash

Spec == Init /\ [][Next]_vars

-----------------------------------------------------------------------------
(* Properties.                                                             *)

\* The stored events of a trace are always its first ones, without a gap, whatever
\* batch failed, was lost in a crash or committed without an answer
\* (collector.go:290-331, store/trace.go:61-104).
StoredIsInitialSegment == \A n \in stored : \A m \in 1..n : m \in stored

\* A run that was drained without a failure has stored everything it numbered
\* (collector.go:325-331).
DrainedIsComplete ==
  (phase \in {"drained", "done"} /\ ~ trace.failed) => stored = 1..trace.sequence

\* The collector keeps the trace as DurableTrace promises, whatever it buffers and
\* whichever call of the database fails (collector.go:290-331; loop.go:429-474).
\* The two properties above follow: they hold in DurableTrace.
LogState ==
  CASE phase = "crashed" -> "gone"
    [] phase = "draining" -> IF trace.failed THEN "failed" ELSE "open"
    [] OTHER -> IF trace.failed THEN "partial" ELSE "complete"

Log == INSTANCE DurableTrace
         WITH numbered <- trace.sequence, rows <- stored, state <- LogState

TraceIsDurable == Log!Spec

\* No request is counted twice against the budget: the summary event and the rows
\* exclude each other, and the sum is at most what was requested (loop.go:462,
\* 572, store/task.go:121-146).
SpendCountedOnce ==
  /\ metered = {} \/ fallback = 0
  /\ Cardinality(metered) + fallback <= requested

\* When nothing failed, every request the runtime reported is metered.
RequestsAreMetered ==
  (PerRequest /\ phase = "done" /\ ~ trace.failed) => metered = 1..requested

\* "Sidecar SHALL not continue initiating model requests after durable
\* request-usage persistence fails": the reviewer's run is not stopped
\* (loop.go:962), the others are.
NoRequestAfterFailure == role # "reviewer" => ~ begunLate

\* loop.go:571: the evaluator's spend is recorded "even on error - the tokens were
\* consumed": here the error is a failure to persist.
SpendIsRecorded ==
  (phase = "done" /\ role = "evaluator" /\ trace.failed /\ spent = requested) =>
    Cardinality(metered) + fallback = requested

=============================================================================
