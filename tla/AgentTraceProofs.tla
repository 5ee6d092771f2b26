------------------------- MODULE AgentTraceProofs -------------------------
(***************************************************************************)
(* What is stored of a trace is its beginning, for every capture mode,     *)
(* buffer size and number of requests.                                     *)
(* The property alone is not inductive: a batch is added to the rows, so   *)
(* the invariant must say what may be pending, and that is either nothing  *)
(* or exactly what comes after the stored rows.                            *)
(***************************************************************************)
EXTENDS AgentTrace, TLAPS, FiniteSetTheorems, FunctionTheorems

(* A state of the collector and its rows.                                  *)
Collectors ==
  [t : [sequence : Nat, text : BOOLEAN, pending : SUBSET Nat, failed : BOOLEAN,
        requests : Nat],
   s : SUBSET Nat]

(* The rows are the first k events and the buffer is empty or has the rest. *)
Segmented(c) ==
  \E k \in 0..c.t.sequence :
    /\ c.s = 1..k
    /\ c.t.pending \in {{}, (k+1)..c.t.sequence}

(* Nothing was given up: what is not stored is in the buffer.              *)
Whole(c) ==
  \E k \in 0..c.t.sequence :
    /\ c.s = 1..k
    /\ c.t.pending = (k+1)..c.t.sequence

Sound(c) ==
  /\ c \in Collectors
  /\ Segmented(c)
  /\ ~ c.t.failed => Whole(c)

IInv ==
  /\ Current \in Collectors
  /\ Segmented(Current)
  /\ phase # "crashed" /\ ~ trace.failed => Whole(Current)
  /\ phase \in {"drained", "done"} => trace.pending = {}
  /\ phase \in {"draining", "drained", "done", "crashed"}
  /\ queue \in Seq(Events)

-----------------------------------------------------------------------------
(* The steps of the collector.                                             *)

(* A batch that is written, lost or given up leaves a beginning.           *)
LEMMA FlushPendingSound ==
  ASSUME NEW c, Sound(c), NEW result \in Results
  PROVE  /\ Sound(FlushPending(c, result))
         /\ FlushPending(c, result).t.pending = {}
  <1> DEFINE d == FlushPending(c, result)
  <1>1. CASE c.t.pending = {}
    BY <1>1 DEF FlushPending
  <1>2. CASE c.t.pending # {}
    <2>1. PICK k \in 0..c.t.sequence :
            c.s = 1..k /\ c.t.pending = (k+1)..c.t.sequence
      BY <1>2 DEF Sound, Segmented
    <2>2. c \in Collectors
      BY DEF Sound
    <2>3. /\ d \in Collectors
          /\ d.t.pending = {} /\ d.t.sequence = c.t.sequence
          /\ d.t.failed = (c.t.failed \/ result # "ok")
          /\ d.s = IF result = "failed" THEN c.s ELSE c.s \cup c.t.pending
      BY <1>2, <2>2 DEF FlushPending, Collectors
    <2>4. c.t.sequence \in Nat /\ k \in Nat /\ k <= c.t.sequence
      BY <2>2 DEF Collectors
    <2>5. c.s \cup c.t.pending = 1..c.t.sequence
      BY <2>1, <2>4
    <2>6. Segmented(d)
      <3>1. CASE result = "failed"
        BY <2>1, <2>3, <3>1 DEF Segmented
      <3>2. CASE result # "failed"
        BY <2>3, <2>4, <2>5, <3>2 DEF Segmented
      <3>3. QED
        BY <3>1, <3>2
    <2>7. ~ d.t.failed => Whole(d)
      <3>1. SUFFICES ASSUME result = "ok" PROVE Whole(d)
        BY <2>3
      <3>2. d.s = 1..c.t.sequence
        BY <2>3, <2>5, <3>1
      <3>3. (c.t.sequence + 1)..c.t.sequence = {}
        BY <2>4
      <3>4. QED
        BY <2>3, <2>4, <3>2, <3>3 DEF Whole
    <2>8. QED
      BY <2>3, <2>6, <2>7 DEF Sound
  <1>3. QED
    BY <1>1, <1>2

(* A new event joins the buffer, which may be written then.                *)
LEMMA AppendEventSound ==
  ASSUME NEW c, Sound(c), ~ c.t.failed, NEW result \in Results
  PROVE  Sound(AppendEvent(c, result))
  <1> DEFINE n == c.t.sequence + 1
             v == [c.t EXCEPT !.sequence = n, !.pending = @ \cup {n}]
             u == [c EXCEPT !.t = v]
  <1>1. c \in Collectors /\ c.t.sequence \in Nat
    BY DEF Sound, Collectors
  <1>2. /\ u \in Collectors
        /\ u.t.sequence = n /\ u.t.pending = c.t.pending \cup {n}
        /\ u.s = c.s /\ u.t.failed = c.t.failed
    <2>1. u.t = [c.t EXCEPT !.sequence = n, !.pending = c.t.pending \cup {n}]
      <3> HIDE DEF v
      <3>1. u.t = v
        BY <1>1 DEF Collectors
      <3>2. QED
        BY <3>1 DEF v
    <2>2. u.s = c.s /\ u = [t |-> u.t, s |-> u.s]
      <3> HIDE DEF v
      <3>1. QED
        BY <1>1 DEF Collectors
    <2>3. n \in Nat /\ c.t.pending \cup {n} \in SUBSET Nat
      BY <1>1 DEF Collectors
    <2>4. /\ u.t.sequence = n /\ u.t.pending = c.t.pending \cup {n}
          /\ u.t.failed = c.t.failed /\ u.t.text = c.t.text
          /\ u.t.requests = c.t.requests
      BY <1>1, <2>1 DEF Collectors
    <2>5. u.t \in [sequence : Nat, text : BOOLEAN, pending : SUBSET Nat,
                   failed : BOOLEAN, requests : Nat]
      BY <1>1, <2>1, <2>3 DEF Collectors
    <2>6. QED
      BY <1>1, <2>2, <2>4, <2>5 DEF Collectors
  <1>3. PICK k \in 0..c.t.sequence :
          c.s = 1..k /\ c.t.pending = (k+1)..c.t.sequence
    BY DEF Sound, Whole
  <1>4. c.t.pending \cup {n} = (k+1)..n
    BY <1>1, <1>3
  <1>5. k \in 0..n
    BY <1>1, <1>3
  <1>6. Whole(u) /\ Segmented(u)
    BY <1>2, <1>3, <1>4, <1>5 DEF Whole, Segmented
  <1>7. Sound(u)
    BY <1>2, <1>6 DEF Sound
  <1>8. Sound(FlushPending(u, result))
    BY <1>7, FlushPendingSound
  <1>9. AppendEvent(c, result) = u \/ AppendEvent(c, result) = FlushPending(u, result)
    BY DEF AppendEvent
  <1>10. QED
    BY <1>7, <1>8, <1>9

(* Counting a request or gathering text touches neither buffer nor rows.   *)
LEMMA SameBufferSound ==
  ASSUME NEW c, Sound(c), NEW d \in Collectors,
         d.s = c.s, d.t.sequence = c.t.sequence, d.t.pending = c.t.pending,
         c.t.failed => d.t.failed
  PROVE  Sound(d)
  BY DEF Sound, Segmented, Whole

LEMMA FlushTextSound ==
  ASSUME NEW c, Sound(c), ~ c.t.failed, NEW result \in Results
  PROVE  Sound(FlushText(c, result))
  <1> DEFINE d == [c EXCEPT !.t.text = FALSE]
  <1>1. c \in Collectors
    BY DEF Sound
  <1>2. /\ d \in Collectors
        /\ d.s = c.s /\ d.t.sequence = c.t.sequence
        /\ d.t.pending = c.t.pending /\ d.t.failed = c.t.failed
    BY <1>1 DEF Collectors
  <1>3. Sound(d)
    BY <1>2, SameBufferSound
  <1>4. Sound(AppendEvent(d, result))
    BY <1>2, <1>3, AppendEventSound
  <1>5. FlushText(c, result) \in {c, d, AppendEvent(d, result)}
    BY DEF FlushText
  <1>6. QED
    BY <1>3, <1>4, <1>5

LEMMA AfterUsageSound ==
  ASSUME NEW c, Sound(c), ~ c.t.failed, NEW results \in [1..2 -> Results]
  PROVE  Sound(AfterUsage(c, results))
  <1> DEFINE flushed == IF Capture = "all-visible" THEN FlushText(c, results[1]) ELSE c
  <1>1. results[1] \in Results /\ results[2] \in Results
    OBVIOUS
  <1>2. Sound(flushed)
    BY <1>1, FlushTextSound
  <1>3. CASE flushed.t.failed \/ ~ Enabled
    BY <1>2, <1>3 DEF AfterUsage
  <1>4. CASE ~ (flushed.t.failed \/ ~ Enabled)
    <2>1. Sound(AppendEvent(flushed, results[2]))
      BY <1>1, <1>2, <1>4, AppendEventSound
    <2>2. QED
      BY <1>4, <2>1 DEF AfterUsage
  <1>5. QED
    BY <1>3, <1>4

LEMMA AfterTerminalSound ==
  ASSUME NEW c, Sound(c), ~ c.t.failed, NEW results \in [1..3 -> Results]
  PROVE  Sound(AfterTerminal(c, results))
  <1> DEFINE flushed == FlushText(c, results[1])
             numbered == IF flushed.t.failed THEN flushed
                         ELSE AppendEvent(flushed, results[2])
  <1>1. /\ results[1] \in Results /\ results[2] \in Results /\ results[3] \in Results
    OBVIOUS
  <1>2. Sound(flushed)
    BY <1>1, FlushTextSound
  <1>3. Sound(numbered)
    <2>1. CASE flushed.t.failed
      BY <1>2, <2>1
    <2>2. CASE ~ flushed.t.failed
      BY <1>1, <1>2, <2>2, AppendEventSound
    <2>3. QED
      BY <2>1, <2>2
  <1>4. Sound(FlushPending(numbered, results[3]))
    BY <1>1, <1>3, FlushPendingSound
  <1>5. AfterTerminal(c, results) \in {numbered, FlushPending(numbered, results[3])}
    BY DEF AfterTerminal
  <1>6. QED
    BY <1>3, <1>4, <1>5

-----------------------------------------------------------------------------
(* The steps of the loop.                                                  *)

LEMMA InitIInv == Init => IInv
  <1> SUFFICES ASSUME Init PROVE IInv
    OBVIOUS
  <1>1. /\ Current.s = {} /\ Current.t.pending = {} /\ Current.t.sequence = 0
        /\ Current \in Collectors
    BY DEF Init, Current, Collectors
  <1>2. 0 \in 0..0 /\ 1..0 = {} /\ (0+1)..0 = {}
    OBVIOUS
  <1>3. Whole(Current) /\ Segmented(Current)
    BY <1>1, <1>2 DEF Whole, Segmented
  <1>4. QED
    BY <1>1, <1>3 DEF Init, IInv

(* While the loop drains and nothing has failed, the collector is sound.   *)
LEMMA DrainKeepsIInv ==
  ASSUME IInv, Drain
  PROVE  IInv'
  <1>1. phase = "draining" /\ phase' = "draining"
    BY DEF Drain
  <1>2. SUFFICES Sound(Current')
    <2>1. queue' \in Seq(Events)
      BY DEF Drain, IInv
    <2>2. QED
      BY <1>1, <2>1 DEF IInv, Sound, Current
  <1>3. Sound(Current)
    BY <1>1 DEF IInv, Sound, Current
  <1>4. Current = [t |-> trace, s |-> stored] /\ Current' = [t |-> trace', s |-> stored']
    BY DEF Current
  <1>5. CASE trace' = trace /\ stored' = stored
    BY <1>3, <1>4, <1>5
  <1>6. CASE ~ trace.failed /\ HandleText
    <2>1. Current' = [Current EXCEPT !.t.text = @ \/ (Enabled /\ Capture # "none")]
      BY <1>3, <1>4, <1>6 DEF HandleText
    <2>2. /\ Current' \in Collectors
          /\ Current'.s = Current.s /\ Current'.t.sequence = Current.t.sequence
          /\ Current'.t.pending = Current.t.pending
          /\ Current'.t.failed = Current.t.failed
      BY <1>3, <2>1 DEF Sound, Collectors
    <2>3. QED
      BY <1>3, <2>2, SameBufferSound
  <1>7. CASE ~ trace.failed /\ HandleTool
    <2>1. CASE Enabled
      <3>1. PICK result \in Results : Becomes(AppendEvent(Current, result))
        BY <1>7, <2>1 DEF HandleTool
      <3>2. ~ Current.t.failed
        BY <1>4, <1>7
      <3>3. Sound(AppendEvent(Current, result))
        BY <1>3, <3>2, AppendEventSound
      <3>4. QED
        BY <1>4, <3>1, <3>3 DEF Becomes, Sound, Collectors
    <2>2. CASE ~ Enabled
      BY <1>5, <1>7, <2>2 DEF HandleTool
    <2>3. QED
      BY <2>1, <2>2
  <1>8. CASE ~ trace.failed /\ HandleUsage
    <2> DEFINE c == [Current EXCEPT !.t.requests = @ + 1]
               failed == [c EXCEPT !.t.failed = TRUE]
    <2>1. /\ c \in Collectors /\ failed \in Collectors
          /\ c.s = Current.s /\ c.t.sequence = Current.t.sequence
          /\ c.t.pending = Current.t.pending /\ c.t.failed = Current.t.failed
          /\ failed.s = Current.s /\ failed.t.sequence = Current.t.sequence
          /\ failed.t.pending = Current.t.pending /\ failed.t.failed = TRUE
      <3>1. Current \in Collectors
        BY <1>3 DEF Sound
      <3>2. /\ c.s = Current.s
            /\ c.t = [Current.t EXCEPT !.requests = Current.t.requests + 1]
        BY <3>1 DEF Collectors
      <3>3. c \in Collectors
        BY <3>1, <3>2 DEF Collectors
      <3>4. /\ failed.s = c.s
            /\ failed.t = [c.t EXCEPT !.failed = TRUE]
        BY <3>3 DEF Collectors
      <3>5. failed \in Collectors
        BY <3>3, <3>4 DEF Collectors
      <3>6. QED
        BY <3>1, <3>2, <3>3, <3>4, <3>5 DEF Collectors
    <2>2. Sound(c) /\ Sound(failed)
      BY <1>3, <2>1, SameBufferSound
    <2>3. ~ c.t.failed
      BY <1>4, <1>8, <2>1
    <2>4. PICK d : Sound(d) /\ Becomes(d)
      <3>1. CASE Becomes(failed)
        BY <2>2, <3>1
      <3>2. CASE \E results \in [1..2 -> Results] : Becomes(AfterUsage(c, results))
        BY <2>2, <2>3, <3>2, AfterUsageSound
      <3>3. QED
        BY <1>8, <3>1, <3>2 DEF HandleUsage
    <2>5. QED
      BY <1>4, <2>4 DEF Becomes, Sound, Collectors
  <1>9. CASE ~ trace.failed /\ HandleTerminal
    <2>1. CASE Enabled
      <3>1. PICK results \in [1..3 -> Results] : Becomes(AfterTerminal(Current, results))
        BY <1>9, <2>1 DEF HandleTerminal
      <3>2. ~ Current.t.failed
        BY <1>4, <1>9
      <3>3. Sound(AfterTerminal(Current, results))
        BY <1>3, <3>2, AfterTerminalSound
      <3>4. QED
        BY <1>4, <3>1, <3>3 DEF Becomes, Sound, Collectors
    <2>2. CASE ~ Enabled
      BY <1>5, <1>9, <2>2 DEF HandleTerminal
    <2>3. QED
      BY <2>1, <2>2
  <1>10. queue # << >> => Head(queue) \in Events
    BY DEF IInv
  <1>11. QED
    BY <1>5, <1>6, <1>7, <1>8, <1>9, <1>10 DEF Drain, Events

(* At the end of the run the buffer is written or given up.                *)
LEMMA FlushKeepsIInv ==
  ASSUME IInv, Flush
  PROVE  IInv'
  <1>1. Sound(Current)
    BY DEF IInv, Sound, Current, Flush
  <1>2. PICK result \in Results :
          /\ trace' = FlushPending(Current, result).t
          /\ stored' = FlushPending(Current, result).s
    BY DEF Flush
  <1>3. /\ Sound(FlushPending(Current, result))
        /\ FlushPending(Current, result).t.pending = {}
    BY <1>1, FlushPendingSound
  <1>4. Sound(Current')
    BY <1>2, <1>3 DEF Current, Sound, Collectors
  <1>5. phase' = "drained" /\ trace'.pending = {} /\ queue' = queue
    BY <1>2, <1>3 DEF Flush
  <1>6. QED
    BY <1>4, <1>5 DEF IInv, Sound, Current

(* A crash takes the buffer, never a row.                                  *)
LEMMA CrashKeepsIInv ==
  ASSUME IInv, Crash
  PROVE  IInv'
  <1>1. /\ trace' = [trace EXCEPT !.pending = {}, !.text = FALSE]
        /\ stored' = stored /\ phase' = "crashed" /\ queue' = << >>
    BY DEF Crash
  <1>2. Current \in Collectors /\ Segmented(Current)
    BY DEF IInv
  <1>3. /\ Current' \in Collectors
        /\ Current'.s = Current.s /\ Current'.t.sequence = Current.t.sequence
        /\ Current'.t.pending = {} /\ trace'.pending = {}
    BY <1>1, <1>2 DEF Current, Collectors
  <1>4. Segmented(Current')
    BY <1>2, <1>3 DEF Segmented
  <1>5. QED
    BY <1>1, <1>3, <1>4 DEF IInv

(* Every step keeps the invariant; the runtime only fills the queue.       *)
LEMMA NextIInv == IInv /\ [Next]_vars => IInv'
  <1> SUFFICES ASSUME IInv, [Next]_vars PROVE IInv'
    OBVIOUS
  <1>1. ASSUME UNCHANGED <<trace, stored, phase>>, queue' \in Seq(Events)
        PROVE  IInv'
    BY <1>1 DEF IInv, Current, Segmented, Whole, Collectors
  <1>2. queue \in Seq(Events)
    BY DEF IInv
  <1>3. CASE BeginRequest \/ UNCHANGED vars
    BY <1>1, <1>2, <1>3 DEF BeginRequest, vars
  <1>4. CASE EndRequest
    <2>1. queue' \in Seq(Events)
      BY <1>2, <1>4 DEF EndRequest, Events
    <2>2. QED
      BY <1>1, <1>4, <2>1 DEF EndRequest
  <1>5. ASSUME NEW e \in Events, Emit(e) PROVE IInv'
    <2>1. queue' \in Seq(Events)
      BY <1>2, <1>5 DEF Emit
    <2>2. QED
      BY <1>1, <1>5, <2>1 DEF Emit
  <1>6. CASE EndRun
    <2>1. PICK e \in {<< >>, <<"terminal">>} : queue' = queue \o e
      BY <1>6 DEF EndRun
    <2>2. CASE e = << >>
      <3>1. queue' = queue
        BY <1>2, <2>1, <2>2
      <3>2. QED
        BY <1>1, <1>2, <1>6, <3>1 DEF EndRun
    <2>3. CASE e = <<"terminal">>
      <3>1. queue' = Append(queue, "terminal")
        BY <1>2, <2>1, <2>3
      <3>2. queue' \in Seq(Events)
        BY <1>2, <3>1 DEF Events
      <3>3. QED
        BY <1>1, <1>6, <3>2 DEF EndRun
    <2>4. QED
      BY <2>1, <2>2, <2>3
  <1>7. CASE Drain
    BY <1>7, DrainKeepsIInv
  <1>8. CASE Flush
    BY <1>8, FlushKeepsIInv
  <1>9. CASE RecordSpend
    <2>1. UNCHANGED <<trace, stored, queue>> /\ phase = "drained" /\ phase' = "done"
      BY <1>9 DEF RecordSpend
    <2>2. QED
      BY <2>1 DEF IInv, Current, Segmented, Whole, Collectors
  <1>10. CASE Crash
    BY <1>10, CrashKeepsIInv
  <1>11. QED
    BY <1>3, <1>4, <1>5, <1>6, <1>7, <1>8, <1>9, <1>10 DEF Next

LEMMA SpecIInv == Spec => []IInv
  BY InitIInv, NextIInv, PTL DEF Spec

-----------------------------------------------------------------------------
LEMMA RowsAreABeginning == IInv => StoredIsInitialSegment
  <1>1. SUFFICES ASSUME IInv PROVE StoredIsInitialSegment
    OBVIOUS
  <1>2. PICK k \in 0..trace.sequence : stored = 1..k
    BY <1>1 DEF IInv, Segmented, Current
  <1>3. trace.sequence \in Nat
    BY <1>1 DEF IInv, Current, Collectors
  <1>4. QED
    BY <1>2, <1>3 DEF StoredIsInitialSegment

LEMMA DrainedRowsAreAll == IInv => DrainedIsComplete
  <1>1. SUFFICES ASSUME IInv, phase \in {"drained", "done"}, ~ trace.failed
                 PROVE  stored = 1..trace.sequence
    BY DEF DrainedIsComplete
  <1>2. trace.sequence \in Nat
    BY <1>1 DEF IInv, Current, Collectors
  <1>3. PICK k \in 0..trace.sequence :
          stored = 1..k /\ trace.pending = (k+1)..trace.sequence
    BY <1>1 DEF IInv, Whole, Current
  <1>4. k = trace.sequence
    <2>1. (k+1)..trace.sequence = {}
      BY <1>1, <1>3 DEF IInv
    <2>2. k < trace.sequence => k + 1 \in (k+1)..trace.sequence
      BY <1>2, <1>3
    <2>3. QED
      BY <1>2, <1>3, <2>1, <2>2
  <1>5. QED
    BY <1>3, <1>4

(* The stored events of a trace are always its first ones, without a gap,  *)
(* whatever batch failed, was lost in a crash or committed without an      *)
(* answer (collector.flushPending, append).                                *)
THEOREM StoredEventsAreABeginning == Spec => []StoredIsInitialSegment
  BY RowsAreABeginning, SpecIInv, PTL

(* A run that ends without a failure has stored each event it numbered     *)
(* (collector.Flush).                                                      *)
THEOREM DrainedTraceIsComplete == Spec => []DrainedIsComplete
  BY DrainedRowsAreAll, SpecIInv, PTL


-----------------------------------------------------------------------------
(***************************************************************************)
(* The spend.  That no request is counted twice is not inductive: what is  *)
(* still on its way to the collector would be counted on top.  The          *)
(* invariant counts the usage events of the queue and the request under     *)
(* way together with those that were counted.                               *)
(***************************************************************************)
Usages(q) == {i \in DOMAIN q : q[i] = "usage"}
Waiting == Cardinality(Usages(queue))
UnderWay == IF open THEN 1 ELSE 0

SpendTypes ==
  /\ {running, open, cancelled, begunLate} \subseteq BOOLEAN
  /\ requested \in Nat /\ spent \in 0..requested /\ fallback \in 0..requested
  /\ phase \in {"drained", "done"} => ~ running /\ queue = << >>
  /\ ~ running => ~ open

(* What was counted, is on its way or under way was requested.              *)
CountedOnce ==
  /\ trace.requests + Waiting + UnderWay <= requested
  /\ PerRequest /\ ~ trace.failed /\ phase # "crashed" =>
       trace.requests + Waiting + UnderWay = requested

(* The rows are those of the requests that were counted.                    *)
RowsAreCounted ==
  /\ metered \subseteq 1..trace.requests
  /\ ~ trace.failed => metered = 1..trace.requests
  /\ fallback # 0 => phase = "done" /\ trace.requests = 0

(* A failure has stopped the runtime, unless it is the reviewer's.          *)
FailureStops ==
  /\ trace.failed /\ role # "reviewer" => cancelled \/ ~ running
  /\ NoRequestAfterFailure

SpendInv == IInv /\ SpendTypes /\ CountedOnce /\ RowsAreCounted /\ FailureStops

(* The usage events of a queue are finitely many; one more, and one less.   *)
LEMMA UsagesAreFinite ==
  ASSUME NEW q \in Seq(Events)
  PROVE  IsFiniteSet(Usages(q)) /\ Cardinality(Usages(q)) \in Nat
<1>1. Usages(q) \subseteq 1..Len(q) /\ Len(q) \in Nat
  BY DEF Usages
<1>2. IsFiniteSet(1..Len(q))
  BY <1>1, FS_Interval
<1>3. QED
  BY <1>1, <1>2, FS_Subset, FS_CardinalityType

LEMMA AppendedUsage ==
  ASSUME NEW q \in Seq(Events), NEW e \in Events
  PROVE  Cardinality(Usages(Append(q, e))) =
           Cardinality(Usages(q)) + (IF e = "usage" THEN 1 ELSE 0)
<1>1. /\ Len(q) \in Nat /\ DOMAIN q = 1..Len(q)
      /\ DOMAIN Append(q, e) = 1..(Len(q) + 1)
      /\ \A i \in 1..Len(q) : Append(q, e)[i] = q[i]
      /\ Append(q, e)[Len(q) + 1] = e
  OBVIOUS
<1>2. CASE e = "usage"
  <2>1. Usages(Append(q, e)) = Usages(q) \cup {Len(q) + 1}
    BY <1>1, <1>2 DEF Usages
  <2>2. Len(q) + 1 \notin Usages(q)
    BY <1>1 DEF Usages
  <2>3. QED
    BY <1>2, <2>1, <2>2, UsagesAreFinite, FS_AddElement
<1>3. CASE e # "usage"
  <2>1. Usages(Append(q, e)) = Usages(q)
    BY <1>1, <1>3 DEF Usages
  <2>2. QED
    BY <1>3, <2>1, UsagesAreFinite
<1>4. QED
  BY <1>2, <1>3

LEMMA TakenUsage ==
  ASSUME NEW q \in Seq(Events), q # << >>
  PROVE  /\ Head(q) \in Events /\ Tail(q) \in Seq(Events)
         /\ Cardinality(Usages(q)) =
              Cardinality(Usages(Tail(q))) + (IF Head(q) = "usage" THEN 1 ELSE 0)
<1> DEFINE rest == {i \in Usages(q) : i # 1}
           f == [i \in Usages(Tail(q)) |-> i + 1]
<1>1. /\ Len(q) \in Nat /\ Len(q) # 0 /\ DOMAIN q = 1..Len(q)
      /\ Tail(q) \in Seq(Events) /\ DOMAIN Tail(q) = 1..(Len(q) - 1)
      /\ \A i \in 1..(Len(q) - 1) : Tail(q)[i] = q[i + 1]
      /\ Head(q) = q[1] /\ Head(q) \in Events
  OBVIOUS
<1>2. f \in Bijection(Usages(Tail(q)), rest)
  <2>1. \A i \in Usages(Tail(q)) : i \in Nat /\ i + 1 \in rest
    BY <1>1 DEF Usages
  <2>2. f \in [Usages(Tail(q)) -> rest]
    BY <2>1
  <2>3. \A i, j \in Usages(Tail(q)) : f[i] = f[j] => i = j
    BY <2>1
  <2>4. \A j \in rest : j - 1 \in Usages(Tail(q)) /\ f[j - 1] = j
    BY <1>1 DEF Usages
  <2> HIDE DEF f, rest
  <2>5. QED
    BY <2>2, <2>3, <2>4, Fun_IsBij
<1>3. Cardinality(rest) = Cardinality(Usages(Tail(q)))
  <2> HIDE DEF f, rest
  <2>1. ExistsBijection(Usages(Tail(q)), rest)
    BY <1>2, Fun_ExistsBij
  <2>2. QED
    BY <1>1, <2>1, UsagesAreFinite, FS_Bijection
<1>4. CASE Head(q) = "usage"
  <2>1. 1 \in Usages(q) /\ rest = Usages(q) \ {1}
    BY <1>1, <1>4 DEF Usages
  <2> HIDE DEF rest
  <2>2. IsFiniteSet(Usages(q)) /\ Cardinality(Usages(q)) \in Nat
    BY UsagesAreFinite
  <2>3. Cardinality(rest) = Cardinality(Usages(q)) - 1
    BY <2>1, <2>2, FS_RemoveElement
  <2>4. Cardinality(Usages(q)) = Cardinality(Usages(Tail(q))) + 1
    BY <1>3, <2>2, <2>3
  <2>5. QED
    BY <1>1, <1>4, <2>4
<1>5. CASE Head(q) # "usage"
  <2>1. rest = Usages(q)
    BY <1>1, <1>5 DEF Usages
  <2> HIDE DEF rest
  <2>2. QED
    BY <1>1, <1>3, <1>5, <2>1, UsagesAreFinite
<1>6. QED
  BY <1>1, <1>4, <1>5

-----------------------------------------------------------------------------
(* The collector counts a request in HandleUsage only, and a failure of it  *)
(* lasts.                                                                   *)
SameCount(c, d) ==
  /\ d \in Collectors
  /\ d.t.requests = c.t.requests
  /\ c.t.failed => d.t.failed

LEMMA FlushPendingCounts ==
  ASSUME NEW c \in Collectors, NEW result \in Results
  PROVE  SameCount(c, FlushPending(c, result))
<1> DEFINE t == [c.t EXCEPT !.pending = {}, !.failed = @ \/ result # "ok"]
           s == IF result = "failed" THEN c.s ELSE c.s \cup c.t.pending
<1>1. /\ t.requests = c.t.requests /\ t.failed = (c.t.failed \/ result # "ok")
      /\ t \in [sequence : Nat, text : BOOLEAN, pending : SUBSET Nat, failed : BOOLEAN,
                requests : Nat]
      /\ s \in SUBSET Nat
  BY DEF Collectors
<1>2. FlushPending(c, result) \in {c, [t |-> t, s |-> s]}
  BY DEF FlushPending
<1> HIDE DEF t, s
<1>3. SameCount(c, [t |-> t, s |-> s])
  BY <1>1 DEF SameCount, Collectors
<1>4. QED
  BY <1>2, <1>3 DEF SameCount

LEMMA AppendEventCounts ==
  ASSUME NEW c \in Collectors, NEW result \in Results
  PROVE  SameCount(c, AppendEvent(c, result))
<1> DEFINE n == c.t.sequence + 1
           v == [c.t EXCEPT !.sequence = n, !.pending = @ \cup {n}]
           u == [c EXCEPT !.t = v]
<1>1. /\ v.requests = c.t.requests /\ v.failed = c.t.failed
      /\ v \in [sequence : Nat, text : BOOLEAN, pending : SUBSET Nat, failed : BOOLEAN,
                requests : Nat]
  <2>1. n \in Nat /\ c.t.pending \cup {n} \in SUBSET Nat
    BY DEF Collectors
  <2>2. v = [c.t EXCEPT !.sequence = n, !.pending = c.t.pending \cup {n}]
    BY DEF Collectors
  <2> HIDE DEF n, v
  <2>3. QED
    BY <2>1, <2>2 DEF Collectors
<1> HIDE DEF v
<1>2. u \in Collectors /\ u.t = v
  BY <1>1 DEF Collectors
<1>3. SameCount(c, u)
  BY <1>1, <1>2 DEF SameCount
<1>4. AppendEvent(c, result) \in {u, FlushPending(u, result)}
  BY DEF AppendEvent, v
<1> HIDE DEF u
<1>5. SameCount(u, FlushPending(u, result))
  BY <1>2, FlushPendingCounts
<1>6. QED
  BY <1>3, <1>4, <1>5 DEF SameCount

LEMMA FlushTextCounts ==
  ASSUME NEW c \in Collectors, NEW result \in Results
  PROVE  SameCount(c, FlushText(c, result))
<1> DEFINE d == [c EXCEPT !.t.text = FALSE]
<1>1. SameCount(c, d)
  BY DEF Collectors, SameCount
<1>2. FlushText(c, result) \in {c, d, AppendEvent(d, result)}
  BY DEF FlushText
<1> HIDE DEF d
<1>3. SameCount(d, AppendEvent(d, result))
  BY <1>1, AppendEventCounts DEF SameCount
<1>4. QED
  BY <1>1, <1>2, <1>3 DEF SameCount

LEMMA AfterUsageCounts ==
  ASSUME NEW c \in Collectors, NEW results \in [1..2 -> Results]
  PROVE  SameCount(c, AfterUsage(c, results))
<1> DEFINE flushed == IF Capture = "all-visible" THEN FlushText(c, results[1]) ELSE c
<1>1. results[1] \in Results /\ results[2] \in Results
  OBVIOUS
<1>2. SameCount(c, flushed)
  BY <1>1, FlushTextCounts DEF SameCount
<1>3. AfterUsage(c, results) \in {flushed, AppendEvent(flushed, results[2])}
  BY DEF AfterUsage
<1> HIDE DEF flushed
<1>4. SameCount(flushed, AppendEvent(flushed, results[2]))
  BY <1>1, <1>2, AppendEventCounts DEF SameCount
<1>5. QED
  BY <1>2, <1>3, <1>4 DEF SameCount

LEMMA AfterTerminalCounts ==
  ASSUME NEW c \in Collectors, NEW results \in [1..3 -> Results]
  PROVE  SameCount(c, AfterTerminal(c, results))
<1> DEFINE flushed == FlushText(c, results[1])
           numbered == IF flushed.t.failed THEN flushed ELSE AppendEvent(flushed, results[2])
<1>1. results[1] \in Results /\ results[2] \in Results /\ results[3] \in Results
  OBVIOUS
<1>2. SameCount(c, flushed)
  BY <1>1, FlushTextCounts
<1> HIDE DEF flushed
<1>3. SameCount(flushed, numbered)
  BY <1>1, <1>2, AppendEventCounts DEF SameCount
<1>4. AfterTerminal(c, results) \in {numbered, FlushPending(numbered, results[3])}
  BY DEF AfterTerminal, flushed
<1> HIDE DEF numbered
<1>5. SameCount(numbered, FlushPending(numbered, results[3]))
  BY <1>1, <1>3, FlushPendingCounts DEF SameCount
<1>6. QED
  BY <1>2, <1>3, <1>4, <1>5 DEF SameCount

-----------------------------------------------------------------------------
LEMMA InitSpendInv == Init => SpendInv
<1> SUFFICES ASSUME Init PROVE SpendInv
  OBVIOUS
<1>1. Usages(<< >>) = {} /\ Cardinality({}) = 0 /\ 1..0 = {}
  BY FS_EmptySet DEF Usages
<1>2. /\ queue = << >> /\ trace.requests = 0 /\ trace.failed = FALSE /\ requested = 0
      /\ open = FALSE /\ running = TRUE /\ cancelled = FALSE /\ begunLate = FALSE
      /\ metered = {} /\ fallback = 0 /\ spent = 0 /\ phase = "draining"
  BY DEF Init
<1>3. Waiting = 0 /\ UnderWay = 0
  BY <1>1, <1>2 DEF Waiting, UnderWay
<1>4. SpendTypes
  <2>1. {running, open, cancelled, begunLate} \subseteq BOOLEAN
    BY <1>2
  <2>2. requested \in Nat /\ spent \in 0..requested /\ fallback \in 0..requested
    BY <1>2
  <2>3. QED
    BY <1>2, <2>1, <2>2 DEF SpendTypes
<1>5. CountedOnce /\ RowsAreCounted /\ FailureStops
  BY <1>1, <1>2, <1>3 DEF CountedOnce, RowsAreCounted, FailureStops, NoRequestAfterFailure
<1>6. QED
  BY <1>4, <1>5, InitIInv DEF SpendInv

(* The collector takes an event; what it may become, whatever the event.    *)
LEMMA CollectorCounts ==
  ASSUME SpendInv, Drain
  PROVE  /\ trace.failed => trace' = trace /\ metered' = metered /\ cancelled' = cancelled
         /\ ~ trace.failed =>
              /\ Head(queue) # "usage" =>
                   metered' = metered /\ trace'.requests = trace.requests
              /\ Head(queue) = "usage" =>
                   /\ trace'.requests = trace.requests + 1
                   /\ metered' \in {metered, metered \cup {trace.requests + 1}}
                   /\ ~ trace'.failed => metered' = metered \cup {trace.requests + 1}
              /\ trace'.failed /\ role # "reviewer" => cancelled'
         /\ cancelled' \in BOOLEAN
<1>1. /\ Current \in Collectors /\ Current = [t |-> trace, s |-> stored]
      /\ Current.t = trace /\ Current.s = stored
      /\ cancelled \in BOOLEAN /\ trace.requests \in Nat /\ trace.failed \in BOOLEAN
  BY DEF SpendInv, IInv, SpendTypes, Current, Collectors
<1>2. \A d : Becomes(d) /\ d \in Collectors =>
        /\ trace' = d.t /\ cancelled' \in BOOLEAN
        /\ d.t.failed /\ role # "reviewer" => cancelled'
  BY <1>1 DEF Becomes, Cancels, Collectors
<1>3. CASE trace.failed
  BY <1>1, <1>3 DEF Drain
<1>4. CASE ~ trace.failed /\ Head(queue) = "text"
  <2>1. /\ trace' = [trace EXCEPT !.text = @ \/ (Enabled /\ Capture # "none")]
        /\ metered' = metered /\ cancelled' = cancelled
    BY <1>4 DEF Drain, HandleText
  <2>2. trace'.requests = trace.requests /\ trace'.failed = trace.failed
    BY <1>1, <2>1 DEF Collectors
  <2>3. QED
    BY <1>1, <1>4, <2>1, <2>2
<1>5. CASE ~ trace.failed /\ Head(queue) = "tool"
  <2>1. HandleTool
    BY <1>5 DEF Drain
  <2>2. CASE Enabled
    <3>1. PICK result \in Results : Becomes(AppendEvent(Current, result))
      BY <2>1, <2>2 DEF HandleTool
    <3>2. SameCount(Current, AppendEvent(Current, result))
      BY <1>1, AppendEventCounts
    <3>3. trace' = AppendEvent(Current, result).t /\ metered' = metered
      BY <2>1, <3>1 DEF HandleTool, Becomes
    <3>4. QED
      BY <1>1, <1>2, <1>5, <3>1, <3>2, <3>3 DEF SameCount
  <2>3. CASE ~ Enabled
    BY <1>1, <1>5, <2>1, <2>3 DEF HandleTool
  <2>4. QED
    BY <2>2, <2>3
<1>6. CASE ~ trace.failed /\ Head(queue) = "usage"
  <2> DEFINE c == [Current EXCEPT !.t.requests = @ + 1]
             failed == [c EXCEPT !.t.failed = TRUE]
  <2>1. /\ c \in Collectors /\ c.t.requests = trace.requests + 1
        /\ failed \in Collectors /\ failed.t.requests = trace.requests + 1
        /\ failed.t.failed
    <3>1. /\ c.s = Current.s
          /\ c.t = [Current.t EXCEPT !.requests = Current.t.requests + 1]
      BY <1>1 DEF Collectors
    <3>2. c \in Collectors /\ c.t.requests = trace.requests + 1
      BY <1>1, <3>1 DEF Collectors
    <3>3. failed.s = c.s /\ failed.t = [c.t EXCEPT !.failed = TRUE]
      BY <3>2 DEF Collectors
    <3> HIDE DEF c
    <3>4. QED
      BY <3>2, <3>3 DEF Collectors
  <2>2. HandleUsage
    BY <1>6 DEF Drain
  <2>3. CASE \E results \in [1..2 -> Results] :
               Becomes(AfterUsage(c, results)) /\ metered' = metered \cup {c.t.requests}
    <3>1. PICK results \in [1..2 -> Results] :
            Becomes(AfterUsage(c, results)) /\ metered' = metered \cup {c.t.requests}
      BY <2>3
    <3> HIDE DEF c, failed
    <3>2. SameCount(c, AfterUsage(c, results))
      BY <2>1, AfterUsageCounts
    <3>3. trace' = AfterUsage(c, results).t
      BY <3>1 DEF Becomes
    <3>4. QED
      BY <1>1, <1>2, <1>6, <2>1, <3>1, <3>2, <3>3 DEF SameCount
  <2>4. CASE \E rows \in {metered, metered \cup {c.t.requests}} :
               Becomes(failed) /\ metered' = rows
    <3> HIDE DEF c, failed
    <3>1. /\ Becomes(failed) /\ metered' \in {metered, metered \cup {c.t.requests}}
          /\ trace' = failed.t
      BY <2>4 DEF Becomes
    <3>2. QED
      BY <1>1, <1>2, <1>6, <2>1, <3>1
  <2>5. QED
    BY <2>2, <2>3, <2>4 DEF HandleUsage
<1>7. CASE ~ trace.failed /\ Head(queue) = "terminal"
  <2>1. HandleTerminal
    BY <1>7 DEF Drain
  <2>2. CASE Enabled
    <3>1. PICK results \in [1..3 -> Results] : Becomes(AfterTerminal(Current, results))
      BY <2>1, <2>2 DEF HandleTerminal
    <3>2. SameCount(Current, AfterTerminal(Current, results))
      BY <1>1, AfterTerminalCounts
    <3>3. trace' = AfterTerminal(Current, results).t /\ metered' = metered
      BY <2>1, <3>1 DEF HandleTerminal, Becomes
    <3>4. QED
      BY <1>1, <1>2, <1>7, <3>1, <3>2, <3>3 DEF SameCount
  <2>3. CASE ~ Enabled
    BY <1>1, <1>7, <2>1, <2>3 DEF HandleTerminal
  <2>4. QED
    BY <2>2, <2>3
<1>8. queue \in Seq(Events) /\ queue # << >>
  BY DEF SpendInv, IInv, Drain
<1>9. Head(queue) \in Events
  BY <1>8, TakenUsage
<1>10. QED
  BY <1>3, <1>4, <1>5, <1>6, <1>7, <1>9 DEF Events

LEMMA DrainKeepsSpend ==
  ASSUME SpendInv, Drain
  PROVE  SpendInv'
<1>1. /\ IInv /\ SpendTypes /\ CountedOnce /\ RowsAreCounted /\ FailureStops
      /\ Current \in Collectors
  BY DEF SpendInv, IInv
<1>2. IInv'
  BY <1>1, DrainKeepsIInv
<1>3. /\ queue \in Seq(Events) /\ queue # << >> /\ queue' = Tail(queue)
      /\ phase = "draining"
      /\ spent' = IF Head(queue) = "terminal" THEN requested ELSE spent
      /\ UNCHANGED <<role, running, requested, open, fallback, phase, begunLate>>
  BY <1>1 DEF Drain, IInv
<1>4. /\ trace.requests \in Nat /\ trace.failed \in BOOLEAN
      /\ Waiting \in Nat /\ Waiting' \in Nat
      /\ Waiting = Waiting' + (IF Head(queue) = "usage" THEN 1 ELSE 0)
      /\ UnderWay' = UnderWay /\ UnderWay \in Nat
  <2>1. trace.requests \in Nat /\ trace.failed \in BOOLEAN
    BY <1>1 DEF Current, Collectors
  <2>2. Tail(queue) \in Seq(Events)
    BY <1>3, TakenUsage
  <2>3. Waiting \in Nat /\ Waiting' \in Nat
    BY <1>3, <2>2, UsagesAreFinite DEF Waiting
  <2>4. Waiting = Waiting' + (IF Head(queue) = "usage" THEN 1 ELSE 0)
    BY <1>3, TakenUsage DEF Waiting
  <2>5. UnderWay' = UnderWay /\ UnderWay \in Nat
    BY <1>3 DEF UnderWay
  <2>6. QED
    BY <2>1, <2>3, <2>4, <2>5
<1>5. SpendTypes'
  BY <1>1, <1>3, CollectorCounts DEF SpendTypes
<1>6. FailureStops'
  <2>1. trace'.failed /\ role # "reviewer" => cancelled' \/ ~ running
    BY <1>1, <1>4, CollectorCounts DEF FailureStops
  <2>2. QED
    BY <1>1, <1>3, <2>1 DEF FailureStops, NoRequestAfterFailure
<1>7. CASE trace.failed
  <2>1. trace' = trace /\ metered' = metered
    BY <1>7, CollectorCounts
  <2>2. CountedOnce' /\ RowsAreCounted'
    BY <1>1, <1>3, <1>4, <1>7, <2>1 DEF CountedOnce, RowsAreCounted, SpendTypes
  <2>3. QED
    BY <1>2, <1>5, <1>6, <2>2 DEF SpendInv
<1>8. CASE ~ trace.failed /\ Head(queue) # "usage"
  <2>1. trace'.requests = trace.requests /\ metered' = metered
    BY <1>8, CollectorCounts
  <2>2. CountedOnce' /\ RowsAreCounted'
    BY <1>1, <1>3, <1>4, <1>8, <2>1 DEF CountedOnce, RowsAreCounted, SpendTypes
  <2>3. QED
    BY <1>2, <1>5, <1>6, <2>2 DEF SpendInv
<1>9. CASE ~ trace.failed /\ Head(queue) = "usage"
  <2>1. /\ trace'.requests = trace.requests + 1
        /\ metered' \in {metered, metered \cup {trace.requests + 1}}
        /\ ~ trace'.failed => metered' = metered \cup {trace.requests + 1}
    BY <1>9, CollectorCounts
  <2>2. /\ metered = 1..trace.requests
        /\ fallback # 0 => phase = "done"
    BY <1>1, <1>9 DEF RowsAreCounted
  <2>3. 1..trace.requests \cup {trace.requests + 1} = 1..(trace.requests + 1)
    BY <1>4
  <2>4. RowsAreCounted'
    BY <1>3, <1>4, <2>1, <2>2, <2>3 DEF RowsAreCounted
  <2>5. Waiting = Waiting' + 1
    BY <1>4, <1>9
  <2>6. CountedOnce'
    <3>1. /\ requested \in Nat /\ trace'.requests \in Nat
          /\ trace'.requests + Waiting' + UnderWay' = trace.requests + Waiting + UnderWay
      <4>1. requested \in Nat
        BY <1>1 DEF SpendTypes
      <4>2. \A a, b, c \in Nat : a + 1 \in Nat /\ (a + 1) + b + c = a + (b + 1) + c
        OBVIOUS
      <4>3. QED
        BY <1>4, <2>1, <2>5, <4>1, <4>2
    <3>2. /\ trace.requests + Waiting + UnderWay <= requested
          /\ PerRequest => trace.requests + Waiting + UnderWay = requested
      BY <1>1, <1>3, <1>9 DEF CountedOnce
    <3>3. QED
      BY <1>3, <3>1, <3>2 DEF CountedOnce
  <2>7. QED
    BY <1>2, <1>5, <1>6, <2>4, <2>6 DEF SpendInv
<1>10. QED
  BY <1>7, <1>8, <1>9

(* The runtime begins requests, ends them and emits events.                 *)
LEMMA RuntimeKeepsSpend ==
  ASSUME SpendInv, BeginRequest \/ EndRequest \/ (\E e \in Events : Emit(e)) \/ EndRun
  PROVE  SpendInv'
<1>1. /\ IInv /\ SpendTypes /\ CountedOnce /\ RowsAreCounted /\ FailureStops
      /\ queue \in Seq(Events) /\ Current \in Collectors
  BY DEF SpendInv, IInv
<1>2. IInv'
  BY <1>1, NextIInv DEF Next
<1>3. /\ UNCHANGED <<role, cancelled, trace, stored, metered, fallback, spent, phase>>
      /\ running
  BY DEF BeginRequest, EndRequest, Emit, EndRun
<1>4. /\ trace.requests \in Nat /\ Waiting \in Nat /\ UnderWay \in Nat
      /\ phase \notin {"drained", "done"}
  BY <1>1, <1>3, UsagesAreFinite DEF Current, Collectors, Waiting, UnderWay, SpendTypes
<1>5. CASE BeginRequest
  <2>1. /\ ~ open /\ open' = TRUE /\ requested' = requested + 1 /\ queue' = queue
        /\ ~ cancelled /\ begunLate' = (begunLate \/ trace.failed) /\ running' = running
    BY <1>5 DEF BeginRequest
  <2>2. UnderWay = 0 /\ UnderWay' = 1 /\ Waiting' = Waiting
    BY <2>1 DEF UnderWay, Waiting
  <2>3. SpendTypes'
    BY <1>1, <1>3, <2>1 DEF SpendTypes
  <2>4. CountedOnce' /\ RowsAreCounted'
    BY <1>1, <1>3, <1>4, <2>1, <2>2 DEF CountedOnce, RowsAreCounted, SpendTypes
  <2>5. FailureStops'
    BY <1>1, <1>3, <2>1 DEF FailureStops, NoRequestAfterFailure
  <2>6. QED
    BY <1>2, <2>3, <2>4, <2>5 DEF SpendInv
<1>6. CASE EndRequest
  <2>1. /\ open /\ open' = FALSE /\ requested' = requested /\ running' = running
        /\ begunLate' = begunLate
        /\ queue' = IF PerRequest THEN Append(queue, "usage") ELSE queue
    BY <1>6 DEF EndRequest
  <2>2. UnderWay = 1 /\ UnderWay' = 0
    BY <2>1 DEF UnderWay
  <2>3. Waiting' = IF PerRequest THEN Waiting + 1 ELSE Waiting
    <3>1. "usage" \in Events
      BY DEF Events
    <3>2. QED
      BY <1>1, <2>1, <3>1, AppendedUsage DEF Waiting
  <2>4. SpendTypes'
    BY <1>1, <1>3, <1>4, <2>1 DEF SpendTypes
  <2>5. CountedOnce' /\ RowsAreCounted'
    BY <1>1, <1>3, <1>4, <2>1, <2>2, <2>3 DEF CountedOnce, RowsAreCounted, SpendTypes
  <2>6. FailureStops'
    BY <1>1, <1>3, <2>1 DEF FailureStops, NoRequestAfterFailure
  <2>7. QED
    BY <1>2, <2>4, <2>5, <2>6 DEF SpendInv
<1>7. CASE (\E e \in Events : Emit(e)) \/ EndRun
  <2>1. /\ UNCHANGED <<requested, open, begunLate>>
        /\ running' \in BOOLEAN
        /\ ~ running' => ~ open
        /\ \/ queue' = queue
           \/ \E e \in Events : e # "usage" /\ queue' = Append(queue, e)
    <3>1. ASSUME NEW e \in Events, Emit(e)
          PROVE  /\ UNCHANGED <<requested, open, running, begunLate>>
                 /\ e # "usage" /\ queue' = Append(queue, e)
      BY <3>1 DEF Emit
    <3>2. CASE EndRun
      <4>1. PICK e \in {<< >>, <<"terminal">>} : queue' = queue \o e
        BY <3>2 DEF EndRun
      <4>2. queue' = queue \/ queue' = Append(queue, "terminal")
        BY <1>1, <4>1
      <4>3. "terminal" \in Events
        BY DEF Events
      <4>4. QED
        BY <3>2, <4>2, <4>3 DEF EndRun
    <3>3. QED
      BY <1>1, <1>3, <1>7, <3>1, <3>2 DEF SpendTypes
  <2>2. Waiting' = Waiting /\ UnderWay' = UnderWay
    <3>1. ASSUME NEW e \in Events, e # "usage", queue' = Append(queue, e)
          PROVE  Waiting' = Waiting
      BY <1>1, <1>4, <3>1, AppendedUsage DEF Waiting
    <3>2. QED
      BY <2>1, <3>1 DEF Waiting, UnderWay
  <2>3. SpendTypes'
    <3>1. /\ UNCHANGED <<requested, open, begunLate, cancelled, spent, fallback, phase>>
          /\ running' \in BOOLEAN /\ (~ running' => ~ open)
          /\ phase \notin {"drained", "done"}
      BY <1>3, <1>4, <2>1
    <3>2. {running', open', cancelled', begunLate'} \subseteq BOOLEAN
      BY <1>1, <3>1 DEF SpendTypes
    <3>3. QED
      BY <1>1, <3>1, <3>2 DEF SpendTypes
  <2>4. CountedOnce' /\ RowsAreCounted'
    BY <1>1, <1>3, <2>1, <2>2 DEF CountedOnce, RowsAreCounted
  <2>5. FailureStops'
    BY <1>1, <1>3, <2>1 DEF FailureStops, NoRequestAfterFailure
  <2>6. QED
    BY <1>2, <2>3, <2>4, <2>5 DEF SpendInv
<1>8. QED
  BY <1>5, <1>6, <1>7

(* The run is over, or the process is.                                      *)
LEMMA EndKeepsSpend ==
  ASSUME SpendInv, Flush \/ RecordSpend \/ Crash
  PROVE  SpendInv'
<1>1. /\ IInv /\ SpendTypes /\ CountedOnce /\ RowsAreCounted /\ FailureStops
      /\ queue \in Seq(Events) /\ Current \in Collectors
  BY DEF SpendInv, IInv
<1>2. IInv'
  BY <1>1, NextIInv DEF Next
<1>3. /\ UNCHANGED <<role, requested, cancelled, metered, spent, begunLate>>
  BY DEF Flush, RecordSpend, Crash
<1>4. /\ trace.requests \in Nat /\ trace.failed \in BOOLEAN
      /\ Waiting \in Nat /\ UnderWay \in Nat
  BY <1>1, UsagesAreFinite DEF Current, Collectors, Waiting, UnderWay
<1>5. CASE Flush
  <2>1. PICK result \in Results : trace' = FlushPending(Current, result).t
    BY <1>5 DEF Flush
  <2>2. /\ phase = "draining" /\ phase' = "drained" /\ ~ running /\ queue = << >>
        /\ UNCHANGED <<running, open, queue, fallback>>
    BY <1>5 DEF Flush
  <2>3. trace'.requests = trace.requests /\ (trace.failed => trace'.failed)
    BY <1>1, <2>1, FlushPendingCounts DEF SameCount, Current
  <2>4. SpendTypes'
    BY <1>1, <1>3, <2>2 DEF SpendTypes
  <2>5. Waiting' = Waiting /\ UnderWay' = UnderWay
    BY <2>2 DEF Waiting, UnderWay
  <2>6. trace'.failed \in BOOLEAN
    BY <1>2 DEF IInv, Current, Collectors
  <2>7. CountedOnce' /\ RowsAreCounted'
    BY <1>1, <1>3, <1>4, <2>2, <2>3, <2>5, <2>6 DEF CountedOnce, RowsAreCounted
  <2>8. FailureStops'
    BY <1>1, <1>3, <2>2 DEF FailureStops, NoRequestAfterFailure
  <2>9. QED
    BY <1>2, <2>4, <2>7, <2>8 DEF SpendInv
<1>6. CASE RecordSpend
  <2>1. /\ phase = "drained" /\ phase' = "done"
        /\ \/ fallback' = fallback
           \/ trace.requests = 0 /\ fallback' \in {0, spent}
        /\ UNCHANGED <<running, open, queue, trace>>
    BY <1>6 DEF RecordSpend
  <2>2. SpendTypes'
    BY <1>1, <1>3, <2>1 DEF SpendTypes
  <2>3. Waiting' = Waiting /\ UnderWay' = UnderWay
    BY <2>1 DEF Waiting, UnderWay
  <2>4. CountedOnce' /\ RowsAreCounted'
    BY <1>1, <1>3, <2>1, <2>3 DEF CountedOnce, RowsAreCounted
  <2>5. FailureStops'
    BY <1>1, <1>3, <2>1 DEF FailureStops, NoRequestAfterFailure
  <2>6. QED
    BY <1>2, <2>2, <2>4, <2>5 DEF SpendInv
<1>7. CASE Crash
  <2>1. /\ phase \in {"draining", "drained"} /\ phase' = "crashed"
        /\ running' = FALSE /\ open' = FALSE /\ queue' = << >> /\ fallback' = fallback
        /\ trace' = [trace EXCEPT !.pending = {}, !.text = FALSE]
    BY <1>7 DEF Crash
  <2>2. trace'.requests = trace.requests /\ trace'.failed = trace.failed
    BY <1>1, <2>1 DEF Current, Collectors
  <2>3. SpendTypes'
    BY <1>1, <1>3, <2>1 DEF SpendTypes
  <2>4. Waiting' = 0 /\ UnderWay' = 0
    BY <2>1, FS_EmptySet DEF Waiting, Usages, UnderWay
  <2>5. trace.requests <= requested /\ fallback = 0
    BY <1>1, <1>4, <2>1 DEF CountedOnce, RowsAreCounted, SpendTypes
  <2>6. CountedOnce' /\ RowsAreCounted'
    BY <1>1, <1>3, <1>4, <2>1, <2>2, <2>4, <2>5 DEF CountedOnce, RowsAreCounted
  <2>7. FailureStops'
    BY <1>1, <1>3, <2>1, <2>2 DEF FailureStops, NoRequestAfterFailure
  <2>8. QED
    BY <1>2, <2>3, <2>6, <2>7 DEF SpendInv
<1>8. QED
  BY <1>5, <1>6, <1>7

LEMMA NextSpendInv == SpendInv /\ [Next]_vars => SpendInv'
<1> SUFFICES ASSUME SpendInv, [Next]_vars PROVE SpendInv'
  OBVIOUS
<1>1. CASE UNCHANGED vars
  <2>1. IInv'
    BY <1>1, NextIInv DEF SpendInv
  <2>2. QED
    BY <1>1, <2>1
       DEF vars, SpendInv, SpendTypes, CountedOnce, RowsAreCounted, FailureStops,
           NoRequestAfterFailure, Waiting, UnderWay, Usages
<1>2. QED
  BY <1>1, RuntimeKeepsSpend, DrainKeepsSpend, EndKeepsSpend DEF Next

(* What the invariant says when the run is over, and before.                *)
LEMMA SpendInvImplies ==
  SpendInv => SpendCountedOnce /\ RequestsAreMetered /\ NoRequestAfterFailure
<1> SUFFICES ASSUME SpendInv
             PROVE  SpendCountedOnce /\ RequestsAreMetered /\ NoRequestAfterFailure
  OBVIOUS
<1>1. /\ SpendTypes /\ CountedOnce /\ RowsAreCounted /\ FailureStops
      /\ queue \in Seq(Events) /\ trace.requests \in Nat /\ requested \in Nat
      /\ Waiting \in Nat /\ UnderWay \in Nat /\ fallback \in 0..requested
  BY UsagesAreFinite
     DEF SpendInv, IInv, SpendTypes, Current, Collectors, Waiting, UnderWay
<1>2. trace.requests <= requested
  BY <1>1 DEF CountedOnce
<1>3. SpendCountedOnce
  <2>1. /\ IsFiniteSet(1..trace.requests)
        /\ Cardinality(1..trace.requests) = trace.requests
    <3>1. ASSUME NEW n \in Nat
          PROVE  IsFiniteSet(1..n) /\ Cardinality(1..n) = n
      <4>1. IsFiniteSet(1..n) /\ Cardinality(1..n) = IF 1 > n THEN 0 ELSE n - 1 + 1
        BY FS_Interval
      <4>2. (IF 1 > n THEN 0 ELSE n - 1 + 1) = n
        OBVIOUS
      <4>3. QED
        BY <4>1, <4>2
    <3>2. QED
      BY <1>1, <3>1
  <2>2. Cardinality(metered) \in Nat /\ Cardinality(metered) <= trace.requests
    <3>1. metered \in SUBSET (1..trace.requests)
      BY <1>1 DEF RowsAreCounted
    <3>2. IsFiniteSet(metered) /\ Cardinality(metered) <= Cardinality(1..trace.requests)
      BY <2>1, <3>1, FS_Subset
    <3>3. QED
      BY <2>1, <3>2, FS_CardinalityType
  <2>3. fallback # 0 => metered = {} /\ Cardinality(metered) = 0
    <3>1. fallback # 0 => metered \subseteq 1..0
      BY <1>1 DEF RowsAreCounted
    <3>2. 1..0 = {}
      OBVIOUS
    <3>3. QED
      BY <3>1, <3>2, FS_EmptySet
  <2>4. QED
    BY <1>1, <1>2, <2>2, <2>3 DEF SpendCountedOnce
<1>4. RequestsAreMetered
  <2>1. SUFFICES ASSUME PerRequest, phase = "done", ~ trace.failed
                 PROVE  metered = 1..requested
    BY DEF RequestsAreMetered
  <2>2. queue = << >> /\ ~ open
    BY <1>1, <2>1 DEF SpendTypes
  <2>3. Waiting = 0 /\ UnderWay = 0
    BY <2>2, FS_EmptySet DEF Waiting, Usages, UnderWay
  <2>4. trace.requests = requested
    BY <1>1, <2>1, <2>3 DEF CountedOnce
  <2>5. QED
    BY <1>1, <2>1, <2>4 DEF RowsAreCounted
<1>5. QED
  BY <1>1, <1>3, <1>4 DEF FailureStops

(* No request is counted twice against the budget, each is metered when     *)
(* nothing failed, and a run whose usage cannot be stored begins no other   *)
(* request (loop.go:462, 572, collector.go:225-260).                        *)
THEOREM RequestsCountedOnce ==
  Spec => [](SpendCountedOnce /\ RequestsAreMetered /\ NoRequestAfterFailure)
BY InitSpendInv, NextSpendInv, SpendInvImplies, PTL DEF Spec

-----------------------------------------------------------------------------
(***************************************************************************)
(* The types.  The bound of the buffer needs the buffer of a new process to *)
(* have room: an event is appended before it is flushed.                    *)
(***************************************************************************)
Fits(c) == c \in Collectors /\ Cardinality(c.t.pending) < MaxPending

LEMMA FlushPendingFits ==
  ASSUME NEW c \in Collectors, NEW result \in Results
  PROVE  Fits(FlushPending(c, result))
<1>1. Cardinality({}) < MaxPending
  BY FS_EmptySet, TraceAssumption DEF TraceAssumption
<1>2. FlushPending(c, result) \in Collectors
  BY FlushPendingCounts DEF SameCount
<1>3. FlushPending(c, result).t.pending = {}
  <2>1. CASE c.t.pending = {}
    BY <2>1 DEF FlushPending
  <2>2. CASE c.t.pending # {}
    <3>1. [c.t EXCEPT !.pending = {}, !.failed = @ \/ result # "ok"].pending = {}
      BY DEF Collectors
    <3>2. FlushPending(c, result).t = [c.t EXCEPT !.pending = {}, !.failed = @ \/ result # "ok"]
      BY <2>2 DEF FlushPending
    <3>3. QED
      BY <3>1, <3>2
  <2>3. QED
    BY <2>1, <2>2
<1>4. QED
  BY <1>1, <1>2, <1>3 DEF Fits

LEMMA AppendEventFits ==
  ASSUME NEW c \in Collectors, NEW result \in Results
  PROVE  Fits(AppendEvent(c, result))
<1> DEFINE n == c.t.sequence + 1
           v == [c.t EXCEPT !.sequence = n, !.pending = @ \cup {n}]
           u == [c EXCEPT !.t = v]
<1>1. u \in Collectors
  <2>1. n \in Nat /\ c.t.pending \cup {n} \in SUBSET Nat
    BY DEF Collectors
  <2>2. v = [c.t EXCEPT !.sequence = n, !.pending = c.t.pending \cup {n}]
    BY DEF Collectors
  <2> HIDE DEF n
  <2>3. v \in [sequence : Nat, text : BOOLEAN, pending : SUBSET Nat, failed : BOOLEAN,
               requests : Nat]
    BY <2>1, <2>2 DEF Collectors
  <2> HIDE DEF v
  <2>4. QED
    BY <2>3 DEF Collectors
<1>2. AppendEvent(c, result) = IF Cardinality(u.t.pending) < MaxPending THEN u
                               ELSE FlushPending(u, result)
  BY DEF AppendEvent
<1> HIDE DEF u
<1>3. Fits(FlushPending(u, result))
  BY <1>1, FlushPendingFits
<1>4. QED
  BY <1>1, <1>2, <1>3 DEF Fits

LEMMA FlushTextFits ==
  ASSUME NEW c, Fits(c), NEW result \in Results
  PROVE  Fits(FlushText(c, result))
<1> DEFINE d == [c EXCEPT !.t.text = FALSE]
<1>1. d \in Collectors /\ d.t.pending = c.t.pending
  BY DEF Collectors, Fits
<1>2. FlushText(c, result) \in {c, d, AppendEvent(d, result)}
  BY DEF FlushText
<1> HIDE DEF d
<1>3. Fits(AppendEvent(d, result))
  BY <1>1, AppendEventFits
<1>4. QED
  BY <1>1, <1>2, <1>3 DEF Fits

LEMMA AfterUsageFits ==
  ASSUME NEW c, Fits(c), NEW results \in [1..2 -> Results]
  PROVE  Fits(AfterUsage(c, results))
<1> DEFINE flushed == IF Capture = "all-visible" THEN FlushText(c, results[1]) ELSE c
<1>1. results[1] \in Results /\ results[2] \in Results
  OBVIOUS
<1>2. Fits(flushed)
  BY <1>1, FlushTextFits
<1>3. AfterUsage(c, results) \in {flushed, AppendEvent(flushed, results[2])}
  BY DEF AfterUsage
<1> HIDE DEF flushed
<1>4. Fits(AppendEvent(flushed, results[2]))
  BY <1>1, <1>2, AppendEventFits DEF Fits
<1>5. QED
  BY <1>2, <1>3, <1>4

LEMMA AfterTerminalFits ==
  ASSUME NEW c, Fits(c), NEW results \in [1..3 -> Results]
  PROVE  Fits(AfterTerminal(c, results))
<1> DEFINE flushed == FlushText(c, results[1])
           numbered == IF flushed.t.failed THEN flushed ELSE AppendEvent(flushed, results[2])
<1>1. results[1] \in Results /\ results[2] \in Results /\ results[3] \in Results
  OBVIOUS
<1>2. Fits(flushed)
  BY <1>1, FlushTextFits
<1> HIDE DEF flushed
<1>3. Fits(numbered)
  BY <1>1, <1>2, AppendEventFits DEF Fits
<1>4. AfterTerminal(c, results) \in {numbered, FlushPending(numbered, results[3])}
  BY DEF AfterTerminal, flushed
<1> HIDE DEF numbered
<1>5. Fits(FlushPending(numbered, results[3]))
  BY <1>1, <1>3, FlushPendingFits DEF Fits
<1>6. QED
  BY <1>3, <1>4, <1>5

(* Whatever the event, the buffer keeps its bound.                          *)
LEMMA DrainFits ==
  ASSUME IInv, Fits(Current), Drain
  PROVE  Cardinality(trace'.pending) < MaxPending
<1>1. /\ Current \in Collectors /\ Current.t = trace /\ Current.s = stored
      /\ Cardinality(trace.pending) < MaxPending
  BY DEF IInv, Current, Fits
<1>2. \A d : Becomes(d) /\ Fits(d) => Cardinality(trace'.pending) < MaxPending
  BY DEF Becomes, Fits
<1>3. CASE trace.failed
  BY <1>1, <1>3 DEF Drain
<1>4. CASE ~ trace.failed /\ Head(queue) = "text"
  <2>1. trace' = [trace EXCEPT !.text = @ \/ (Enabled /\ Capture # "none")]
    BY <1>4 DEF Drain, HandleText
  <2>2. trace'.pending = trace.pending
    BY <1>1, <2>1 DEF Collectors
  <2>3. QED
    BY <1>1, <2>2
<1>5. CASE ~ trace.failed /\ Head(queue) = "tool"
  <2>1. HandleTool
    BY <1>5 DEF Drain
  <2>2. CASE Enabled
    <3>1. PICK result \in Results : Becomes(AppendEvent(Current, result))
      BY <2>1, <2>2 DEF HandleTool
    <3>2. Fits(AppendEvent(Current, result))
      BY <1>1, AppendEventFits
    <3>3. QED
      BY <1>2, <3>1, <3>2
  <2>3. CASE ~ Enabled
    BY <1>1, <2>1, <2>3 DEF HandleTool
  <2>4. QED
    BY <2>2, <2>3
<1>6. CASE ~ trace.failed /\ Head(queue) = "usage"
  <2> DEFINE c == [Current EXCEPT !.t.requests = @ + 1]
             failed == [c EXCEPT !.t.failed = TRUE]
  <2>1. Fits(c) /\ Fits(failed)
    <3>1. /\ c.s = Current.s
          /\ c.t = [Current.t EXCEPT !.requests = Current.t.requests + 1]
      BY <1>1 DEF Collectors
    <3>2. c \in Collectors /\ c.t.pending = trace.pending
      BY <1>1, <3>1 DEF Collectors
    <3>3. failed.s = c.s /\ failed.t = [c.t EXCEPT !.failed = TRUE]
      BY <3>2 DEF Collectors
    <3> HIDE DEF c
    <3>4. failed \in Collectors /\ failed.t.pending = trace.pending
      BY <3>2, <3>3 DEF Collectors
    <3> HIDE DEF failed
    <3>5. QED
      BY <1>1, <3>2, <3>4 DEF Fits
  <2>2. HandleUsage
    BY <1>6 DEF Drain
  <2>3. CASE \E results \in [1..2 -> Results] : Becomes(AfterUsage(c, results))
    <3>1. PICK results \in [1..2 -> Results] : Becomes(AfterUsage(c, results))
      BY <2>3
    <3> HIDE DEF c, failed
    <3>2. Fits(AfterUsage(c, results))
      BY <2>1, AfterUsageFits
    <3>3. QED
      BY <1>2, <3>1, <3>2
  <2>4. CASE Becomes(failed)
    <3> HIDE DEF c, failed
    <3>1. QED
      BY <1>2, <2>1, <2>4
  <2>5. QED
    BY <2>2, <2>3, <2>4 DEF HandleUsage
<1>7. CASE ~ trace.failed /\ Head(queue) = "terminal"
  <2>1. HandleTerminal
    BY <1>7 DEF Drain
  <2>2. CASE Enabled
    <3>1. PICK results \in [1..3 -> Results] : Becomes(AfterTerminal(Current, results))
      BY <2>1, <2>2 DEF HandleTerminal
    <3>2. Fits(AfterTerminal(Current, results))
      BY AfterTerminalFits
    <3>3. QED
      BY <1>2, <3>1, <3>2
  <2>3. CASE ~ Enabled
    BY <1>1, <2>1, <2>3 DEF HandleTerminal
  <2>4. QED
    BY <2>2, <2>3
<1>8. Head(queue) \in Events
  BY TakenUsage DEF IInv, Drain
<1>9. QED
  BY <1>3, <1>4, <1>5, <1>6, <1>7, <1>8 DEF Events

(* The spend, and the bounds.                                               *)
TraceBounds ==
  /\ role \in Roles
  /\ requested <= MaxRequests
  /\ Len(queue) <= QueueCap
  /\ Cardinality(trace.pending) < MaxPending

(* With the bounds, the invariant has what TypeOK says.                     *)
TypedInv == SpendInv /\ TraceBounds

LEMMA InitTypedInv == Init => TypedInv
<1> SUFFICES ASSUME Init PROVE TypedInv
  OBVIOUS
<1>1. {MaxPending, MaxRequests, QueueCap} \subseteq Nat /\ MaxPending # 0
  BY TraceAssumption DEF TraceAssumption
<1>2. /\ role \in Roles /\ requested = 0 /\ queue = << >> /\ trace.pending = {}
  BY DEF Init
<1>3. Cardinality({}) = 0 /\ Len(<< >>) = 0
  BY FS_EmptySet
<1>4. QED
  BY <1>1, <1>2, <1>3, InitSpendInv DEF TypedInv, TraceBounds

LEMMA NextTypedInv == TypedInv /\ [Next]_vars => TypedInv'
<1> SUFFICES ASSUME TypedInv, [Next]_vars PROVE TypedInv'
  OBVIOUS
<1>1. SpendInv /\ IInv /\ TraceBounds
  BY DEF TypedInv, SpendInv
<1>2. SpendInv'
  BY <1>1, NextSpendInv
<1>3. /\ queue \in Seq(Events) /\ requested \in Nat /\ MaxRequests \in Nat
      /\ QueueCap \in Nat /\ MaxPending \in Nat /\ MaxPending # 0
      /\ Len(queue) \in Nat /\ Len(queue) <= QueueCap /\ requested <= MaxRequests
  BY <1>1, TraceAssumption DEF IInv, SpendInv, SpendTypes, TraceBounds, TraceAssumption
<1>4. CASE BeginRequest
  <2>1. requested' = requested + 1 /\ requested < MaxRequests
        /\ UNCHANGED <<role, queue, trace>>
    BY <1>4 DEF BeginRequest
  <2>2. QED
    BY <1>1, <1>2, <1>3, <2>1 DEF TypedInv, TraceBounds
<1>5. ASSUME Len(queue) < QueueCap, UNCHANGED <<role, requested, trace>>,
             queue' = queue \/ \E e : queue' = Append(queue, e)
      PROVE  TypedInv'
  <2>1. Len(queue') <= QueueCap
    BY <1>3, <1>5
  <2>2. QED
    BY <1>1, <1>2, <1>5, <2>1 DEF TypedInv, TraceBounds
<1>6. CASE EndRequest
  BY <1>5, <1>6 DEF EndRequest
<1>7. ASSUME NEW e \in Events, Emit(e) PROVE TypedInv'
  BY <1>5, <1>7 DEF Emit
<1>8. CASE EndRun
  <2>1. PICK e \in {<< >>, <<"terminal">>} : queue' = queue \o e
    BY <1>8 DEF EndRun
  <2>2. queue' = queue \/ queue' = Append(queue, "terminal")
    BY <1>3, <2>1
  <2>3. QED
    BY <1>5, <1>8, <2>2 DEF EndRun
<1>9. CASE Drain
  <2>1. Fits(Current)
    BY <1>1 DEF Fits, Current, IInv, TraceBounds
  <2>2. Cardinality(trace'.pending) < MaxPending
    BY <1>1, <1>9, <2>1, DrainFits
  <2>3. queue' = Tail(queue) /\ queue # << >> /\ UNCHANGED <<role, requested>>
    BY <1>9 DEF Drain
  <2>4. Len(queue') <= QueueCap
    BY <1>3, <2>3
  <2>5. QED
    BY <1>1, <1>2, <2>2, <2>3, <2>4 DEF TypedInv, TraceBounds
<1>10. CASE Flush
  <2>1. PICK result \in Results : trace' = FlushPending(Current, result).t
    BY <1>10 DEF Flush
  <2>2. Fits(FlushPending(Current, result))
    BY <1>1, FlushPendingFits DEF IInv
  <2>3. UNCHANGED <<role, requested, queue>>
    BY <1>10 DEF Flush
  <2>4. QED
    BY <1>1, <1>2, <2>1, <2>2, <2>3 DEF TypedInv, TraceBounds, Fits
<1>11. CASE RecordSpend \/ UNCHANGED vars
  BY <1>1, <1>2, <1>11 DEF RecordSpend, vars, TypedInv, TraceBounds
<1>12. CASE Crash
  <2>1. queue' = << >> /\ UNCHANGED <<role, requested>>
    BY <1>12 DEF Crash
  <2>2. trace'.pending = {}
    BY <1>1, <1>12 DEF Crash, IInv, Current, Collectors
  <2>3. Cardinality({}) = 0 /\ Len(<< >>) = 0
    BY FS_EmptySet
  <2>4. QED
    BY <1>1, <1>2, <1>3, <2>1, <2>2, <2>3 DEF TypedInv, TraceBounds
<1>13. QED
  BY <1>4, <1>6, <1>7, <1>8, <1>9, <1>10, <1>11, <1>12 DEF Next

LEMMA TypedInvImplies == TypedInv => TypeOK
<1> SUFFICES ASSUME TypedInv PROVE TypeOK
  OBVIOUS
<1>1. /\ IInv /\ SpendTypes /\ CountedOnce /\ RowsAreCounted /\ TraceBounds
      /\ MaxRequests \in Nat
  BY TraceAssumption DEF TypedInv, SpendInv, TraceAssumption
<1>2. /\ queue \in Seq(Events) /\ trace.sequence \in Nat /\ trace.requests \in Nat
      /\ trace.text \in BOOLEAN /\ trace.failed \in BOOLEAN
      /\ phase \in {"draining", "drained", "done", "crashed"}
  BY <1>1 DEF IInv, Current, Collectors
<1>3. PICK k \in 0..trace.sequence :
        stored = 1..k /\ trace.pending \in {{}, (k+1)..trace.sequence}
  BY <1>1 DEF IInv, Segmented, Current
<1>4. stored \subseteq 1..trace.sequence /\ trace.pending \subseteq 1..trace.sequence
  BY <1>2, <1>3
<1>5. /\ requested \in 0..MaxRequests
      /\ spent \in 0..MaxRequests /\ fallback \in 0..MaxRequests
  BY <1>1 DEF SpendTypes, TraceBounds
<1>6. metered \subseteq Requests
  <2>1. Waiting \in Nat /\ UnderWay \in Nat
    BY <1>2, UsagesAreFinite DEF Waiting, UnderWay
  <2>2. trace.requests <= MaxRequests
    BY <1>1, <1>2, <1>5, <2>1 DEF CountedOnce
  <2>3. 1..trace.requests \subseteq 1..MaxRequests
    BY <1>1, <1>2, <2>2
  <2>4. QED
    BY <1>1, <2>3 DEF RowsAreCounted, Requests
<1>7. QED
  BY <1>1, <1>2, <1>4, <1>5, <1>6 DEF TypeOK, TraceBounds, SpendTypes

(* The variables of a run have their types; in particular the buffer, the   *)
(* queue and the counters stay within their bounds (collector.go:34,        *)
(* 290-303).                                                                *)
THEOREM TraceIsTyped == Spec => []TypeOK
BY InitTypedInv, NextTypedInv, TypedInvImplies, PTL DEF Spec
-----------------------------------------------------------------------------
(***************************************************************************)
(* The refinement of DurableTrace.  The invariant says what the rows are in *)
(* every state; what is missing is that no step takes back a number or a    *)
(* row, which each step of the collector shows for itself.                  *)
(***************************************************************************)
(* Neither a number nor a row is ever taken back.                           *)
Grows(c, d) == d \in Collectors /\ c.s \subseteq d.s /\ c.t.sequence <= d.t.sequence

(* Neither a batch ...                                                      *)
LEMMA FlushPendingGrows ==
  ASSUME NEW c \in Collectors, NEW result \in Results
  PROVE  Grows(c, FlushPending(c, result))
<1> DEFINE d == FlushPending(c, result)
<1>1. c.t.sequence \in Nat
  BY DEF Collectors
<1>2. CASE c.t.pending = {}
  BY <1>1, <1>2 DEF FlushPending, Grows
<1>3. CASE c.t.pending # {}
  <2>1. /\ d \in Collectors /\ d.t.sequence = c.t.sequence
        /\ d.s = IF result = "failed" THEN c.s ELSE c.s \cup c.t.pending
    BY <1>3 DEF FlushPending, Collectors
  <2> HIDE DEF d
  <2>2. Grows(c, d)
    BY <1>1, <2>1 DEF Grows
  <2>3. QED
    BY <2>2 DEF d
<1>4. QED
  BY <1>2, <1>3

(* ... nor an event, with the batch it may cause, ...                       *)
LEMMA AppendEventGrows ==
  ASSUME NEW c \in Collectors, NEW result \in Results
  PROVE  Grows(c, AppendEvent(c, result))
<1> DEFINE n == c.t.sequence + 1
           v == [c.t EXCEPT !.sequence = n, !.pending = @ \cup {n}]
           u == [c EXCEPT !.t = v]
<1>1. u \in Collectors /\ u.s = c.s /\ u.t.sequence = n /\ n \in Nat /\ c.t.sequence < n
  <2>1. c.t.sequence \in Nat /\ n \in Nat /\ c.t.sequence < n
        /\ c.t.pending \cup {n} \in SUBSET Nat
    BY DEF Collectors
  <2>2. v = [c.t EXCEPT !.sequence = n, !.pending = c.t.pending \cup {n}]
    BY DEF Collectors
  <2> HIDE DEF n
  <2>3. v \in [sequence : Nat, text : BOOLEAN, pending : SUBSET Nat, failed : BOOLEAN,
               requests : Nat] /\ v.sequence = n
    BY <2>1, <2>2 DEF Collectors
  <2> HIDE DEF v
  <2>4. QED
    BY <2>1, <2>3 DEF Collectors
<1>2. AppendEvent(c, result) = IF Cardinality(u.t.pending) < MaxPending THEN u
                               ELSE FlushPending(u, result)
  BY DEF AppendEvent
<1> HIDE DEF u, n
<1>3. Grows(u, FlushPending(u, result))
  BY <1>1, FlushPendingGrows
<1>4. c.t.sequence \in Nat /\ FlushPending(u, result).t.sequence \in Nat
  BY <1>3 DEF Grows, Collectors
<1>5. QED
  BY <1>1, <1>2, <1>3, <1>4 DEF Grows

(* What grows in two steps has grown.                                       *)
LEMMA GrowsOn ==
  ASSUME NEW c \in Collectors, NEW d, Grows(c, d), NEW e, Grows(d, e)
  PROVE  Grows(c, e)
<1>1. c.t.sequence \in Nat /\ d.t.sequence \in Nat /\ e.t.sequence \in Nat
  BY DEF Grows, Collectors
<1>2. QED
  BY <1>1 DEF Grows

(* ... nor the text, ...                                                    *)
LEMMA FlushTextGrows ==
  ASSUME NEW c \in Collectors, NEW result \in Results
  PROVE  Grows(c, FlushText(c, result))
<1> DEFINE d == [c EXCEPT !.t.text = FALSE]
<1>1. d \in Collectors /\ d.s = c.s /\ d.t.sequence = c.t.sequence /\ c.t.sequence \in Nat
  BY DEF Collectors
<1>2. FlushText(c, result) \in {c, d, AppendEvent(d, result)}
  BY DEF FlushText
<1> HIDE DEF d
<1>3. Grows(d, AppendEvent(d, result))
  BY <1>1, AppendEventGrows
<1>4. Grows(c, c) /\ Grows(c, d)
  BY <1>1 DEF Grows
<1>5. QED
  BY <1>2, <1>3, <1>4, GrowsOn

(* ... nor a request ...                                                    *)
LEMMA AfterUsageGrows ==
  ASSUME NEW c \in Collectors, NEW results \in [1..2 -> Results]
  PROVE  Grows(c, AfterUsage(c, results))
<1> DEFINE flushed == IF Capture = "all-visible" THEN FlushText(c, results[1]) ELSE c
<1>1. results[1] \in Results /\ results[2] \in Results
  OBVIOUS
<1>2. Grows(c, flushed)
  <2>1. c.t.sequence \in Nat
    BY DEF Collectors
  <2>2. QED
    BY <1>1, <2>1, FlushTextGrows DEF Grows
<1>3. AfterUsage(c, results) \in {flushed, AppendEvent(flushed, results[2])}
  BY DEF AfterUsage
<1> HIDE DEF flushed
<1>4. Grows(flushed, AppendEvent(flushed, results[2]))
  BY <1>1, <1>2, AppendEventGrows DEF Grows
<1>5. QED
  BY <1>2, <1>3, <1>4, GrowsOn

(* ... nor the end of the run takes anything back.                          *)
LEMMA AfterTerminalGrows ==
  ASSUME NEW c \in Collectors, NEW results \in [1..3 -> Results]
  PROVE  Grows(c, AfterTerminal(c, results))
<1> DEFINE flushed == FlushText(c, results[1])
           last == IF flushed.t.failed THEN flushed ELSE AppendEvent(flushed, results[2])
<1>1. results[1] \in Results /\ results[2] \in Results /\ results[3] \in Results
  OBVIOUS
<1>2. Grows(c, flushed)
  BY <1>1, FlushTextGrows
<1> HIDE DEF flushed
<1>3. Grows(c, last)
  <2>1. Grows(flushed, AppendEvent(flushed, results[2]))
    BY <1>1, <1>2, AppendEventGrows DEF Grows
  <2>2. QED
    BY <1>2, <2>1, GrowsOn
<1>4. AfterTerminal(c, results) \in {last, FlushPending(last, results[3])}
  BY DEF AfterTerminal, flushed
<1> HIDE DEF last
<1>5. Grows(last, FlushPending(last, results[3]))
  BY <1>1, <1>3, FlushPendingGrows DEF Grows
<1>6. QED
  BY <1>3, <1>4, <1>5, GrowsOn

(* What Drain does to a trace without a failure.                            *)
LEMMA DrainGrows ==
  ASSUME IInv, Drain
  PROVE  stored \subseteq stored' /\ trace.sequence <= trace'.sequence
<1>1. /\ Current \in Collectors /\ Current.t = trace /\ Current.s = stored
      /\ trace.sequence \in Nat
  BY DEF IInv, Current, Collectors
<1>2. \A d : Becomes(d) /\ Grows(Current, d) =>
              stored \subseteq stored' /\ trace.sequence <= trace'.sequence
  BY <1>1 DEF Becomes, Grows
<1>3. CASE UNCHANGED <<trace, stored>>
  BY <1>1, <1>3
<1>4. CASE HandleText
  <2>1. trace' = [trace EXCEPT !.text = @ \/ (Enabled /\ Capture # "none")] /\ stored' = stored
    BY <1>4 DEF HandleText
  <2>2. trace'.sequence = trace.sequence
    BY <1>1, <2>1 DEF Collectors
  <2>3. QED
    BY <1>1, <2>1, <2>2
<1>5. CASE HandleTool /\ Enabled
  <2>1. PICK result \in Results : Becomes(AppendEvent(Current, result))
    BY <1>5 DEF HandleTool
  <2>2. QED
    BY <1>1, <1>2, <2>1, AppendEventGrows
<1>6. CASE HandleUsage
  <2> DEFINE c == [Current EXCEPT !.t.requests = @ + 1]
             failed == [c EXCEPT !.t.failed = TRUE]
  <2>1. Grows(Current, c) /\ Grows(Current, failed)
    <3>1. c.s = Current.s /\ c.t = [Current.t EXCEPT !.requests = Current.t.requests + 1]
      BY <1>1 DEF Collectors
    <3>2. c \in Collectors /\ c.t.sequence = trace.sequence
      BY <1>1, <3>1 DEF Collectors
    <3>3. failed.s = c.s /\ failed.t = [c.t EXCEPT !.failed = TRUE]
      BY <3>2 DEF Collectors
    <3>4. c.s = stored
      BY <1>1, <3>1
    <3> HIDE DEF c
    <3>5. failed \in Collectors /\ failed.t.sequence = trace.sequence
      BY <3>2, <3>3 DEF Collectors
    <3> HIDE DEF failed
    <3>6. QED
      BY <1>1, <3>2, <3>3, <3>4, <3>5 DEF Grows
  <2> HIDE DEF c, failed
  <2>2. CASE \E results \in [1..2 -> Results] : Becomes(AfterUsage(c, results))
    <3>1. PICK results \in [1..2 -> Results] : Becomes(AfterUsage(c, results))
      BY <2>2
    <3>2. Grows(c, AfterUsage(c, results))
      BY <2>1, AfterUsageGrows DEF Grows
    <3>3. QED
      BY <1>1, <1>2, <2>1, <3>1, <3>2, GrowsOn
  <2>3. CASE Becomes(failed)
    BY <1>2, <2>1, <2>3
  <2>4. QED
    BY <1>6, <2>2, <2>3 DEF HandleUsage, c, failed
<1>7. CASE HandleTerminal /\ Enabled
  <2>1. PICK results \in [1..3 -> Results] : Becomes(AfterTerminal(Current, results))
    BY <1>7 DEF HandleTerminal
  <2>2. Grows(Current, AfterTerminal(Current, results))
    BY <1>1, AfterTerminalGrows
  <2>3. QED
    BY <1>2, <2>1, <2>2
<1>8. CASE (HandleTool \/ HandleTerminal) /\ ~ Enabled
  BY <1>3, <1>8 DEF HandleTool, HandleTerminal
<1>9. Head(queue) \in Events
  BY TakenUsage DEF IInv, Drain
<1>10. UNCHANGED <<trace, stored>> \/ HandleText \/ HandleTool \/ HandleUsage \/ HandleTerminal
  BY <1>9 DEF Drain, Events
<1>11. QED
  BY <1>3, <1>4, <1>5, <1>6, <1>7, <1>8, <1>10

(* Every step is one of the abstract trace, or none.                        *)
LEMMA StepKeepsLog == IInv /\ IInv' /\ [Next]_vars => [Log!Next]_(Log!vars)
<1> SUFFICES ASSUME IInv, IInv', [Next]_vars PROVE [Log!Next]_(Log!vars)
  OBVIOUS
<1>1. trace.sequence \in Nat /\ trace.failed \in BOOLEAN
      /\ trace'.sequence \in Nat /\ trace'.failed \in BOOLEAN
  BY DEF IInv, Current, Collectors
<1>2. ASSUME UNCHANGED <<trace, stored, phase>> PROVE [Log!Next]_(Log!vars)
  BY <1>2 DEF Log!vars, LogState
<1>3. CASE \/ BeginRequest \/ EndRequest \/ \E e \in Events : Emit(e)
           \/ EndRun \/ UNCHANGED vars
  BY <1>2, <1>3 DEF BeginRequest, EndRequest, Emit, EndRun, vars
<1>4. CASE Drain
  <2>1. phase = "draining" /\ phase' = "draining"
    BY <1>4 DEF Drain
  <2>2. CASE trace.failed
    BY <1>2, <1>4, <2>1, <2>2 DEF Drain
  <2>3. CASE ~ trace.failed
    <3>1. stored \subseteq stored' /\ trace.sequence <= trace'.sequence
      BY <1>4, DrainGrows
    <3>2. \E n \in 0..trace'.sequence : stored' = 1..n
      BY DEF IInv, Segmented, Current
    <3>3. LogState = "open" /\ LogState' \in {"open", "failed"}
      BY <2>1, <2>3 DEF LogState
    <3>4. Log!Record
      BY <1>1, <3>1, <3>2, <3>3 DEF Log!Record
    <3>5. QED
      BY <3>4 DEF Log!Next
  <2>4. QED
    BY <2>2, <2>3
<1>5. CASE Flush
  <2>1. phase = "draining" /\ phase' = "drained"
    BY <1>5 DEF Flush
  <2>2. PICK result \in Results : /\ trace' = FlushPending(Current, result).t
                                  /\ stored' = FlushPending(Current, result).s
    BY <1>5 DEF Flush
  <2>3. /\ trace'.sequence = trace.sequence
        /\ stored' \in {stored, stored \cup trace.pending}
        /\ trace.failed => trace'.failed
    <3>1. /\ Current \in Collectors /\ Current.t = trace /\ Current.s = stored
      BY DEF IInv, Current
    <3>2. CASE trace.pending = {}
      BY <2>2, <3>1, <3>2 DEF FlushPending
    <3>3. CASE trace.pending # {}
      <4>1. trace' = [trace EXCEPT !.pending = {}, !.failed = @ \/ result # "ok"]
        BY <2>2, <3>1, <3>3 DEF FlushPending
      <4>2. stored' = IF result = "failed" THEN stored ELSE stored \cup trace.pending
        BY <2>2, <3>1, <3>3 DEF FlushPending
      <4>3. QED
        BY <3>1, <4>1, <4>2 DEF Collectors
    <3>4. QED
      BY <3>2, <3>3
  <2>4. stored' \in {stored, 1..trace.sequence}
    <3>1. PICK k \in 0..trace.sequence :
            stored = 1..k /\ trace.pending \in {{}, (k+1)..trace.sequence}
      BY DEF IInv, Segmented, Current
    <3>2. (1..k) \cup ((k+1)..trace.sequence) = 1..trace.sequence
      BY <1>1
    <3>3. QED
      BY <2>3, <3>1, <3>2
  <2>5. ~ trace'.failed => ~ trace.failed /\ stored' = 1..trace.sequence
    <3>1. DrainedIsComplete'
      BY DrainedRowsAreAll, PTL
    <3>2. QED
      BY <2>1, <2>3, <3>1 DEF DrainedIsComplete
  <2>6. /\ LogState = IF trace.failed THEN "failed" ELSE "open"
        /\ LogState' = IF trace'.failed THEN "partial" ELSE "complete"
    BY <2>1 DEF LogState
  <2>7. Log!Close
    BY <2>3, <2>4, <2>5, <2>6 DEF Log!Close
  <2>8. QED
    BY <2>7 DEF Log!Next
<1>6. CASE RecordSpend
  BY <1>6 DEF RecordSpend, Log!vars, LogState
<1>7. CASE Crash
  <2>1. /\ trace' = [trace EXCEPT !.pending = {}, !.text = FALSE]
        /\ stored' = stored /\ phase' = "crashed"
    BY <1>7 DEF Crash
  <2>2. trace'.sequence = trace.sequence
    BY <2>1 DEF IInv, Current, Collectors
  <2>3. Log!Die
    BY <2>1, <2>2 DEF Log!Die, LogState
  <2>4. QED
    BY <2>3 DEF Log!Next
<1>8. QED
  BY <1>3, <1>4, <1>5, <1>6, <1>7 DEF Next

(* Whatever the collector buffers, whichever call of the database fails or  *)
(* loses its answer, and wherever the process dies: the rows are the first  *)
(* events, a failure ends the numbering, and a trace that ends without one  *)
(* is complete (collector.go:90-162, 290-331; loop.go:429-474).             *)
THEOREM CollectorImplementsLog == Spec => TraceIsDurable
<1>1. Init => Log!Init
  BY DEF Init, Log!Init, LogState
<1>2. QED
  BY <1>1, InitIInv, NextIInv, StepKeepsLog, PTL DEF Spec, TraceIsDurable, Log!Spec
=============================================================================
