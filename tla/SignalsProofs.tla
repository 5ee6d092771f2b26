--------------------------- MODULE SignalsProofs ---------------------------
(***************************************************************************)
(* The ways of a signal into Sidecar: what a run of MCSignals checks on a   *)
(* small instance holds for every order of adapters, every history of       *)
(* commits, every set of projects, rules, endpoints, patterns, sources and  *)
(* commands, and every capacity.  Each part has an inductive invariant of   *)
(* its own; the last section puts them together.                            *)
(***************************************************************************)
EXTENDS LogProofs

(***************************************************************************)
(* The daemon.  Only a goroutine that has nothing to wait for begins a      *)
(* signal, so a polling adapter offers its last one or none, and the others *)
(* are in the queue in their order, for adapters that are told to stop as   *)
(* well (QueueInOrder); for an adapter that is not stopped none is missing  *)
(* (NoGap), because it had reported nothing when it was started             *)
(* (NotStartedYet).                                                        *)
(***************************************************************************)
QueueInOrder(a) ==
  /\ \A i \in DOMAIN Attach!Queue :
       Attach!Queue[i][1] = a => /\ Attach!Queue[i][2] \in 1..begun[a]
                                 /\ Attach!Queue[i] \notin offered
  /\ \A i, j \in DOMAIN Attach!Queue :
       i < j /\ Attach!Queue[i][1] = a /\ Attach!Queue[j][1] = a
         => Attach!Queue[i][2] < Attach!Queue[j][2]

OffersItsLast(a) == \A s \in offered : s[1] = a => s[2] = begun[a]

NoGap(a) ==
  \A n \in 1..begun[a] : <<a, n>> \in offered \/ \E i \in DOMAIN Attach!Queue : Attach!Queue[i] = <<a, n>>

NotStartedYet(a) == main = "starting" => a \notin looping /\ begun[a] = 0

DaemonInv ==
  /\ Attach!TypeOK
  /\ main = "joining" => at <= Len(Order)
  /\ \A a \in Attach!Pollers :
       /\ QueueInOrder(a) /\ OffersItsLast(a)
       /\ IF a \in active THEN NoGap(a) ELSE NotStartedYet(a)

LEMMA DaemonConstants ==
  /\ Len(Order) \in Nat /\ DOMAIN Order = 1..Len(Order)
  /\ \A i \in 1..Len(Order) : Order[i] \in Attach!Adapters
  /\ Capacity \in Nat \ {0} /\ Ticks \in Nat
  /\ Attach!Pollers \subseteq Attach!Adapters
<1>1. /\ Order \in Seq(Attach!Adapters) /\ Capacity \in Nat \ {0} /\ Ticks \in Nat
  BY PartAssumptions DEF Attach!DaemonAssumption
<1>2. Len(Order) \in Nat /\ DOMAIN Order = 1..Len(Order)
  BY <1>1, LenProperties
<1>3. \A i \in 1..Len(Order) : Order[i] \in Attach!Adapters
  BY <1>2 DEF Attach!Adapters
<1>4. QED
  BY <1>1, <1>2, <1>3 DEF Attach!Pollers

(* A signal is the pair of its parts.                                      *)
LEMMA SignalIsPair ==
  ASSUME NEW s \in Attach!Signals
  PROVE  /\ s = <<s[1], s[2]>> /\ s[1] \in Attach!Adapters /\ s[2] \in Nat
         /\ s[2] \in 1..Ticks
BY DaemonConstants DEF Attach!Signals

(* The queue is a sequence of signals; a send appends to it, and a receive  *)
(* leaves it alone.                                                        *)
LEMMA QueueType ==
  ASSUME Attach!TypeOK
  PROVE  /\ Attach!Queue \in Seq(Attach!Signals) /\ Len(Attach!Queue) \in Nat
         /\ DOMAIN Attach!Queue = 1..Len(Attach!Queue)
         /\ \A i \in DOMAIN Attach!Queue : Attach!Queue[i] \in Attach!Signals
<1>1. Attach!Queue \in Seq(Attach!Signals)
  BY ConcatProperties DEF Attach!TypeOK, Attach!Queue
<1>2. QED
  BY <1>1, LenProperties, ElementOfSeq

LEMMA SendAppends ==
  ASSUME Attach!TypeOK, NEW s \in Attach!Signals,
         handled' = handled, channel' = Append(channel, s)
  PROVE  /\ Attach!Queue' = Append(Attach!Queue, s)
         /\ channel' \in Seq(Attach!Signals) /\ Len(channel') = Len(channel) + 1
<1>1. handled \in Seq(Attach!Signals) /\ channel \in Seq(Attach!Signals)
      /\ <<s>> \in Seq(Attach!Signals)
  BY DEF Attach!TypeOK
<1>2. Append(channel, s) = channel \o <<s>>
  BY <1>1, AppendIsConcat
<1>3. (handled \o channel) \o <<s>> = handled \o (channel \o <<s>>)
  BY <1>1, ConcatAssociative
<1>4. handled \o channel \in Seq(Attach!Signals)
  BY <1>1, ConcatProperties
<1>5. Append(handled \o channel, s) = (handled \o channel) \o <<s>>
  BY <1>4, AppendIsConcat
<1>6. Attach!Queue' = Append(Attach!Queue, s)
  BY <1>2, <1>3, <1>5 DEF Attach!Queue
<1>7. QED
  BY <1>1, <1>6, AppendProperties

LEMMA ReceiveKeepsQueue ==
  ASSUME Attach!TypeOK, channel # << >>,
         handled' = Append(handled, Head(channel)), channel' = Tail(channel)
  PROVE  /\ Attach!Queue' = Attach!Queue
         /\ handled' \in Seq(Attach!Signals) /\ channel' \in Seq(Attach!Signals)
         /\ Len(channel') <= Len(channel)
<1> DEFINE h == Head(channel)
           t == Tail(channel)
<1>1. handled \in Seq(Attach!Signals) /\ channel \in Seq(Attach!Signals)
      /\ Len(channel) \in Nat
  BY LenProperties DEF Attach!TypeOK
<1>2. /\ h \in Attach!Signals /\ t \in Seq(Attach!Signals) /\ Len(t) = Len(channel) - 1
      /\ Len(channel) \in Nat
  BY <1>1, HeadTailProperties
<1>3. <<h>> \in Seq(Attach!Signals)
  BY <1>2
<1>4. <<h>> \o t = channel
  BY <1>1
<1>5. Append(handled, h) = handled \o <<h>>
  BY <1>1, <1>2, AppendIsConcat
<1>6. (handled \o <<h>>) \o t = handled \o (<<h>> \o t)
  BY <1>1, <1>2, <1>3, ConcatAssociative
<1>7. Attach!Queue' = Attach!Queue
  BY <1>4, <1>5, <1>6 DEF Attach!Queue
<1>8. handled' \in Seq(Attach!Signals)
  BY <1>1, <1>2, AppendProperties
<1>9. QED
  BY <1>1, <1>2, <1>7, <1>8

LEMMA DaemonInitInv == Attach!Init => DaemonInv
<1> SUFFICES ASSUME Attach!Init PROVE DaemonInv
  OBVIOUS
<1>1. /\ main = "starting" /\ at = 1 /\ active = {} /\ looping = {} /\ offered = {}
      /\ channel = << >> /\ handled = << >> /\ handler = "none"
      /\ done = FALSE /\ ended = FALSE /\ begun = [a \in Attach!Adapters |-> 0]
  BY DEF Attach!Init
<1>2. Attach!TypeOK
  <2>1. << >> \in Seq(Attach!Signals) /\ Len(<< >>) = 0
    BY EmptySeq
  <2>2. begun \in [Attach!Adapters -> 0..Ticks] /\ 0 <= Capacity /\ 1 \in 1..(Len(Order) + 1)
    BY <1>1, DaemonConstants
  <2>3. QED
    BY <1>1, <2>1, <2>2 DEF Attach!TypeOK
<1>3. DOMAIN Attach!Queue = {}
  BY <1>1 DEF Attach!Queue
<1>4. ASSUME NEW a \in Attach!Pollers
      PROVE  QueueInOrder(a) /\ OffersItsLast(a) /\ NotStartedYet(a)
  BY <1>1, <1>3, DaemonConstants DEF QueueInOrder, OffersItsLast, NotStartedYet
<1>5. QED
  BY <1>1, <1>2, <1>4 DEF DaemonInv

(* A step that touches neither the queue nor what the adapters offer.      *)
LEMMA QuietStepKeepsInv ==
  ASSUME DaemonInv, Attach!TypeOK', main' = "joining" => at' <= Len(Order),
         UNCHANGED <<begun, offered>>, Attach!Queue' = Attach!Queue,
         \A a \in active' : a \in active \/ main = "starting",
         main' = "starting" =>
           main = "starting" /\ active \subseteq active' /\ looping' \subseteq looping \cup active'
  PROVE  DaemonInv'
<1>1. ASSUME NEW a \in Attach!Pollers
      PROVE  /\ QueueInOrder(a)' /\ OffersItsLast(a)'
             /\ IF a \in active' THEN NoGap(a)' ELSE NotStartedYet(a)'
  <2>1. /\ QueueInOrder(a) /\ OffersItsLast(a)
        /\ IF a \in active THEN NoGap(a) ELSE NotStartedYet(a)
    BY DEF DaemonInv
  <2>2. QueueInOrder(a)' /\ OffersItsLast(a)'
    BY <2>1 DEF QueueInOrder, OffersItsLast
  <2>3. CASE a \in active' /\ a \in active
    BY <2>1, <2>2, <2>3 DEF NoGap
  <2>4. CASE a \in active' /\ a \notin active
    <3>1. begun[a] = 0
      BY <2>1, <2>4 DEF NotStartedYet
    <3>2. QED
      BY <2>2, <2>4, <3>1 DEF NoGap
  <2>5. CASE a \notin active'
    BY <2>1, <2>2, <2>5 DEF NotStartedYet
  <2>6. QED
    BY <2>2, <2>3, <2>4, <2>5
<1>2. QED
  BY <1>1 DEF DaemonInv

LEMMA AttachKeepsInv == DaemonInv /\ Attach!Attach => DaemonInv'
<1> SUFFICES ASSUME DaemonInv, Attach!Attach PROVE DaemonInv'
  OBVIOUS
<1>1. /\ Attach!TypeOK /\ (main = "joining" => at <= Len(Order))
      /\ Len(Order) \in Nat /\ at \in 1..(Len(Order) + 1)
  BY DaemonConstants DEF DaemonInv, Attach!TypeOK
<1>2. at <= Len(Order) => at \in 1..Len(Order) /\ at + 1 \in 1..(Len(Order) + 1)
  BY <1>1
<1>3. 1 \in 1..(Len(Order) + 1)
  BY <1>1
<1>4. CASE Attach!StartAdapter
  <2>1. /\ main = "starting" /\ at <= Len(Order)
        /\ active' = active \cup {Order[at]}
        /\ looping' = looping \cup ({Order[at]} \cap Attach!Pollers)
        /\ at' = at + 1
        /\ UNCHANGED <<main, begun, offered, channel, done, ended, handler, handled>>
    BY <1>4 DEF Attach!StartAdapter
  <2>2. Order[at] \in Attach!Adapters
    BY <1>2, <2>1, DaemonConstants
  <2>3. Attach!TypeOK'
    BY <1>1, <1>2, <2>1, <2>2 DEF Attach!TypeOK
  <2>4. Attach!Queue' = Attach!Queue
    BY <2>1 DEF Attach!Queue
  <2>5. QED
    BY <2>1, <2>3, <2>4, QuietStepKeepsInv
<1>5. ASSUME /\ UNCHANGED <<looping, begun, offered, channel, handled>>
             /\ active' \subseteq active /\ main' # "starting"
             /\ main' = "joining" => at' <= Len(Order)
             /\ Attach!TypeOK'
      PROVE  DaemonInv'
  <2>1. Attach!Queue' = Attach!Queue
    BY <1>5 DEF Attach!Queue
  <2>2. QED
    BY <1>5, <2>1, QuietStepKeepsInv
<1>6. CASE Attach!StartFails \/ Attach!StartHandler \/ Attach!Interrupt
  <2>1. Attach!TypeOK'
    BY <1>1, <1>3, <1>6
       DEF Attach!TypeOK, Attach!StartFails, Attach!StartHandler, Attach!Interrupt,
           Attach!adapterVars
  <2>2. QED
    BY <1>5, <1>6, <2>1
       DEF Attach!StartFails, Attach!StartHandler, Attach!Interrupt, Attach!adapterVars
<1>7. CASE Attach!StopAdapter \/ Attach!AdapterStopped
  <2>1. Attach!TypeOK'
    BY <1>1, <1>2, <1>7
       DEF Attach!TypeOK, Attach!StopAdapter, Attach!AdapterStopped, Attach!adapterVars
  <2>2. QED
    BY <1>5, <1>7, <2>1 DEF Attach!StopAdapter, Attach!AdapterStopped, Attach!adapterVars
<1>8. CASE Attach!CloseDone \/ Attach!ProcessExits
  <2>1. Attach!TypeOK'
    BY <1>1, <1>8 DEF Attach!TypeOK, Attach!CloseDone, Attach!ProcessExits, Attach!adapterVars
  <2>2. QED
    BY <1>5, <1>8, <2>1 DEF Attach!CloseDone, Attach!ProcessExits, Attach!adapterVars
<1>9. QED
  BY <1>4, <1>6, <1>7, <1>8 DEF Attach!Attach, Attach!StartsNext, Attach!StopsNext

(* A poller begins a signal when it has none, a cron job whenever it is due. *)
LEMMA OffersKeepInv ==
  ASSUME NEW a \in Attach!Adapters
  PROVE  DaemonInv /\ (Attach!PollerOffers(a) \/ Attach!CronTick(a)) => DaemonInv'
<1> SUFFICES ASSUME DaemonInv, Attach!PollerOffers(a) \/ Attach!CronTick(a) PROVE DaemonInv'
  OBVIOUS
<1> DEFINE s == <<a, begun[a] + 1>>
<1>1. /\ begun[a] < Ticks
      /\ begun' = [begun EXCEPT ![a] = @ + 1]
      /\ offered' = offered \cup {s}
      /\ UNCHANGED <<main, at, active, done, ended, looping, channel, handler, handled>>
  BY DEF Attach!PollerOffers, Attach!CronTick, Attach!attachVars
<1>2. Attach!TypeOK
  BY DEF DaemonInv
<1>3. a \in Attach!Pollers => a \in looping /\ Attach!OffersOf(a) = {}
  BY DEF Attach!PollerOffers, Attach!CronTick, Attach!Pollers
<1>4. \A b \in Attach!Adapters : begun[b] \in Nat
  BY <1>2, DaemonConstants DEF Attach!TypeOK
<1>5. /\ begun'[a] = begun[a] + 1
      /\ \A b \in Attach!Adapters : b # a => begun'[b] = begun[b]
      /\ begun' \in [Attach!Adapters -> 0..Ticks]
  BY <1>1, <1>2, <1>4, DaemonConstants DEF Attach!TypeOK
<1>6. s \in Attach!Signals
  BY <1>1, <1>4, DaemonConstants DEF Attach!Signals
<1>7. Attach!TypeOK'
  BY <1>1, <1>2, <1>5, <1>6 DEF Attach!TypeOK
<1>8. Attach!Queue' = Attach!Queue
  BY <1>1 DEF Attach!Queue
<1>9. s[1] = a /\ s[2] = begun[a] + 1
  OBVIOUS
<1> HIDE DEF s
<1>10. ASSUME NEW b \in Attach!Pollers, b # a
       PROVE  /\ QueueInOrder(b)' /\ OffersItsLast(b)'
              /\ IF b \in active' THEN NoGap(b)' ELSE NotStartedYet(b)'
  <2>1. /\ QueueInOrder(b) /\ OffersItsLast(b)
        /\ IF b \in active THEN NoGap(b) ELSE NotStartedYet(b)
    BY DEF DaemonInv
  <2>2. begun'[b] = begun[b] /\ s[1] # b
    BY <1>5, <1>9, <1>10, DaemonConstants
  <2>3. QueueInOrder(b)'
    BY <1>1, <1>8, <2>1, <2>2 DEF QueueInOrder
  <2>4. OffersItsLast(b)'
    BY <1>1, <2>1, <2>2 DEF OffersItsLast
  <2>5. b \in active' => NoGap(b)'
    BY <1>1, <1>8, <2>1, <2>2 DEF NoGap
  <2>6. b \notin active' => NotStartedYet(b)'
    BY <1>1, <2>1, <2>2 DEF NotStartedYet
  <2>7. QED
    BY <2>3, <2>4, <2>5, <2>6
<1>11. ASSUME a \in Attach!Pollers
       PROVE  /\ QueueInOrder(a)' /\ OffersItsLast(a)'
              /\ IF a \in active' THEN NoGap(a)' ELSE NotStartedYet(a)'
  <2>1. /\ QueueInOrder(a) /\ OffersItsLast(a) /\ begun[a] \in Nat
        /\ IF a \in active THEN NoGap(a) ELSE NotStartedYet(a)
    BY <1>4, <1>11 DEF DaemonInv
  <2>2. \A t \in offered : t[1] # a
    BY <1>3, <1>11 DEF Attach!OffersOf
  <2>3. QueueInOrder(a)'
    <3>1. ASSUME NEW i \in DOMAIN Attach!Queue, Attach!Queue[i][1] = a
          PROVE  Attach!Queue[i][2] \in 1..begun'[a] /\ Attach!Queue[i] \notin offered'
      <4>1. Attach!Queue[i][2] \in 1..begun[a] /\ Attach!Queue[i] \notin offered
        BY <2>1, <3>1 DEF QueueInOrder
      <4>2. Attach!Queue[i] # s
        BY <1>9, <2>1, <4>1
      <4>3. Attach!Queue[i][2] \in 1..begun'[a]
        BY <1>5, <2>1, <4>1
      <4>4. QED
        BY <1>1, <4>1, <4>2, <4>3
    <3>2. QED
      BY <1>8, <2>1, <3>1 DEF QueueInOrder
  <2>4. OffersItsLast(a)'
    BY <1>1, <1>5, <1>9, <2>2 DEF OffersItsLast
  <2>5. a \in active' => NoGap(a)'
    <3> SUFFICES ASSUME a \in active, NEW n \in 1..begun'[a]
                 PROVE  \/ <<a, n>> \in offered'
                        \/ \E i \in DOMAIN Attach!Queue : Attach!Queue[i] = <<a, n>>
      BY <1>1, <1>8 DEF NoGap
    <3>1. CASE n = begun[a] + 1
      BY <1>1, <3>1 DEF s
    <3>2. CASE n # begun[a] + 1
      <4>1. n \in 1..begun[a]
        BY <1>5, <2>1, <3>2
      <4>2. QED
        BY <1>1, <2>1, <4>1 DEF NoGap
    <3>3. QED
      BY <3>1, <3>2
  <2>6. a \notin active' => NotStartedYet(a)'
    BY <1>1, <1>3, <1>11, <2>1 DEF NotStartedYet
  <2>7. QED
    BY <2>3, <2>4, <2>5, <2>6
<1>12. QED
  BY <1>1, <1>7, <1>10, <1>11 DEF DaemonInv

(* What is sent is the last signal of its adapter, so it belongs at the end. *)
LEMMA SendKeepsInv ==
  ASSUME NEW s \in offered
  PROVE  DaemonInv /\ Attach!Send(s) => DaemonInv'
<1> SUFFICES ASSUME DaemonInv, Attach!Send(s) PROVE DaemonInv'
  OBVIOUS
<1> DEFINE q == Attach!Queue
           n == Len(q)
<1>1. /\ Len(channel) < Capacity /\ channel' = Append(channel, s)
      /\ offered' = offered \ {s}
      /\ UNCHANGED <<main, at, active, done, ended, looping, begun, handler, handled>>
  BY DEF Attach!Send, Attach!attachVars
<1>2. Attach!TypeOK /\ s \in Attach!Signals
  BY DEF DaemonInv, Attach!TypeOK
<1>3. /\ Attach!Queue' = Append(q, s)
      /\ channel' \in Seq(Attach!Signals) /\ Len(channel') = Len(channel) + 1
  BY <1>1, <1>2, SendAppends
<1>4. /\ q \in Seq(Attach!Signals) /\ n \in Nat /\ DOMAIN q = 1..n
      /\ \A i \in DOMAIN q : q[i] \in Attach!Signals
  BY <1>2, QueueType
<1>5. /\ Append(q, s) \in Seq(Attach!Signals) /\ Len(Append(q, s)) = n + 1
      /\ \A i \in 1..n : Append(q, s)[i] = q[i]
      /\ Append(q, s)[n + 1] = s
  BY <1>2, <1>4, AppendProperties
<1>6. /\ DOMAIN Attach!Queue' = 1..(n + 1)
      /\ \A i \in 1..n : Attach!Queue'[i] = q[i]
      /\ Attach!Queue'[n + 1] = s
      /\ \A i \in 1..(n + 1) : i \in 1..n \/ i = n + 1
      /\ \A i \in 1..n : i \in 1..(n + 1) /\ i < n + 1
      /\ n + 1 \in 1..(n + 1)
  BY <1>3, <1>4, <1>5, LenProperties
<1>7. Attach!TypeOK'
  <2>1. Len(channel) \in Nat
    BY <1>2, LenProperties DEF Attach!TypeOK
  <2>2. Len(channel') <= Capacity
    BY <1>1, <1>3, <2>1, DaemonConstants
  <2>3. QED
    BY <1>1, <1>2, <1>3, <2>2 DEF Attach!TypeOK
<1>8. q = Attach!Queue
  OBVIOUS
<1> HIDE DEF q, n
<1>9. ASSUME NEW a \in Attach!Pollers
      PROVE  /\ QueueInOrder(a)' /\ OffersItsLast(a)'
             /\ IF a \in active' THEN NoGap(a)' ELSE NotStartedYet(a)'
  <2>1. /\ QueueInOrder(a) /\ OffersItsLast(a)
        /\ IF a \in active THEN NoGap(a) ELSE NotStartedYet(a)
    BY DEF DaemonInv
  <2>2. begun[a] \in Nat
    BY <1>2, DaemonConstants DEF Attach!TypeOK
  <2>3. ASSUME s[1] = a
        PROVE  /\ s[2] = begun[a] /\ begun[a] \in 1..begun[a]
               /\ \A i \in 1..n : q[i][1] = a => q[i][2] < s[2]
    <3>1. s[2] = begun[a] /\ s[2] \in 1..Ticks /\ s = <<s[1], s[2]>>
      BY <1>2, <2>1, <2>3, SignalIsPair DEF OffersItsLast
    <3>2. begun[a] \in 1..begun[a]
      BY <2>2, <3>1, DaemonConstants
    <3>3. ASSUME NEW i \in 1..n, q[i][1] = a PROVE q[i][2] < s[2]
      <4>1. q[i][2] \in 1..begun[a] /\ q[i] \notin offered
        BY <1>4, <1>8, <2>1, <3>3 DEF QueueInOrder
      <4>2. q[i] = <<q[i][1], q[i][2]>>
        BY <1>4, <3>3, SignalIsPair
      <4>3. q[i][2] # s[2]
        BY <2>3, <3>1, <3>3, <4>1, <4>2
      <4>4. QED
        BY <2>2, <3>1, <4>1, <4>3
    <3>4. QED
      BY <3>1, <3>2, <3>3
  <2>4. QueueInOrder(a)'
    <3>1. ASSUME NEW i \in 1..(n + 1), Attach!Queue'[i][1] = a
          PROVE  Attach!Queue'[i][2] \in 1..begun[a] /\ Attach!Queue'[i] \notin offered'
      <4>1. CASE i \in 1..n
        BY <1>1, <1>4, <1>6, <1>8, <2>1, <3>1, <4>1 DEF QueueInOrder
      <4>2. CASE i = n + 1
        BY <1>1, <1>6, <2>3, <3>1, <4>2
      <4>3. QED
        BY <1>6, <4>1, <4>2
    <3>2. ASSUME NEW i \in 1..(n + 1), NEW j \in 1..(n + 1), i < j,
                 Attach!Queue'[i][1] = a, Attach!Queue'[j][1] = a
          PROVE  Attach!Queue'[i][2] < Attach!Queue'[j][2]
      <4>1. i \in 1..n
        BY <1>4, <1>6, <3>2
      <4>2. CASE j \in 1..n
        BY <1>4, <1>6, <1>8, <2>1, <3>2, <4>1, <4>2 DEF QueueInOrder
      <4>3. CASE j = n + 1
        BY <1>6, <2>3, <3>2, <4>1, <4>3
      <4>4. QED
        BY <1>6, <4>2, <4>3
    <3>3. QED
      BY <1>1, <1>6, <3>1, <3>2 DEF QueueInOrder
  <2>5. OffersItsLast(a)'
    BY <1>1, <2>1 DEF OffersItsLast
  <2>6. a \in active' => NoGap(a)'
    <3> SUFFICES ASSUME a \in active, NEW g \in 1..begun[a]
                 PROVE  \/ <<a, g>> \in offered'
                        \/ \E i \in DOMAIN Attach!Queue' : Attach!Queue'[i] = <<a, g>>
      BY <1>1 DEF NoGap
    <3>1. <<a, g>> \in offered \/ \E i \in DOMAIN q : q[i] = <<a, g>>
      BY <1>8, <2>1 DEF NoGap
    <3>2. CASE <<a, g>> = s
      BY <1>6, <3>2
    <3>3. CASE <<a, g>> # s /\ <<a, g>> \in offered
      BY <1>1, <3>3
    <3>4. CASE \E i \in DOMAIN q : q[i] = <<a, g>>
      BY <1>4, <1>6, <3>4
    <3>5. QED
      BY <3>1, <3>2, <3>3, <3>4
  <2>7. a \notin active' => NotStartedYet(a)'
    BY <1>1, <2>1 DEF NotStartedYet
  <2>8. QED
    BY <2>4, <2>5, <2>6, <2>7
<1>10. QED
  BY <1>1, <1>7, <1>9 DEF DaemonInv

(* Only an adapter that is told to stop gives a signal up.                 *)
LEMMA GiveUpKeepsInv ==
  ASSUME NEW s \in offered
  PROVE  DaemonInv /\ Attach!GiveUp(s) => DaemonInv'
<1> SUFFICES ASSUME DaemonInv, Attach!GiveUp(s) PROVE DaemonInv'
  OBVIOUS
<1>1. /\ IF s[1] \in Schedules THEN ended ELSE s[1] \notin active
      /\ offered' = offered \ {s}
      /\ UNCHANGED <<main, at, active, done, ended, looping, begun, channel, handler, handled>>
  BY DEF Attach!GiveUp, Attach!attachVars
<1>2. Attach!TypeOK'
  BY <1>1 DEF DaemonInv, Attach!TypeOK
<1>3. Attach!Queue' = Attach!Queue
  BY <1>1 DEF Attach!Queue
<1>4. ASSUME NEW a \in Attach!Pollers
      PROVE  /\ QueueInOrder(a)' /\ OffersItsLast(a)'
             /\ IF a \in active' THEN NoGap(a)' ELSE NotStartedYet(a)'
  <2>1. /\ QueueInOrder(a) /\ OffersItsLast(a)
        /\ IF a \in active THEN NoGap(a) ELSE NotStartedYet(a)
    BY DEF DaemonInv
  <2>2. QueueInOrder(a)' /\ OffersItsLast(a)'
    BY <1>1, <1>3, <2>1 DEF QueueInOrder, OffersItsLast
  <2>3. a \in active' => NoGap(a)'
    <3>1. \A g : a \in active => <<a, g>> # s
      BY <1>1 DEF Attach!Pollers
    <3>2. QED
      BY <1>1, <1>3, <2>1, <3>1 DEF NoGap
  <2>4. a \notin active' => NotStartedYet(a)'
    BY <1>1, <2>1 DEF NotStartedYet
  <2>5. QED
    BY <2>2, <2>3, <2>4
<1>5. QED
  BY <1>1, <1>2, <1>4 DEF DaemonInv

LEMMA DaemonNextInv == DaemonInv /\ [Attach!Next]_daemonVars => DaemonInv'
<1> SUFFICES ASSUME DaemonInv, [Attach!Next]_daemonVars PROVE DaemonInv'
  OBVIOUS
<1>1. Attach!TypeOK /\ (main = "joining" => at <= Len(Order))
  BY DEF DaemonInv
<1>2. ASSUME UNCHANGED <<main, at, active, begun, offered>>, looping' \subseteq looping,
             Attach!Queue' = Attach!Queue, Attach!TypeOK'
      PROVE  DaemonInv'
  BY <1>1, <1>2, QuietStepKeepsInv
<1>3. ASSUME NEW a \in Attach!Adapters, Attach!PollerReturns(a) PROVE DaemonInv'
  BY <1>1, <1>2, <1>3
     DEF Attach!PollerReturns, Attach!TypeOK, Attach!attachVars, Attach!Queue
<1>4. CASE Attach!Receive
  <2>1. /\ channel # << >> /\ handler' = "busy"
        /\ handled' = Append(handled, Head(channel)) /\ channel' = Tail(channel)
        /\ UNCHANGED <<main, at, active, done, ended, looping, begun, offered>>
    BY <1>4 DEF Attach!Receive, Attach!attachVars, Attach!adapterVars
  <2>2. /\ Attach!Queue' = Attach!Queue
        /\ handled' \in Seq(Attach!Signals) /\ channel' \in Seq(Attach!Signals)
        /\ Len(channel') <= Len(channel)
    BY <1>1, <2>1, ReceiveKeepsQueue
  <2>3. Len(channel') <= Capacity
    <3>1. Len(channel) \in Nat /\ Len(channel') \in Nat /\ Len(channel) <= Capacity
      BY <1>1, <2>2, LenProperties DEF Attach!TypeOK
    <3>2. QED
      BY <2>2, <3>1, DaemonConstants
  <2>4. Attach!TypeOK'
    BY <1>1, <2>1, <2>2, <2>3 DEF Attach!TypeOK
  <2>5. QED
    BY <1>2, <2>1, <2>2, <2>4
<1>5. CASE Attach!HandlerReturns \/ Attach!RunReturns
  BY <1>1, <1>2, <1>5
     DEF Attach!HandlerReturns, Attach!RunReturns, Attach!TypeOK, Attach!attachVars,
         Attach!adapterVars, Attach!Queue
<1>6. CASE UNCHANGED daemonVars
  BY <1>1, <1>2, <1>6 DEF daemonVars, Attach!TypeOK, Attach!Queue
<1>7. QED
  BY <1>3, <1>4, <1>5, <1>6, AttachKeepsInv, OffersKeepInv, SendKeepsInv, GiveUpKeepsInv
     DEF Attach!Next

(* A poller offers one signal or none, the last it has begun.              *)
LEMMA DaemonInvImplies == DaemonInv => Attach!NothingLostOrReordered
<1> SUFFICES ASSUME DaemonInv, NEW a \in Attach!Pollers \cap active
             PROVE  /\ \A n \in Attach!Sent(a) :
                         \E i \in DOMAIN Attach!Queue : Attach!Queue[i] = <<a, n>>
                    /\ \A i \in DOMAIN Attach!Queue :
                         Attach!Queue[i][1] = a => Attach!Queue[i][2] \in Attach!Sent(a)
                    /\ \A i, j \in DOMAIN Attach!Queue :
                         i < j /\ Attach!Queue[i][1] = a /\ Attach!Queue[j][1] = a
                           => Attach!Queue[i][2] < Attach!Queue[j][2]
  BY DEF Attach!NothingLostOrReordered
<1>1. QueueInOrder(a) /\ OffersItsLast(a) /\ NoGap(a) /\ Attach!TypeOK
  BY DEF DaemonInv
<1>2. begun[a] \in Nat
  BY <1>1, DaemonConstants DEF Attach!TypeOK
<1>3. \A s \in offered : s \in Attach!Signals
  BY <1>1 DEF Attach!TypeOK
<1>4. CASE <<a, begun[a]>> \notin offered
  <2>1. Attach!OffersOf(a) = {}
    BY <1>1, <1>3, <1>4, SignalIsPair DEF OffersItsLast, Attach!OffersOf
  <2>2. Attach!Cardinality(Attach!OffersOf(a)) = 0
    BY <2>1, FS_EmptySet DEF Attach!Cardinality, Cardinality
  <2>3. Attach!Sent(a) = 1..begun[a]
    BY <1>2, <2>2 DEF Attach!Sent
  <2>4. ASSUME NEW n \in 1..begun[a] PROVE <<a, n>> \notin offered
    BY <1>1, <1>4, <2>4 DEF OffersItsLast
  <2>5. QED
    BY <1>1, <2>3, <2>4 DEF QueueInOrder, NoGap
<1>5. CASE <<a, begun[a]>> \in offered
  <2>1. Attach!OffersOf(a) = {<<a, begun[a]>>}
    BY <1>1, <1>3, <1>5, SignalIsPair DEF OffersItsLast, Attach!OffersOf
  <2>2. Attach!Cardinality(Attach!OffersOf(a)) = 1
    <3>1. Attach!Cardinality({<<a, begun[a]>>}) = Cardinality({<<a, begun[a]>>})
      BY DEF Attach!Cardinality, Cardinality
    <3>2. QED
      BY <2>1, <3>1, FS_Singleton
  <2>3. Attach!Sent(a) = 1..(begun[a] - 1)
    BY <2>2 DEF Attach!Sent
  <2>4. ASSUME NEW n \in 1..(begun[a] - 1) PROVE n \in 1..begun[a] /\ <<a, n>> \notin offered
    <3>1. n \in 1..begun[a] /\ n # begun[a]
      BY <1>2, <2>4
    <3>2. QED
      BY <1>1, <3>1 DEF OffersItsLast
  <2>5. ASSUME NEW i \in DOMAIN Attach!Queue, Attach!Queue[i][1] = a
        PROVE  Attach!Queue[i][2] \in 1..(begun[a] - 1)
    <3>1. Attach!Queue[i][2] \in 1..begun[a] /\ Attach!Queue[i] \notin offered
      BY <1>1, <2>5 DEF QueueInOrder
    <3>2. Attach!Queue[i] = <<a, Attach!Queue[i][2]>>
      BY <1>1, <2>5, QueueType, SignalIsPair
    <3>3. Attach!Queue[i][2] # begun[a]
      BY <1>5, <3>1, <3>2
    <3>4. QED
      BY <1>2, <3>1, <3>3
  <2>6. QED
    BY <1>1, <2>3, <2>4, <2>5 DEF QueueInOrder, NoGap
<1>6. QED
  BY <1>4, <1>5

-----------------------------------------------------------------------------
(***************************************************************************)
(* The git adapter.  That reported commits are built on reported ones is    *)
(* not inductive: a batch is sent oldest first, so what a batch is built on *)
(* has to be in the batch, reported, or there at the start (BatchIsBuilt);  *)
(* and a new commit must not be one that was reported before, which the     *)
(* numbering of commits says (NumbersGrow).                                 *)
(***************************************************************************)
AncestryIsClosed ==
  \A c \in Git!Exists : \A p \in ancestors[c] : p <= c /\ ancestors[p] \subseteq ancestors[c]

NumbersGrow ==
  \A c \in Git!Exists \cup batch \cup commits \cup ({lastSeen} \ {Git!None}) : c <= latest

BatchIsBuilt ==
  Git!HeadWasRead => \A c \in batch : Git!Reachable(c) \subseteq baseline \cup commits \cup batch

StartedOnce ==
  /\ running = "no" => baseline = {Git!None} /\ commits = {} /\ batch = {}
  /\ Git!HeadWasRead => lastSeen # Git!None

GitInv ==
  /\ Git!TypeOK /\ AncestryIsClosed /\ NumbersGrow /\ BatchIsBuilt /\ StartedOnce
  /\ CommitsAreAccountedFor

LEMMA GitInitInv == Git!Init => GitInv
<1> SUFFICES ASSUME Git!Init PROVE GitInv
  OBVIOUS
<1>0. Git!GitAssumption
  BY PartAssumptions
<1>1. ancestors = History /\ Git!Exists = Old /\ Old \subseteq Git!Commits
      /\ Git!Commits \subseteq Nat \ {Git!None}
  BY <1>0 DEF Git!Init, Git!Exists, Git!GitAssumption, Git!Commits
<1>2. \A c \in Old : c \in History[c] /\ History[c] \subseteq Old
  BY <1>0 DEF Git!GitAssumption
<1>3. Git!TypeOK
  BY <1>1, <1>2 DEF Git!Init, Git!TypeOK, Git!Commits
<1>4. AncestryIsClosed
  BY <1>0, <1>1 DEF Git!GitAssumption, AncestryIsClosed
<1>5. NumbersGrow
  BY <1>1 DEF Git!Init, NumbersGrow
<1>6. ~ Git!HeadWasRead /\ StartedOnce
  BY DEF Git!Init, Git!HeadWasRead, StartedOnce
<1>7. QED
  BY <1>3, <1>4, <1>5, <1>6
     DEF GitInv, BatchIsBuilt, CommitsAreAccountedFor, Git!NoCommitSkipped, Git!SeenIsReported

(* What is reachable from a commit only shrinks: a new commit has a number  *)
(* nothing had before, and collecting garbage forgets commits.              *)
LEMMA CommitKeepsInv == GitInv /\ Git!Commit => GitInv'
<1> SUFFICES ASSUME GitInv, Git!Commit PROVE GitInv'
  OBVIOUS
<1>0. Git!GitAssumption
  BY PartAssumptions
<1>1. PICK f \in Fresh :
       /\ f > latest
       /\ latest' = f
       /\ ancestors' = [c \in Git!Exists \cup {f} |->
                          IF c = f THEN Git!Reachable(Git!HeadCommit) \cup {f} ELSE ancestors[c]]
       /\ branch' = [branch EXCEPT ![current] = f]
  BY DEF Git!Commit
<1>2. UNCHANGED <<current, lastSeen, batch, running, gitStopped, baseline, commits>>
  BY DEF Git!Commit
<1>3. f \in Nat /\ latest \in Nat /\ f \in Git!Commits /\ Git!Commits \subseteq Nat \ {Git!None}
      /\ Git!Exists \subseteq Git!Commits
  BY <1>0 DEF Git!GitAssumption, Git!Commits, GitInv, Git!TypeOK
<1>4. f \notin Git!Exists \cup batch \cup commits /\ f # lastSeen /\ f # Git!None
  BY <1>1, <1>3 DEF GitInv, NumbersGrow
<1> DEFINE up == Git!Reachable(Git!HeadCommit)
<1>5. /\ up \subseteq Git!Exists
      /\ \A p \in up : p <= latest /\ ancestors[p] \subseteq up
  BY DEF GitInv, Git!TypeOK, AncestryIsClosed, NumbersGrow, Git!Reachable
<1>6. Git!Exists' = Git!Exists \cup {f}
  BY <1>1 DEF Git!Exists
<1>7. ancestors'[f] = up \cup {f} /\ \A c \in Git!Exists : ancestors'[c] = ancestors[c]
  BY <1>1, <1>4
<1> HIDE DEF up
<1>8. \A c : c # f => Git!Reachable(c)' = Git!Reachable(c)
  BY <1>6, <1>7 DEF Git!Reachable
<1>9. Git!TypeOK'
  <2>1. \A c \in Git!Exists' : c \in ancestors'[c] /\ ancestors'[c] \subseteq Git!Exists'
    BY <1>5, <1>6, <1>7 DEF GitInv, Git!TypeOK
  <2>2. branch' \in [Branches -> Git!Exists' \cup {Git!None}]
    BY <1>1, <1>6 DEF GitInv, Git!TypeOK
  <2>3. QED
    BY <1>1, <1>2, <1>3, <1>6, <2>1, <2>2 DEF GitInv, Git!TypeOK, Git!None
<1>10. AncestryIsClosed'
  <2>1. \A p \in up : p <= f
    <3>1. TAKE p \in up
    <3>2. p \in Nat /\ p <= latest /\ latest < f
      BY <1>1, <1>3, <1>5
    <3>3. QED
      BY <1>3, <3>2
  <2>2. \A c \in Git!Exists : ancestors[c] \subseteq Git!Exists
    BY DEF GitInv, Git!TypeOK
  <2>3. ASSUME NEW p \in ancestors'[f] PROVE p <= f /\ ancestors'[p] \subseteq ancestors'[f]
    <3>1. CASE p = f
      BY <1>3, <3>1
    <3>2. CASE p \in up
      BY <1>5, <1>7, <2>1, <3>2
    <3>3. QED
      BY <1>7, <2>3, <3>1, <3>2
  <2>4. ASSUME NEW c \in Git!Exists, NEW p \in ancestors'[c]
        PROVE  p <= c /\ ancestors'[p] \subseteq ancestors'[c]
    BY <1>7, <2>2, <2>4 DEF GitInv, AncestryIsClosed
  <2>5. QED
    BY <1>6, <2>3, <2>4 DEF AncestryIsClosed
<1>11. NumbersGrow'
  <2>1. \A c \in Git!Exists \cup batch \cup commits \cup ({lastSeen} \ {Git!None}) : c \in Nat /\ c < f
    BY <1>1, <1>3 DEF GitInv, NumbersGrow, Git!TypeOK
  <2>2. QED
    BY <1>1, <1>2, <1>3, <1>6, <2>1 DEF NumbersGrow, Git!None
<1>12. BatchIsBuilt' /\ StartedOnce'
  BY <1>2, <1>4, <1>8 DEF GitInv, BatchIsBuilt, StartedOnce, Git!HeadWasRead, Git!None
<1>13. CommitsAreAccountedFor'
  BY <1>2, <1>4, <1>8
     DEF GitInv, CommitsAreAccountedFor, Git!NoCommitSkipped, Git!SeenIsReported,
         Git!HeadWasRead, Git!None
<1>14. QED
  BY <1>9, <1>10, <1>11, <1>12, <1>13 DEF GitInv

LEMMA CollectGarbageKeepsInv == GitInv /\ Git!CollectGarbage => GitInv'
<1> SUFFICES ASSUME GitInv, Git!CollectGarbage PROVE GitInv'
  OBVIOUS
<1> DEFINE live == UNION {Git!Reachable(branch[b]) : b \in Branches}
<1>1. /\ ancestors' = [c \in live |-> ancestors[c]]
      /\ UNCHANGED <<branch, current, latest, lastSeen, batch, running, gitStopped, baseline,
                     commits>>
  BY DEF Git!CollectGarbage
<1>2. Git!Exists' = live /\ \A c \in live : ancestors'[c] = ancestors[c]
  BY <1>1 DEF Git!Exists
<1>3. live \subseteq Git!Exists /\ \A c \in live : ancestors[c] \subseteq live
  <2>1. ASSUME NEW c \in live PROVE c \in Git!Exists /\ ancestors[c] \subseteq live
    <3>1. PICK b \in Branches : c \in Git!Reachable(branch[b])
      OBVIOUS
    <3>2. branch[b] \in Git!Exists /\ c \in ancestors[branch[b]]
      BY <3>1 DEF Git!Reachable
    <3>3. ancestors[c] \subseteq Git!Reachable(branch[b])
      BY <3>2 DEF GitInv, AncestryIsClosed, Git!Reachable
    <3>4. QED
      BY <3>2, <3>3 DEF GitInv, Git!TypeOK
  <2>2. QED
    BY <2>1
<1>4. \A b \in Branches : branch[b] \in live \cup {Git!None}
  <2>1. ASSUME NEW b \in Branches, branch[b] # Git!None PROVE branch[b] \in live
    <3>1. branch[b] \in Git!Exists /\ branch[b] \in Git!Reachable(branch[b])
      BY <2>1 DEF GitInv, Git!TypeOK, Git!Reachable
    <3>2. QED
      BY <3>1
  <2>2. QED
    BY <2>1
<1> HIDE DEF live
<1>5. \A c : Git!Reachable(c)' \subseteq Git!Reachable(c)
  BY <1>2, <1>3 DEF Git!Reachable
<1>6. Git!TypeOK'
  BY <1>1, <1>2, <1>3, <1>4 DEF GitInv, Git!TypeOK
<1>7. AncestryIsClosed' /\ NumbersGrow'
  BY <1>1, <1>2, <1>3 DEF GitInv, AncestryIsClosed, NumbersGrow, Git!None
<1>8. BatchIsBuilt' /\ StartedOnce'
  BY <1>1, <1>5 DEF GitInv, BatchIsBuilt, StartedOnce, Git!HeadWasRead, Git!None
<1>9. CommitsAreAccountedFor'
  BY <1>1, <1>5
     DEF GitInv, CommitsAreAccountedFor, Git!NoCommitSkipped, Git!SeenIsReported,
         Git!HeadWasRead, Git!None
<1>10. QED
  BY <1>6, <1>7, <1>8, <1>9 DEF GitInv

(* A poll finds what HEAD has and lastSeen has not, so what a found commit  *)
(* is built on was found with it or is behind lastSeen.                     *)
LEMMA PollKeepsGitInv == GitInv /\ Git!Poll => GitInv'
<1> SUFFICES ASSUME GitInv, Git!Poll PROVE GitInv'
  OBVIOUS
<1>1. /\ batch' = Git!NewCommits /\ running = "yes"
      /\ lastSeen \in Git!Exists \cup {Git!None}
      /\ UNCHANGED <<ancestors, branch, current, latest, lastSeen, running, gitStopped, baseline,
                     commits>>
  BY DEF Git!Poll, Git!repoVars
<1>2. Git!Reachable(Git!HeadCommit) \subseteq Git!Exists /\ Git!HeadCommit \in Git!Exists \cup {Git!None}
  BY DEF GitInv, Git!TypeOK, Git!Reachable, Git!HeadCommit
<1>3. batch' \subseteq Git!Exists
  BY <1>1, <1>2 DEF Git!NewCommits
<1>4. Git!TypeOK'
  BY <1>1, <1>3 DEF GitInv, Git!TypeOK, Git!Exists
<1>5. NumbersGrow' /\ AncestryIsClosed'
  BY <1>1, <1>3 DEF GitInv, NumbersGrow, AncestryIsClosed, Git!Exists, Git!None
<1>6. BatchIsBuilt'
  <2> SUFFICES ASSUME Git!HeadWasRead', NEW c \in batch'
               PROVE  Git!Reachable(c)' \subseteq baseline' \cup commits' \cup batch'
    BY DEF BatchIsBuilt
  <2>1. lastSeen # Git!None /\ Git!HeadWasRead
    BY <1>1 DEF GitInv, StartedOnce, Git!HeadWasRead, Git!None
  <2>2. batch' = Git!Reachable(Git!HeadCommit) \ Git!Reachable(lastSeen)
    BY <1>1, <2>1 DEF Git!NewCommits
  <2>3. Git!Reachable(c) \subseteq Git!Reachable(Git!HeadCommit)
    BY <2>2 DEF GitInv, AncestryIsClosed, Git!Reachable
  <2>4. Git!Reachable(lastSeen) \subseteq baseline \cup commits
    BY <2>1 DEF GitInv, CommitsAreAccountedFor, Git!SeenIsReported
  <2>5. Git!Reachable(c)' = Git!Reachable(c)
    BY <1>1 DEF Git!Reachable, Git!Exists
  <2>6. QED
    BY <1>1, <2>2, <2>3, <2>4, <2>5
<1>7. CommitsAreAccountedFor' /\ StartedOnce'
  BY <1>1 DEF GitInv, CommitsAreAccountedFor, StartedOnce, Git!NoCommitSkipped, Git!SeenIsReported,
              Git!HeadWasRead, Git!None, Git!Reachable, Git!Exists
<1>8. QED
  BY <1>4, <1>5, <1>6, <1>7 DEF GitInv

(* The oldest commit of a batch is sent first: what it is built on is older *)
(* than itself, so it is not in the batch any more.                         *)
LEMMA SendCommitKeepsInv == GitInv /\ Git!SendCommit => GitInv'
<1> SUFFICES ASSUME GitInv, Git!SendCommit PROVE GitInv'
  OBVIOUS
<1>1. PICK c \in batch :
       /\ \A d \in batch : c <= d
       /\ commits' = commits \cup {c}
       /\ batch' = batch \ {c}
       /\ lastSeen' = IF batch = {c} THEN c ELSE lastSeen
  BY DEF Git!SendCommit
<1>2. UNCHANGED <<ancestors, branch, current, latest, running, gitStopped, baseline>>
      /\ running = "yes"
  BY DEF Git!SendCommit, Git!repoVars
<1>3. Git!Exists' = Git!Exists /\ \A d : Git!Reachable(d)' = Git!Reachable(d)
  BY <1>2 DEF Git!Exists, Git!Reachable
<1>4. Git!Exists \subseteq Nat /\ c \in Nat /\ c # Git!None
  BY PartAssumptions DEF Git!GitAssumption, GitInv, Git!TypeOK
<1>5. Git!TypeOK'
  BY <1>1, <1>2, <1>3 DEF GitInv, Git!TypeOK
<1>6. NumbersGrow' /\ AncestryIsClosed'
  BY <1>1, <1>2, <1>3 DEF GitInv, NumbersGrow, AncestryIsClosed, Git!None
<1>7. Git!HeadWasRead' = Git!HeadWasRead
  BY <1>2 DEF Git!HeadWasRead, Git!None
<1>8. BatchIsBuilt'
  BY <1>1, <1>2, <1>3, <1>7 DEF GitInv, BatchIsBuilt
<1>9. Git!HeadWasRead => Git!Reachable(c) \subseteq baseline \cup commits'
  <2> SUFFICES ASSUME Git!HeadWasRead, NEW d \in Git!Reachable(c)
               PROVE  d \in baseline \cup commits'
    OBVIOUS
  <2>1. d \in baseline \cup commits \cup batch
    BY DEF GitInv, BatchIsBuilt
  <2>2. d <= c /\ d \in Nat
    BY <1>4 DEF GitInv, AncestryIsClosed, Git!TypeOK, Git!Reachable
  <2>3. d \in batch => d = c
    BY <1>1, <1>4, <2>2
  <2>4. QED
    BY <1>1, <2>1, <2>3
<1>10. CommitsAreAccountedFor'
  BY <1>1, <1>2, <1>3, <1>7, <1>9
     DEF GitInv, CommitsAreAccountedFor, Git!NoCommitSkipped, Git!SeenIsReported
<1>11. StartedOnce'
  BY <1>1, <1>2, <1>4, <1>7 DEF GitInv, StartedOnce, Git!None
<1>12. QED
  BY <1>5, <1>6, <1>8, <1>10, <1>11 DEF GitInv

LEMMA StartKeepsGitInv == GitInv /\ Git!Start => GitInv'
<1> SUFFICES ASSUME GitInv, Git!Start PROVE GitInv'
  OBVIOUS
<1>1. /\ running = "no" /\ running' = "yes"
      /\ UNCHANGED <<ancestors, branch, current, latest, batch, gitStopped, commits>>
  BY DEF Git!Start, Git!repoVars
<1>2. commits = {} /\ batch = {}
  BY <1>1 DEF GitInv, StartedOnce
<1>3. Git!Exists' = Git!Exists /\ \A d : Git!Reachable(d)' = Git!Reachable(d)
  BY <1>1 DEF Git!Exists, Git!Reachable
<1>4. Git!Exists \subseteq Git!Commits /\ Git!None \notin Git!Commits /\ Git!Commits = Old \cup Fresh
  BY PartAssumptions DEF Git!GitAssumption, GitInv, Git!TypeOK, Git!Commits
<1>5. CASE Git!HeadCommit # Git!None /\ lastSeen' = Git!HeadCommit /\ baseline' = Git!Reachable(Git!HeadCommit)
  <2>1. lastSeen' \in Git!Exists /\ baseline' \subseteq Git!Exists
    BY <1>5 DEF GitInv, Git!TypeOK, Git!HeadCommit, Git!Reachable
  <2>2. Git!TypeOK'
    BY <1>1, <1>3, <1>4, <2>1 DEF GitInv, Git!TypeOK
  <2>3. AncestryIsClosed' /\ NumbersGrow'
    BY <1>1, <1>2, <1>3, <2>1 DEF GitInv, NumbersGrow, AncestryIsClosed, Git!None
  <2>4. BatchIsBuilt' /\ StartedOnce'
    BY <1>1, <1>2, <1>5 DEF BatchIsBuilt, StartedOnce, Git!None
  <2>5. CommitsAreAccountedFor'
    BY <1>1, <1>2, <1>3, <1>5 DEF CommitsAreAccountedFor, Git!NoCommitSkipped, Git!SeenIsReported
  <2>6. QED
    BY <2>2, <2>3, <2>4, <2>5 DEF GitInv
<1>6. CASE UNCHANGED <<lastSeen, baseline>>
  <2>1. ~ Git!HeadWasRead'
    BY <1>1, <1>6 DEF GitInv, StartedOnce, Git!HeadWasRead, Git!None
  <2>2. Git!TypeOK' /\ AncestryIsClosed' /\ NumbersGrow'
    BY <1>1, <1>3, <1>6 DEF GitInv, NumbersGrow, AncestryIsClosed, Git!TypeOK, Git!None
  <2>3. QED
    BY <1>1, <2>1, <2>2
       DEF GitInv, BatchIsBuilt, StartedOnce, CommitsAreAccountedFor, Git!NoCommitSkipped,
           Git!SeenIsReported
<1>7. QED
  BY <1>5, <1>6 DEF Git!Start

LEMMA GitNextInv == GitInv /\ [Git!Next]_gitVars => GitInv'
<1> SUFFICES ASSUME GitInv, [Git!Next]_gitVars PROVE GitInv'
  OBVIOUS
<1> USE DEF GitInv, Git!TypeOK, AncestryIsClosed, NumbersGrow, BatchIsBuilt, StartedOnce,
            CommitsAreAccountedFor, Git!NoCommitSkipped, Git!SeenIsReported, Git!HeadWasRead,
            Git!Exists, Git!Reachable, Git!None
<1>1. CASE Git!Checkout
  BY <1>1 DEF Git!Checkout
<1>2. CASE Git!Rewrite
  BY <1>2 DEF Git!Rewrite
<1>3. CASE Git!Stop
  BY <1>3 DEF Git!Stop, Git!repoVars
<1>4. CASE Git!GoroutineReturns
  BY <1>4 DEF Git!GoroutineReturns, Git!repoVars
<1>5. CASE UNCHANGED gitVars
  BY <1>5 DEF gitVars
<1>6. QED
  BY <1>1, <1>2, <1>3, <1>4, <1>5, CommitKeepsInv, CollectGarbageKeepsInv, PollKeepsGitInv,
     SendCommitKeepsInv, StartKeepsGitInv DEF Git!Next

-----------------------------------------------------------------------------
LEMMA CICardinality == ASSUME NEW S PROVE CI!Cardinality(S) = Cardinality(S)
BY DEF CI!Cardinality, Cardinality

(***************************************************************************)
(* The CI adapters.  That a run is sent at most once needs that a run being *)
(* sent was not sent before: every run that was sent is remembered, and a   *)
(* run is put up for sending only while it is not.                          *)
(***************************************************************************)
SentIsRemembered ==
  \A p \in Projects, n \in CI!Runs : sent[p][n] # 0 => n \in runsSeen[p] /\ n # pending[p]

CIInv == CI!TypeOK /\ SentIsRemembered /\ RememberedIsReported

LEMMA PagesAreEntries ==
  CI!TypeOK => \A p \in Projects : \A ns \in SUBSET CI!Runs : CI!Page(p, ns) \in Seq(CI!Entries)
<1> SUFFICES ASSUME CI!TypeOK, NEW p \in Projects, NEW ns \in SUBSET CI!Runs
             PROVE  CI!Page(p, ns) \in Seq(CI!Entries)
  OBVIOUS
<1>1. MaxRun \in Nat /\ Window \in Nat
  BY PartAssumptions DEF CI!CIAssumption
<1>2. ns \in SUBSET Nat /\ IsFiniteSet(ns) /\ Cardinality(ns) \in Nat
  <2>1. IsFiniteSet(CI!Runs) /\ CI!Runs \in SUBSET Nat
    BY <1>1, FS_Interval DEF CI!Runs
  <2>2. QED
    BY <2>1, FS_Subset, FS_CardinalityType
<1> DEFINE size == IF Cardinality(ns) < Window THEN Cardinality(ns) ELSE Window
           newest(i) == CHOOSE n \in ns : Cardinality({m \in ns : m > n}) = i - 1
<1>3. size \in Nat /\ size <= Cardinality(ns)
  BY <1>1, <1>2
<1>4. ASSUME NEW i \in 1..size PROVE newest(i) \in ns
  <2>1. i - 1 \in 0..(Cardinality(ns) - 1)
    BY <1>2, <1>3
  <2>2. \E n \in ns : Cardinality({m \in ns : m > n}) = i - 1
    BY <1>2, <2>1, EveryRankIsTaken
  <2>3. QED
    BY <2>2
<1> DEFINE page == [i \in 1..size |-> [id |-> newest(i), status |-> run[p][newest(i)]]]
<1> HIDE DEF size, newest
<1>5. \A i \in 1..size : newest(i) \in CI!Runs /\ run[p][newest(i)] \in CI!Status
  BY <1>4 DEF CI!TypeOK
<1>6. page \in [1..size -> CI!Entries]
  BY <1>5 DEF CI!Entries
<1>7. page \in Seq(CI!Entries)
  BY <1>3, <1>6, SeqDef
<1>8. CI!Page(p, ns) = page
  BY CICardinality DEF CI!Page, newest, size
<1>9. QED
  BY <1>7, <1>8

LEMMA CIInitInv == CI!Init => CIInv
<1> SUFFICES ASSUME CI!Init PROVE CIInv
  OBVIOUS
<1>1. MaxRestarts \in Nat
  BY PartAssumptions DEF CI!CIAssumption
<1>2. CI!TypeOK
  BY <1>1 DEF CI!Init, CI!TypeOK, CI!Nothing, CI!Status
<1>3. QED
  BY <1>2 DEF CI!Init, CIInv, SentIsRemembered, RememberedIsReported, CI!RememberedIsReported,
              CI!SentOncePerProcess

LEMMA FetchKeepsInv == ASSUME NEW p \in Projects PROVE CIInv /\ CI!Fetch(p) => CIInv'
<1> SUFFICES ASSUME CIInv, CI!Fetch(p) PROVE CIInv'
  OBVIOUS
<1>1. CI!Latest(p) \in Seq(CI!Entries)
  BY PagesAreEntries
     DEF CIInv, CI!Latest, CI!GitHubRuns, CI!GitLabPipelines, CI!CirclePipelines, CI!Created
<1>2. QED
  BY <1>1 DEF CIInv, CI!Fetch, CI!TypeOK, CI!loopVars, SentIsRemembered, RememberedIsReported,
              CI!RememberedIsReported, CI!SentOncePerProcess

(* A run is marked and put up for sending at once.                         *)
LEMMA MarkKeepsInv ==
  ASSUME NEW p \in Projects
  PROVE  /\ CIInv /\ listed[p] # << >> /\ pending[p] = CI!Nothing
         /\ Head(listed[p]).id \notin runsSeen[p] /\ CI!MarkAndSend(p)
         => CIInv'
<1> SUFFICES ASSUME CIInv, listed[p] # << >>, pending[p] = CI!Nothing,
                    Head(listed[p]).id \notin runsSeen[p], CI!MarkAndSend(p)
             PROVE  CIInv'
  OBVIOUS
<1> DEFINE id == Head(listed[p]).id
<1>1. id \in CI!Runs /\ Tail(listed[p]) \in Seq(CI!Entries)
  <2>1. listed[p] \in Seq(CI!Entries)
    BY DEF CIInv, CI!TypeOK
  <2>2. Head(listed[p]) \in CI!Entries /\ Tail(listed[p]) \in Seq(CI!Entries)
    BY <2>1, HeadTailProperties
  <2>3. QED
    BY <2>2 DEF CI!Entries
<1>2. id # CI!Nothing
  BY <1>1, PartAssumptions DEF CI!Runs, CI!Nothing, CI!CIAssumption
<1>3. /\ runsSeen' = [runsSeen EXCEPT ![p] = @ \cup {id}]
      /\ pending' = [pending EXCEPT ![p] = id]
      /\ listed' = [listed EXCEPT ![p] = Tail(@)]
      /\ UNCHANGED <<run, sent, keys, worked, dropped, restarts>>
  BY DEF CI!MarkAndSend, CI!loopVars
<1>4. id \notin runsSeen[p]
  OBVIOUS
<1> HIDE DEF id
<1>5. CI!TypeOK'
  BY <1>1, <1>3 DEF CIInv, CI!TypeOK, CI!Nothing
<1>6. SentIsRemembered'
  BY <1>1, <1>3, <1>4 DEF CIInv, CI!TypeOK, SentIsRemembered
<1>7. RememberedIsReported'
  <2>1. CI!RememberedIsReported'
    <3> SUFFICES ASSUME NEW q \in Projects, NEW n \in runsSeen'[q]
                 PROVE  n = pending'[q] \/ <<q, n>> \in worked' \cup dropped'
      BY DEF CI!RememberedIsReported
    <3>1. CASE q = p /\ n = id
      BY <1>3, <3>1 DEF CIInv, CI!TypeOK
    <3>2. CASE q = p /\ n # id
      <4>1. n \in runsSeen[p] /\ n \in CI!Runs
        BY <1>3, <3>2 DEF CIInv, CI!TypeOK
      <4>2. n # pending[p]
        BY <4>1, PartAssumptions DEF CI!Runs, CI!Nothing, CI!CIAssumption
      <4>3. QED
        BY <1>3, <3>2, <4>1, <4>2 DEF CIInv, RememberedIsReported, CI!RememberedIsReported
    <3>3. CASE q # p
      BY <1>3, <3>3 DEF CIInv, CI!TypeOK, RememberedIsReported, CI!RememberedIsReported
    <3>4. QED
      BY <3>1, <3>2, <3>3
  <2>2. CI!SentOncePerProcess'
    BY <1>3 DEF CIInv, RememberedIsReported, CI!SentOncePerProcess
  <2>3. QED
    BY <2>1, <2>2 DEF RememberedIsReported
<1>8. QED
  BY <1>5, <1>6, <1>7 DEF CIInv

(* The loop has the run: it is worked on or dropped from now on, and it had *)
(* not been sent before because it was waiting.                            *)
LEMMA DeliverKeepsInv == ASSUME NEW p \in Projects PROVE CIInv /\ CI!Deliver(p) => CIInv'
<1> SUFFICES ASSUME CIInv, CI!Deliver(p) PROVE CIInv'
  OBVIOUS
<1> DEFINE n == pending[p]
<1>1. n \in CI!Runs /\ n \in runsSeen[p]
  BY DEF CIInv, CI!TypeOK, CI!Deliver
<1>2. sent[p][n] = 0
  BY <1>1 DEF CIInv, SentIsRemembered
<1>3. /\ sent' = [sent EXCEPT ![p][n] = @ + 1]
      /\ keys' = keys \cup {n}
      /\ worked \subseteq worked' /\ dropped \subseteq dropped'
      /\ worked' \subseteq worked \cup {<<p, n>>} /\ dropped' \subseteq dropped \cup {<<p, n>>}
      /\ <<p, n>> \in worked' \cup dropped'
      /\ pending' = [pending EXCEPT ![p] = CI!Nothing]
      /\ UNCHANGED <<run, runsSeen, listed, restarts>>
  BY DEF CI!Deliver, CI!SignalKey
<1>4. <<p, n>> \in CI!Failures
  BY <1>1 DEF CI!Failures
<1>5. CI!Nothing \notin CI!Runs
  BY PartAssumptions DEF CI!Runs, CI!Nothing, CI!CIAssumption
<1>6. sent' \in [Projects -> [CI!Runs -> Nat]]
  BY <1>1, <1>3 DEF CIInv, CI!TypeOK
<1>7. \A q \in Projects, k \in CI!Runs :
        sent'[q][k] = IF q = p /\ k = n THEN 1 ELSE sent[q][k]
  BY <1>1, <1>2, <1>3 DEF CIInv, CI!TypeOK
<1> HIDE DEF n
<1>8. CI!TypeOK'
  BY <1>1, <1>3, <1>4, <1>6 DEF CIInv, CI!TypeOK, n
<1>9. SentIsRemembered'
  BY <1>1, <1>3, <1>5, <1>7 DEF CIInv, CI!TypeOK, SentIsRemembered, n
<1>10. CI!RememberedIsReported'
  BY <1>1, <1>3 DEF CIInv, CI!TypeOK, RememberedIsReported, CI!RememberedIsReported, n
<1>11. CI!SentOncePerProcess'
  BY <1>7 DEF CIInv, RememberedIsReported, CI!SentOncePerProcess
<1>12. QED
  BY <1>8, <1>9, <1>10, <1>11 DEF CIInv, RememberedIsReported

LEMMA CINextInv == CIInv /\ [CI!Next]_ciVars => CIInv'
<1> SUFFICES ASSUME CIInv, [CI!Next]_ciVars PROVE CIInv'
  OBVIOUS
<1> USE DEF CIInv, CI!TypeOK, SentIsRemembered, RememberedIsReported, CI!RememberedIsReported,
            CI!SentOncePerProcess, CI!loopVars
<1>1. ASSUME NEW p \in Projects, NEW n \in CI!Runs, NEW status \in CI!Status,
             CI!SetRun(p, n, status)
      PROVE  CIInv'
  BY <1>1 DEF CI!SetRun
<1>2. ASSUME NEW p \in Projects, NEW n \in CI!Runs,
             CI!Begin(p, n) \/ CI!Finish(p, n) \/ CI!Rerun(p, n)
      PROVE  CIInv'
  BY <1>1, <1>2 DEF CI!Begin, CI!Finish, CI!Rerun, CI!Status
<1>3. ASSUME NEW p \in Projects, CI!Fetch(p) PROVE CIInv'
  BY <1>3, FetchKeepsInv
<1>4. ASSUME NEW p \in Projects, listed[p] # << >>, CI!Skip(p) PROVE CIInv'
  BY <1>4 DEF CI!Skip
<1>5. ASSUME NEW p \in Projects, CI!ConsiderRun(p) PROVE CIInv'
  BY <1>4, <1>5, MarkKeepsInv DEF CI!ConsiderRun
<1>6. ASSUME NEW p \in Projects, CI!ConsiderPipeline(p) PROVE CIInv'
  BY <1>4, <1>6, MarkKeepsInv DEF CI!ConsiderPipeline
<1>7. ASSUME NEW p \in Projects, CI!Deliver(p) PROVE CIInv'
  BY <1>7, DeliverKeepsInv
<1>8. CASE CI!Restart
  BY <1>8, PartAssumptions DEF CI!Restart, CI!Nothing, CI!CIAssumption
<1>9. CASE UNCHANGED ciVars
  BY <1>9 DEF ciVars
<1>10. QED
  BY <1>2, <1>3, <1>5, <1>6, <1>7, <1>8, <1>9 DEF CI!Next

-----------------------------------------------------------------------------
(***************************************************************************)
(* The metrics adapter.  That no counter exceeds one is not inductive: a    *)
(* poll adds one to the counter of every alert that is not in seen, so seen *)
(* has to tell exactly which counters are one already (SeenWasSignalled).   *)
(***************************************************************************)
MetricsInv == TypeOK /\ SeenWasSignalled /\ SignalledOncePerEpisode

(* What a poll shows are identities of this instance.                      *)
LEMMA FiringAreIds == FiringAlerts \subseteq Ids
BY MetricsAssumption DEF FiringAlerts

(* No alert is in seen at the start, and no counter has moved.             *)
LEMMA MetricsInitInv == Init => MetricsInv
<1> SUFFICES ASSUME Init PROVE MetricsInv
  OBVIOUS
<1>1. seen = {} /\ \A i \in Ids : episode[i] = 0
  BY DEF Init
<1>2. SeenWasSignalled /\ SignalledOncePerEpisode
  BY <1>1 DEF SeenWasSignalled, SignalledOncePerEpisode
<1>3. out \in 0..OutCap
  BY MetricsAssumption DEF Init
<1>4. episode \in [Ids -> Nat] /\ toSend \subseteq seen
  BY DEF Init
<1>5. TypeOK
  BY <1>3, <1>4 DEF Init, TypeOK
<1>6. QED
  BY <1>2, <1>5 DEF MetricsInv

(* A poll that answers leaves exactly the alerts it shows in seen, and one *)
(* counter is one for each of them.                                        *)
LEMMA PollKeepsMetricsInv == MetricsInv /\ PollAnswers => MetricsInv'
<1> SUFFICES ASSUME MetricsInv, PollAnswers PROVE MetricsInv'
  OBVIOUS
<1> DEFINE shown == FiringAlerts
<1>1. shown \subseteq Ids
  BY FiringAreIds
<1>2. /\ seen' = shown /\ toSend' = shown \ seen
      /\ episode' = [i \in Ids |-> IF i \notin shown THEN 0
                                   ELSE IF i \in seen THEN episode[i]
                                   ELSE episode[i] + 1]
      /\ pc' = "sending" /\ UNCHANGED <<state, out, stopped>>
  BY DEF PollAnswers, StillSeen
<1> HIDE DEF shown
<1>3. episode \in [Ids -> Nat] /\ \A i \in Ids : episode[i] <= 1
  BY DEF MetricsInv, TypeOK, SignalledOncePerEpisode
<1>4. \A i \in Ids : i \notin seen => episode[i] = 0
  BY <1>3 DEF MetricsInv, SeenWasSignalled
<1>5. \A i \in Ids : i \in seen => episode[i] = 1
  BY DEF MetricsInv, SeenWasSignalled
<1>6. \A i \in Ids : episode'[i] = (IF i \in shown THEN 1 ELSE 0)
  BY <1>2, <1>3, <1>4, <1>5
<1>7. episode' \in [Ids -> Nat]
  BY <1>2, <1>3
<1>8. TypeOK'
  BY <1>1, <1>2, <1>7 DEF MetricsInv, TypeOK
<1>9. SeenWasSignalled' /\ SignalledOncePerEpisode'
  BY <1>2, <1>6 DEF SeenWasSignalled, SignalledOncePerEpisode
<1>10. QED
  BY <1>8, <1>9 DEF MetricsInv

LEMMA MetricsNextInv == MetricsInv /\ [Next]_vars => MetricsInv'
<1> SUFFICES ASSUME MetricsInv, [Next]_vars PROVE MetricsInv'
  OBVIOUS
<1> USE MetricsAssumption DEF MetricsInv, TypeOK, SeenWasSignalled, SignalledOncePerEpisode
<1>1. ASSUME NEW r \in Rules, RuleChanges(r) PROVE MetricsInv'
  BY <1>1 DEF RuleChanges
<1>2. CASE Tick
  BY <1>2 DEF Tick
<1>3. CASE PollFails
  BY <1>3 DEF PollFails
<1>4. CASE PollAnswers
  BY <1>4, PollKeepsMetricsInv
<1>5. CASE Send
  BY <1>5 DEF Send
<1>6. CASE GiveUp
  BY <1>6 DEF GiveUp
<1>7. CASE PollDone
  BY <1>7 DEF PollDone
<1>8. CASE Receive
  BY <1>8 DEF Receive
<1>9. CASE Stop
  BY <1>9 DEF Stop
<1>10. CASE Return
  BY <1>10 DEF Return
<1>11. CASE UNCHANGED vars
  BY <1>11 DEF vars
<1>12. QED
  BY <1>1, <1>2, <1>3, <1>4, <1>5, <1>6, <1>7, <1>8, <1>9, <1>10, <1>11 DEF Next

LEMMA MetricsInvAlways == Spec => []MetricsInv
<1>1. QED
  BY MetricsInitInv, MetricsNextInv, PTL DEF Spec

(* An alert is signalled once from the first poll that shows it until a    *)
(* poll that does not, polls that fail in between included                 *)
(* (metrics.go:114-147).                                                   *)
THEOREM AlertSignalledOnce == Spec => []SignalledOncePerEpisode
<1>1. MetricsInv => SignalledOncePerEpisode
  BY DEF MetricsInv
<1>2. QED
  BY MetricsInvAlways, <1>1, PTL

(* What seen suppresses was signalled in this episode, and nothing else is *)
(* suppressed (metrics.go:129-147).                                        *)
THEOREM SuppressedWasSignalled == Spec => []SeenWasSignalled
<1>1. MetricsInv => SeenWasSignalled
  BY DEF MetricsInv
<1>2. QED
  BY MetricsInvAlways, <1>1, PTL

-----------------------------------------------------------------------------
LEMMA UpCardinality == ASSUME NEW S PROVE Outages!Cardinality(S) = Cardinality(S)
BY DEF Outages!Cardinality, Cardinality

LEMMA EndpointsAreFinite ==
  /\ IsFiniteSet(Endpoints) /\ Cardinality(Endpoints) \in Nat
  /\ Endpoints = 1..Cardinality(Endpoints) /\ 0 \notin Endpoints /\ Endpoints \in SUBSET Nat
<1>1. IsFiniteSet(Endpoints) /\ Endpoints = 1..Cardinality(Endpoints)
  BY PartAssumptions, UpCardinality DEF Outages!UptimeAssumption, Outages!IsFiniteSet, IsFiniteSet
<1>2. Cardinality(Endpoints) \in Nat
  BY <1>1, FS_CardinalityType
<1>3. QED
  BY <1>1, <1>2

(***************************************************************************)
(* The uptime adapter.  The verdict of the cross check counts the peers     *)
(* that were asked one after the other, so while it asks, the count has to  *)
(* be that of the peers it is through with (CountsPeers); and it is about   *)
(* the endpoint that failed, which is there from the check to the send.     *)
(***************************************************************************)
Diagnosed == {"diagnosing", "asking", "sending"}

OneFailingEndpoint ==
  /\ ep # 0 <=> round \in Diagnosed
  /\ round # "asking" => peers = {}
  /\ peers \subseteq Outages!Peers(ep)

Asked == Outages!Peers(ep) \ peers
AskedAndDown == {e \in Asked : Outages!PeerIsDown(e)}

CountsPeers ==
  round = "asking" =>
    /\ down \in 0..Cardinality(Asked)
    /\ steady = Endpoints => down = Cardinality(AskedAndDown)

UptimeInv == Outages!TypeOK /\ OneFailingEndpoint /\ CountsPeers /\ OutageIsReal

LEMMA UptimeInitInv == Outages!Init => UptimeInv
<1> SUFFICES ASSUME Outages!Init PROVE UptimeInv
  OBVIOUS
<1>1. {"healthy", "down"} \subseteq Healths /\ OutCap \in Nat
  BY PartAssumptions DEF Outages!UptimeAssumption
<1>2. Outages!Cardinality(Endpoints) \in Nat
  BY EndpointsAreFinite, UpCardinality
<1>3. Outages!TypeOK
  <2>1. health \in [Endpoints -> Healths]
    BY <1>1 DEF Outages!Init
  <2>2. down \in 0..Outages!Cardinality(Endpoints) /\ outages \in 0..OutCap
    BY <1>1, <1>2 DEF Outages!Init
  <2>3. QED
    BY <2>1, <2>2 DEF Outages!Init, Outages!TypeOK, Outages!Verdicts
<1>4. OneFailingEndpoint /\ CountsPeers
  BY DEF Outages!Init, OneFailingEndpoint, CountsPeers, Diagnosed
<1>5. OutageIsReal
  BY DEF Outages!Init, OutageIsReal, Outages!OutageIsReal, Outages!CrossTellsTheOutage
<1>6. QED
  BY <1>3, <1>4, <1>5 DEF UptimeInv

(* The endpoint checked next exists: a finite set of numbers has a least.   *)
LEMMA CurrentIsToDo ==
  ASSUME Outages!TypeOK, todo # {}
  PROVE  Outages!Current \in todo
<1>1. todo \in SUBSET Endpoints /\ todo \in SUBSET Nat /\ IsFiniteSet(todo)
  BY EndpointsAreFinite, FS_Subset DEF Outages!TypeOK
<1>2. Cardinality(todo) \in Nat \ {0}
  BY <1>1, FS_CardinalityType, FS_EmptySet
<1>3. PICK e \in todo : Cardinality({m \in todo : m > e}) = Cardinality(todo) - 1
  <2>1. Cardinality(todo) - 1 \in 0..(Cardinality(todo) - 1)
    BY <1>2
  <2>2. QED
    BY <1>1, <2>1, EveryRankIsTaken
<1>4. {m \in todo : m > e} = todo \ {e}
  <2>1. IsFiniteSet(todo \ {e}) /\ Cardinality(todo \ {e}) = Cardinality(todo) - 1
    BY <1>1, FS_RemoveElement
  <2>2. {m \in todo : m > e} \in SUBSET (todo \ {e})
    <3>1. \A m \in todo : m > e => m # e
      <4>1. TAKE m \in todo
      <4>2. m \in Nat /\ e \in Nat
        BY <1>1
      <4>3. QED
        BY <4>2
    <3>2. QED
      BY <3>1
  <2>3. QED
    BY <1>3, <2>1, <2>2, FS_Subset
<1>5. \A f \in todo : e <= f
  <2>1. TAKE f \in todo
  <2>2. f \in Nat /\ e \in Nat
    BY <1>1
  <2>3. f = e \/ f > e
    BY <1>4
  <2>4. QED
    BY <2>2, <2>3
<1>6. QED
  BY <1>5 DEF Outages!Current

LEMMA HealthChangeKeepsInv ==
  ASSUME NEW e \in Endpoints
  PROVE  UptimeInv /\ Outages!HealthChanges(e) => UptimeInv'
<1> SUFFICES ASSUME UptimeInv, Outages!HealthChanges(e) PROVE UptimeInv'
  OBVIOUS
<1>1. PICK h \in Healths \ {health[e]} : health' = [health EXCEPT ![e] = h]
  BY DEF Outages!HealthChanges
<1>2. /\ steady' = steady \ {e}
      /\ UNCHANGED <<round, todo, ep, sig, tcp, peers, down, cross, outages, last, uptimeStopped>>
  BY DEF Outages!HealthChanges
<1>3. Outages!TypeOK'
  BY <1>1, <1>2 DEF UptimeInv, Outages!TypeOK
<1>4. steady' # Endpoints
  BY <1>2
<1>5. OneFailingEndpoint' /\ CountsPeers'
  BY <1>2, <1>4 DEF UptimeInv, OneFailingEndpoint, CountsPeers, Asked, Outages!Peers
<1>6. Outages!OutageIsReal'
  <2> SUFFICES ASSUME ep # 0, ep \in steady' PROVE Outages!OutageIsReal'
    BY <1>2 DEF Outages!OutageIsReal
  <2>1. ep # e /\ ep \in steady /\ ep \in Endpoints
    BY <1>2 DEF UptimeInv, Outages!TypeOK
  <2>2. health'[ep] = health[ep]
    BY <1>1, <2>1 DEF UptimeInv, Outages!TypeOK
  <2>3. QED
    BY <1>2, <2>1, <2>2 DEF UptimeInv, OutageIsReal, Outages!OutageIsReal
<1>7. Outages!CrossTellsTheOutage'
  BY <1>4 DEF Outages!CrossTellsTheOutage
<1>8. QED
  BY <1>3, <1>5, <1>6, <1>7 DEF UptimeInv, OutageIsReal

LEMMA CheckFailingKeepsInv == UptimeInv /\ Outages!CheckFailing => UptimeInv'
<1> SUFFICES ASSUME UptimeInv, Outages!CheckFailing PROVE UptimeInv'
  OBVIOUS
<1>1. Outages!Current \in todo /\ Outages!Current \in Endpoints
  BY CurrentIsToDo DEF UptimeInv, Outages!TypeOK, Outages!CheckFailing
<1>2. /\ round = "checking" /\ round' = "diagnosing"
      /\ ep' = Outages!Current /\ sig' = Outages!Failure(Outages!Current)
      /\ Outages!Failure(Outages!Current) # "none"
      /\ todo' \subseteq todo
      /\ UNCHANGED <<health, tcp, peers, down, cross, outages, last, uptimeStopped, steady>>
  BY DEF Outages!CheckFailing
<1>3. peers = {} /\ ep' # 0 /\ ep' \in Endpoints
  BY <1>1, <1>2, EndpointsAreFinite DEF UptimeInv, OneFailingEndpoint
<1>4. sig' \in {"unreachable", "wrong_status", "slow_response"}
  BY <1>2 DEF Outages!Failure
<1>5. Outages!TypeOK'
  BY <1>2, <1>3, <1>4 DEF UptimeInv, Outages!TypeOK
<1>6. OneFailingEndpoint' /\ CountsPeers'
  BY <1>2, <1>3 DEF OneFailingEndpoint, CountsPeers, Diagnosed
<1>7. OutageIsReal'
  BY <1>2 DEF OutageIsReal, Outages!OutageIsReal, Outages!CrossTellsTheOutage, Outages!Failure
<1>8. QED
  BY <1>5, <1>6, <1>7 DEF UptimeInv

(* One more peer is through, and counted when it is down.                  *)
LEMMA AskPeerKeepsInv == UptimeInv /\ Outages!AskPeer => UptimeInv'
<1> SUFFICES ASSUME UptimeInv, Outages!AskPeer PROVE UptimeInv'
  OBVIOUS
<1>1. PICK e \in peers :
        /\ peers' = peers \ {e}
        /\ down' = IF Outages!PeerIsDown(e) THEN down + 1 ELSE down
  BY DEF Outages!AskPeer
<1>2. /\ round = "asking"
      /\ UNCHANGED <<health, round, todo, ep, sig, tcp, cross, outages, last, uptimeStopped, steady>>
  BY DEF Outages!AskPeer
<1>3. e \in Outages!Peers(ep) /\ e \notin Asked /\ Asked' = Asked \cup {e}
  BY <1>1, <1>2 DEF UptimeInv, OneFailingEndpoint, Asked, Outages!Peers
<1>4. Asked \in SUBSET Endpoints /\ Asked' \in SUBSET Endpoints
  BY <1>3 DEF Asked, Outages!Peers
<1>5. IsFiniteSet(Asked) /\ Cardinality(Asked) \in Nat
  BY <1>4, EndpointsAreFinite, FS_Subset, FS_CardinalityType
<1>6. Cardinality(Asked') = Cardinality(Asked) + 1
  BY <1>3, <1>5, FS_AddElement
<1>7. down \in 0..Cardinality(Asked)
  BY <1>2 DEF UptimeInv, CountsPeers
<1>8. down' \in 0..Cardinality(Asked')
  BY <1>1, <1>5, <1>6, <1>7
<1>9. steady = Endpoints => down' = Cardinality(AskedAndDown')
  <2> SUFFICES ASSUME steady = Endpoints PROVE down' = Cardinality(AskedAndDown')
    OBVIOUS
  <2>1. down = Cardinality(AskedAndDown)
    BY <1>2 DEF UptimeInv, CountsPeers
  <2>2. IsFiniteSet(AskedAndDown) /\ e \notin AskedAndDown
    BY <1>3, <1>5, FS_Subset DEF AskedAndDown
  <2>3. CASE Outages!PeerIsDown(e)
    <3>1. AskedAndDown' = AskedAndDown \cup {e}
      BY <1>2, <1>3, <2>3 DEF AskedAndDown, Outages!PeerIsDown
    <3>2. QED
      BY <1>1, <2>1, <2>2, <2>3, <3>1, FS_AddElement
  <2>4. CASE ~ Outages!PeerIsDown(e)
    <3>1. AskedAndDown' = AskedAndDown
      BY <1>2, <1>3, <2>4 DEF AskedAndDown, Outages!PeerIsDown
    <3>2. QED
      BY <1>1, <2>1, <2>4, <3>1
  <2>5. QED
    BY <2>3, <2>4
<1>10. CountsPeers'
  BY <1>2, <1>8, <1>9 DEF CountsPeers
<1>11. Outages!TypeOK'
  <2>1. Cardinality(Asked') <= Cardinality(Endpoints) /\ Cardinality(Asked') \in Nat
    BY <1>4, EndpointsAreFinite, FS_Subset, FS_CardinalityType
  <2>2. down' \in 0..Outages!Cardinality(Endpoints)
    BY <1>8, <2>1, EndpointsAreFinite, UpCardinality
  <2>3. QED
    BY <1>1, <1>2, <2>2 DEF UptimeInv, Outages!TypeOK
<1>12. OneFailingEndpoint' /\ OutageIsReal'
  BY <1>1, <1>2 DEF UptimeInv, OneFailingEndpoint, OutageIsReal, Outages!OutageIsReal,
                    Outages!CrossTellsTheOutage, Outages!Peers
<1>13. QED
  BY <1>10, <1>11, <1>12 DEF UptimeInv

(* All peers are asked, so as many are down as the verdict says.           *)
LEMMA CrossVerdictKeepsInv == UptimeInv /\ Outages!CrossVerdict => UptimeInv'
<1> SUFFICES ASSUME UptimeInv, Outages!CrossVerdict PROVE UptimeInv'
  OBVIOUS
<1> DEFINE n == Cardinality(Endpoints)
           others == Outages!Peers(ep)
           bad == {e \in others : health[e] \in {"down", "serverError"}}
<1>1. /\ round = "asking" /\ peers = {} /\ round' = "sending"
      /\ cross' = CASE n = 1 -> "alone"
                    [] n > 1 /\ down = n - 1 -> "all"
                    [] n > 1 /\ down = 0 -> "isolated"
                    [] OTHER -> "partial"
      /\ UNCHANGED <<health, todo, ep, sig, tcp, peers, down, outages, last, uptimeStopped, steady>>
  BY UpCardinality DEF Outages!CrossVerdict
<1>2. ep \in Endpoints
  BY <1>1 DEF UptimeInv, OneFailingEndpoint, Diagnosed, Outages!TypeOK
<1>3. IsFiniteSet(others) /\ Cardinality(others) = n - 1 /\ n \in Nat \ {0}
  <2>1. IsFiniteSet(others) /\ Cardinality(others) = n - 1
    BY <1>2, EndpointsAreFinite, FS_RemoveElement DEF Outages!Peers
  <2>2. n # 0
    BY <1>2, EndpointsAreFinite, FS_EmptySet
  <2>3. QED
    BY <2>1, <2>2, EndpointsAreFinite
<1>4. bad \in SUBSET others /\ IsFiniteSet(bad) /\ Cardinality(bad) \in Nat
  BY <1>3, FS_Subset, FS_CardinalityType
<1>5. steady = Endpoints => down = Cardinality(bad)
  <2>1. AskedAndDown = bad
    BY <1>1 DEF AskedAndDown, Asked, Outages!PeerIsDown
  <2>2. QED
    BY <1>1, <2>1 DEF UptimeInv, CountsPeers
<1>6. /\ Cardinality(bad) = 0 <=> bad = {}
      /\ Cardinality(bad) = n - 1 <=> bad = others
      /\ n = 1 <=> others = {}
  <2>1. Cardinality(bad) = n - 1 => bad = others
    BY <1>3, <1>4, FS_Subset
  <2>2. Cardinality(others) = 0 <=> others = {}
    BY <1>3, FS_EmptySet
  <2>3. Cardinality(bad) = 0 <=> bad = {}
    BY <1>4, FS_EmptySet
  <2>4. bad = others => Cardinality(bad) = n - 1
    BY <1>3
  <2>5. n = 1 <=> Cardinality(others) = 0
    BY <1>3
  <2>6. QED
    BY <2>1, <2>2, <2>3, <2>4, <2>5, Zenon
<1> HIDE DEF n, others, bad
<1>7. steady = Endpoints =>
        /\ cross' = "all" <=> bad # {} /\ bad = others
        /\ cross' = "isolated" <=> bad = {} /\ others # {}
  <2> SUFFICES ASSUME steady = Endpoints
               PROVE  /\ cross' = "all" <=> bad # {} /\ bad = others
                      /\ cross' = "isolated" <=> bad = {} /\ others # {}
    OBVIOUS
  <2>1. CASE n = 1
    BY <1>1, <1>6, <2>1
  <2>2. CASE n # 1
    BY <1>1, <1>3, <1>4, <1>5, <1>6, <2>2
  <2>3. QED
    BY <2>1, <2>2
<1>8. Outages!CrossTellsTheOutage'
  BY <1>1, <1>7 DEF Outages!CrossTellsTheOutage, others, bad, Outages!Peers
<1>9. cross' \in Outages!Verdicts
  BY <1>1 DEF Outages!Verdicts
<1>10. Outages!TypeOK'
  BY <1>1, <1>9 DEF UptimeInv, Outages!TypeOK
<1>11. OneFailingEndpoint' /\ CountsPeers' /\ Outages!OutageIsReal'
  BY <1>1 DEF UptimeInv, OneFailingEndpoint, CountsPeers, Diagnosed, OutageIsReal,
              Outages!OutageIsReal, Outages!Peers
<1>12. QED
  BY <1>8, <1>10, <1>11 DEF UptimeInv, OutageIsReal

LEMMA UptimeNextInv == UptimeInv /\ [Outages!Next]_uptimeVars => UptimeInv'
<1> SUFFICES ASSUME UptimeInv, [Outages!Next]_uptimeVars PROVE UptimeInv'
  OBVIOUS
<1>0. /\ OutCap \in Nat
      /\ Outages!Cardinality(Endpoints) \in Nat
      /\ 0 \notin Endpoints
  BY PartAssumptions, EndpointsAreFinite, UpCardinality DEF Outages!UptimeAssumption
<1> USE DEF UptimeInv, Outages!TypeOK, OneFailingEndpoint, CountsPeers, Diagnosed, OutageIsReal,
            Outages!OutageIsReal, Outages!CrossTellsTheOutage, Outages!Peers, Asked, AskedAndDown,
            Outages!PeerIsDown, Outages!Verdicts
<1>1. CASE Outages!Tick
  BY <1>0, <1>1 DEF Outages!Tick
<1>2. CASE Outages!CheckHealthy
  BY <1>0, <1>2 DEF Outages!CheckHealthy
<1>3. CASE Outages!Diagnose
  <2>1. Asked' = {} /\ AskedAndDown' = {}
    BY <1>3 DEF Outages!Diagnose
  <2>2. CountsPeers'
    BY <1>3, <2>1, FS_EmptySet DEF Outages!Diagnose
  <2>3. QED
    BY <1>0, <1>3, <2>2 DEF Outages!Diagnose
<1>4. CASE Outages!Send
  BY <1>0, <1>4 DEF Outages!Send
<1>5. CASE Outages!GiveUp
  BY <1>0, <1>5 DEF Outages!GiveUp
<1>6. CASE Outages!RoundDone
  BY <1>0, <1>6 DEF Outages!RoundDone
<1>7. CASE Outages!Receive
  BY <1>0, <1>7 DEF Outages!Receive
<1>8. CASE Outages!Stop
  BY <1>0, <1>8 DEF Outages!Stop
<1>9. CASE Outages!Return
  BY <1>0, <1>9 DEF Outages!Return
<1>10. CASE UNCHANGED uptimeVars
  BY <1>0, <1>10 DEF uptimeVars
<1>11. QED
  BY <1>1, <1>2, <1>3, <1>4, <1>5, <1>6, <1>7, <1>8, <1>9, <1>10, HealthChangeKeepsInv,
     CheckFailingKeepsInv, AskPeerKeepsInv, CrossVerdictKeepsInv
     DEF Outages!Next, Outages!Round

-----------------------------------------------------------------------------
(***************************************************************************)
(* All parts.  A step moves one of them and leaves the others alone, so     *)
(* each part takes a step of its own or stutters.                           *)
(***************************************************************************)
SignalsInv ==
  /\ part \in Parts
  /\ DaemonInv /\ GitInv /\ CIInv /\ MetricsInv /\ UptimeInv
  /\ MatcherInv /\ FileInv /\ CommandInv

LEMMA SignalsInitInv == SignalsInit => SignalsInv
BY DaemonInitInv, GitInitInv, CIInitInv, MetricsInitInv, UptimeInitInv, MatcherInitInv,
   FileInitInv, CommandInitInv DEF SignalsInit, SignalsInv

LEMMA PartsMoveAlone ==
  [SignalsNext]_signalsVars =>
    /\ [Attach!Next]_daemonVars /\ [Git!Next]_gitVars /\ [CI!Next]_ciVars /\ [Next]_vars
    /\ [Outages!Next]_uptimeVars /\ [Matcher!Next]_matcherVars
    /\ [LogFile!Next]_fileVars /\ [LogCommand!Next]_commandVars
    /\ UNCHANGED part
<1> SUFFICES ASSUME [SignalsNext]_signalsVars
             PROVE  /\ [Attach!Next]_daemonVars /\ [Git!Next]_gitVars /\ [CI!Next]_ciVars
                    /\ [Next]_vars /\ [Outages!Next]_uptimeVars /\ [Matcher!Next]_matcherVars
                    /\ [LogFile!Next]_fileVars /\ [LogCommand!Next]_commandVars
                    /\ UNCHANGED part
  OBVIOUS
<1>1. CASE SignalsNext
  BY <1>1 DEF SignalsNext
<1>2. CASE UNCHANGED signalsVars
  BY <1>2 DEF signalsVars
<1>3. QED
  BY <1>1, <1>2

LEMMA SignalsNextInv == SignalsInv /\ [SignalsNext]_signalsVars => SignalsInv'
<1>1. SignalsInv /\ [SignalsNext]_signalsVars => part' \in Parts
  BY PartsMoveAlone DEF SignalsInv
<1>2. QED
  BY <1>1, PartsMoveAlone, DaemonNextInv, GitNextInv, CINextInv, MetricsNextInv,
     UptimeNextInv, MatcherNextInv, FileNextInv, CommandNextInv DEF SignalsInv

LEMMA SignalsInvAlways == SignalsSpec => []SignalsInv
BY SignalsInitInv, SignalsNextInv, PTL DEF SignalsSpec

(* Every part keeps its types: the channel stays within its capacity, the   *)
(* windows of the log rules within theirs, and what an adapter remembers    *)
(* within what there is (daemon.go:49-62 and the adapters).                 *)
THEOREM SignalsTypeCorrect == SignalsSpec => []SignalsTypeOK
<1>1. SignalsInv => SignalsTypeOK
  BY DEF SignalsInv, SignalsTypeOK, DaemonInv, GitInv, CIInv, MetricsInv, UptimeInv,
         MatcherInv, FileInv, CommandInv
<1>2. QED
  BY SignalsInvAlways, <1>1, PTL

(* What a polling adapter has begun to report reaches the handler in order  *)
(* and without a gap until the adapter is stopped (daemon.go:49-62).        *)
THEOREM SignalsArriveInOrder == SignalsSpec => []NothingLostOrReordered
<1>1. SignalsInv => NothingLostOrReordered
  BY DaemonInvImplies DEF SignalsInv, NothingLostOrReordered
<1>2. QED
  BY SignalsInvAlways, <1>1, PTL

(* A commit is reported after what it is built on, and what lastSeen hides  *)
(* was reported or was there at the start (git.go:64-86).                   *)
THEOREM CommitsAccounted == SignalsSpec => []CommitsAreAccountedFor
<1>1. SignalsInv => CommitsAreAccountedFor
  BY DEF SignalsInv, GitInv
<1>2. QED
  BY SignalsInvAlways, <1>1, PTL

(* A CI run is sent at most once by a process, and it is remembered only    *)
(* when it was handed on (githubci.go:86-94).                               *)
THEOREM RunsReportedOnce == SignalsSpec => []RememberedIsReported
<1>1. SignalsInv => RememberedIsReported
  BY DEF SignalsInv, CIInv
<1>2. QED
  BY SignalsInvAlways, <1>1, PTL

(* The failure type and the cross check tell what the endpoints suffer      *)
(* from, as long as they do not change during the round                     *)
(* (uptime.go:100-166, diagnostics.go:163-201).                             *)
THEOREM OutagesAreReal == SignalsSpec => []OutageIsReal
<1>1. SignalsInv => OutageIsReal
  BY DEF SignalsInv, UptimeInv
<1>2. QED
  BY SignalsInvAlways, <1>1, PTL

(* No burst of matching lines is missed while the rate rule is armed        *)
(* (logs.go:272-306).                                                       *)
THEOREM BurstsAreNoticed == SignalsSpec => []NoBurstMissed
<1>1. SignalsInv => NoBurstMissed
  BY DEF SignalsInv, MatcherInv
<1>2. QED
  BY SignalsInvAlways, <1>1, PTL

(* Lines of a followed file are scanned in order, once, and without a gap   *)
(* until a rotation; the goroutine of a followed command returns when       *)
(* nobody can write any more and all was scanned (logs.go:137-242).         *)
THEOREM LogsAreFollowed == SignalsSpec => []FollowedLogsAreRead
<1>1. SignalsInv => FollowedLogsAreRead
  BY FileInvImplies DEF SignalsInv, CommandInv, FollowedLogsAreRead
<1>2. QED
  BY SignalsInvAlways, <1>1, PTL

(* A log rule fires again only after a quiet period without its signal, and *)
(* the rate rule only on a burst (logs.go:252-340).                         *)
THEOREM RulesKeepQuiet == SignalsSpec => QuietPeriodRespected
<1>1. SignalsInv /\ [SignalsNext]_signalsVars =>
        /\ [\A r \in Matcher!LogRules : Matcher!Firing(r) => silence[r] >= Matcher!QuietOf(r)]_
             <<armed, age, matches, matched, logsStopped, silence, burst>>
        /\ [Matcher!Firing("rate") => Len(Matcher!InWindow(burst)) + 1 >= Threshold]_
             <<armed, age, matches, matched, logsStopped, silence, burst>>
  BY PartsMoveAlone, FiringIsDue DEF SignalsInv
<1>2. QED
  BY SignalsInvAlways, <1>1, PTL
     DEF SignalsSpec, QuietPeriodRespected, Matcher!QuietPeriodRespected,
         Matcher!RateMeansBurst, Matcher!vars

=============================================================================
