------------------------------- MODULE Daemon -------------------------------
(***************************************************************************)
(* internal/daemon, its adapters as senders, and the attach command that   *)
(* starts and stops it.  A signal is <<adapter, n>>, the n-th signal that   *)
(* adapter wants to report.  Every goroutine blocks in a send to one        *)
(* buffered channel; one goroutine receives and calls the handler.          *)
(***************************************************************************)
EXTENDS Naturals, Sequences, FiniteSets

CONSTANTS
  Order,     \* the adapters in the order of the configuration
  Schedules, \* cron adapters: every tick starts a goroutine of its own
  Joining,   \* adapters whose Stop waits for their goroutine (logs, metrics)
  Capacity,  \* of the signal channel; 64 in the code
  Ticks      \* bound: the signals one adapter has to report

Adapters == {Order[i] : i \in DOMAIN Order}
Pollers  == Adapters \ Schedules
Signals  == Adapters \X (1..Ticks)

DaemonAssumption ==
  /\ Order \in Seq(Adapters)
  /\ Capacity \in Nat \ {0}
  /\ Ticks \in Nat
  /\ Schedules \subseteq Adapters
  /\ Joining \subseteq Pollers

VARIABLES
  main,      \* where the attach command is
  at,        \* the next adapter d.Start or d.Stop calls
  active,    \* adapters started and not told to stop
  looping,   \* pollers whose goroutine has not returned
  reported,  \* how many signals each adapter has begun to send
  offered,   \* signals a goroutine is blocked on in its select
  channel,   \* d.signals
  done,      \* d.done is closed
  cancelled, \* the context is cancelled
  handler,   \* the goroutine of d.run
  handled    \* signals the handler was called with, in order

vars == <<main, at, active, looping, reported, offered, channel, done,
          cancelled, handler, handled>>

attachVars  == <<main, at, active, done, cancelled>>
adapterVars == <<looping, reported, offered>>

TypeOK ==
  /\ main \in {"starting", "serving", "stopping", "joining", "returned", "exited"}
  /\ at \in 1..(Len(Order) + 1)
  /\ active \subseteq Adapters
  /\ looping \subseteq Pollers
  /\ reported \in [Adapters -> 0..Ticks]
  /\ offered \subseteq Signals
  /\ channel \in Seq(Signals)
  /\ Len(channel) <= Capacity
  /\ done \in BOOLEAN
  /\ cancelled \in BOOLEAN
  /\ handler \in {"none", "waiting", "busy", "gone"}
  /\ handled \in Seq(Signals)

Init ==
  /\ main = "starting"
  /\ at = 1
  /\ active = {}
  /\ looping = {}
  /\ reported = [a \in Adapters |-> 0]
  /\ offered = {}
  /\ channel = << >>
  /\ done = FALSE
  /\ cancelled = FALSE
  /\ handler = "none"
  /\ handled = << >>

OffersOf(a) == {s \in offered : s[1] = a}

-----------------------------------------------------------------------------
(* The attach command.                                                     *)

StartAdapter ==
  /\ main = "starting"
  /\ at <= Len(Order)
  /\ active' = active \cup {Order[at]}
  /\ looping' = looping \cup ({Order[at]} \cap Pollers)
  /\ at' = at + 1
  /\ UNCHANGED <<main, reported, offered, channel, done, cancelled, handler, handled>>

\* Start returns at the first error: no d.run, and the deferred cancel runs.
StartFails ==
  /\ main = "starting"
  /\ at <= Len(Order)
  /\ main' = "returned"
  /\ cancelled' = TRUE
  /\ UNCHANGED <<at, active, looping, reported, offered, channel, done, handler, handled>>

StartHandler ==
  /\ main = "starting"
  /\ at > Len(Order)
  /\ main' = "serving"
  /\ handler' = "waiting"
  /\ UNCHANGED <<at, active, looping, reported, offered, channel, done, cancelled, handled>>

\* Mutant: done is closed first.
InterruptClosingDone ==
  /\ main = "serving"
  /\ main' = "stopping"
  /\ at' = 1
  /\ done' = TRUE
  /\ UNCHANGED <<active, adapterVars, channel, cancelled, handler, handled>>

\* SIGINT or SIGTERM: d.Stop begins.
Interrupt ==
  /\ main = "serving"
  /\ main' = "stopping"
  /\ at' = 1
  /\ UNCHANGED <<active, adapterVars, channel, done, cancelled, handler, handled>>

\* The adapter's Stop closes stopCh, or stops the cron scheduler...
StopAdapter ==
  /\ main = "stopping"
  /\ at <= Len(Order)
  /\ active' = active \ {Order[at]}
  /\ main' = "joining"
  /\ UNCHANGED <<at, adapterVars, channel, done, cancelled, handler, handled>>

\* ... and returns: at once, or when its cron jobs or its goroutine are over.
AdapterStopped ==
  /\ main = "joining"
  /\ Order[at] \in Schedules => OffersOf(Order[at]) = {}
  /\ Order[at] \in Joining => Order[at] \notin looping
  /\ main' = "stopping"
  /\ at' = at + 1
  /\ UNCHANGED <<active, adapterVars, channel, done, cancelled, handler, handled>>

CloseDone ==
  /\ main = "stopping"
  /\ at > Len(Order)
  /\ main' = "returned"
  /\ done' = TRUE
  /\ cancelled' = TRUE
  /\ UNCHANGED <<at, active, adapterVars, channel, handler, handled>>

\* The process ends; nobody waits for the handler or the adapters.
ProcessExits ==
  /\ main = "returned"
  /\ main' = "exited"
  /\ UNCHANGED <<at, active, adapterVars, channel, done, cancelled, handler, handled>>

-----------------------------------------------------------------------------
(* The adapters.                                                           *)

\* A poller's goroutine has something to send.  It may notice stopCh only
\* after one more poll: select picks any ready case.
PollerOffers(a) ==
  /\ main # "exited"
  /\ a \in looping
  /\ OffersOf(a) = {}
  /\ reported[a] < Ticks
  /\ reported' = [reported EXCEPT ![a] = @ + 1]
  /\ offered' = offered \cup {<<a, reported[a] + 1>>}
  /\ UNCHANGED <<attachVars, looping, channel, handler, handled>>

\* The cron scheduler starts a job whether or not earlier ones still wait.
CronTick(a) ==
  /\ main # "exited"
  /\ a \in Schedules \cap active
  /\ reported[a] < Ticks
  /\ reported' = [reported EXCEPT ![a] = @ + 1]
  /\ offered' = offered \cup {<<a, reported[a] + 1>>}
  /\ UNCHANGED <<attachVars, looping, channel, handler, handled>>

\* Mutant: the queue has no bound.
SendUnbounded(s) ==
  /\ main # "exited"
  /\ s \in offered
  /\ channel' = Append(channel, s)
  /\ offered' = offered \ {s}
  /\ UNCHANGED <<attachVars, looping, reported, handler, handled>>

\* Mutant: a send with a default case.
SendOrDrop(s) ==
  /\ main # "exited"
  /\ s \in offered
  /\ channel' = IF Len(channel) < Capacity THEN Append(channel, s) ELSE channel
  /\ offered' = offered \ {s}
  /\ UNCHANGED <<attachVars, looping, reported, handler, handled>>

Send(s) ==
  /\ main # "exited"
  /\ s \in offered
  /\ Len(channel) < Capacity
  /\ channel' = Append(channel, s)
  /\ offered' = offered \ {s}
  /\ UNCHANGED <<attachVars, looping, reported, handler, handled>>

\* A poller's send gives up when stopCh is closed, a cron job's when the
\* context is cancelled.
GiveUp(s) ==
  /\ main # "exited"
  /\ s \in offered
  /\ IF s[1] \in Schedules THEN cancelled ELSE s[1] \notin active
  /\ offered' = offered \ {s}
  /\ UNCHANGED <<attachVars, looping, reported, channel, handler, handled>>

PollerReturns(a) ==
  /\ main # "exited"
  /\ a \in looping
  /\ OffersOf(a) = {}
  /\ a \notin active \/ cancelled
  /\ looping' = looping \ {a}
  /\ UNCHANGED <<attachVars, reported, offered, channel, handler, handled>>

-----------------------------------------------------------------------------
(* The goroutine of d.run.  Its select may still take a buffered signal     *)
(* after done is closed.                                                    *)

Receive ==
  /\ main # "exited"
  /\ handler = "waiting"
  /\ channel # << >>
  /\ handler' = "busy"
  /\ handled' = Append(handled, Head(channel))
  /\ channel' = Tail(channel)
  /\ UNCHANGED <<attachVars, adapterVars>>

\* Mutant: run returns the error of the handler.
HandlerErrorEndsRun ==
  /\ main # "exited"
  /\ handler = "busy"
  /\ handler' \in {"waiting", "gone"}
  /\ UNCHANGED <<attachVars, adapterVars, channel, handled>>

\* An error of the handler is logged, the loop goes on.
HandlerReturns ==
  /\ main # "exited"
  /\ handler = "busy"
  /\ handler' = "waiting"
  /\ UNCHANGED <<attachVars, adapterVars, channel, handled>>

RunReturns ==
  /\ main # "exited"
  /\ handler = "waiting"
  /\ done \/ cancelled
  /\ handler' = "gone"
  /\ UNCHANGED <<attachVars, adapterVars, channel, handled>>

-----------------------------------------------------------------------------
\* What the command does of itself while it starts and while it stops.
StartsNext == StartAdapter \/ StartFails \/ StartHandler
StopsNext == StopAdapter \/ AdapterStopped \/ CloseDone \/ ProcessExits

Attach == StartsNext \/ Interrupt \/ StopsNext

Next ==
  \/ Attach
  \/ \E a \in Adapters : PollerOffers(a) \/ CronTick(a) \/ PollerReturns(a)
  \/ \E s \in offered : Send(s) \/ GiveUp(s)
  \/ Receive \/ HandlerReturns \/ RunReturns

Spec == Init /\ [][Next]_vars

(***************************************************************************)
(* Goroutines run, and a call of the handler ends (RepairLoop,             *)
(* EveryCallReturns).  Senders blocked on a channel are served in the order *)
(* they came, hence the strong fairness of Send.  Nobody has to interrupt   *)
(* the command, and no adapter has to find anything to report.              *)
(***************************************************************************)
FairSpec ==
  /\ Spec
  /\ WF_vars(StartsNext) /\ WF_vars(StopsNext)
  /\ WF_vars(Receive) /\ WF_vars(HandlerReturns)
  /\ \A a \in Adapters : WF_vars(PollerReturns(a))
  /\ \A s \in Signals : SF_vars(Send(s)) /\ WF_vars(GiveUp(s))

-----------------------------------------------------------------------------
(* Properties.                                                             *)

\* What the handler was called with and what it will be called with, in order.
Queue == handled \o channel

\* The signals of an adapter that its goroutine has got rid of.
Sent(a) == 1..(reported[a] - Cardinality(OffersOf(a)))

\* What a polling adapter has begun to report reaches the handler in order and
\* without a gap, whatever the other adapters send, up to the signal its
\* goroutine is blocked on, until the adapter is stopped (daemon.go:49-62 and
\* the blocking sends of the adapters).
NothingLostOrReordered ==
  \A a \in Pollers \cap active :
    /\ \A n \in Sent(a) : \E i \in DOMAIN Queue : Queue[i] = <<a, n>>
    /\ \A i \in DOMAIN Queue : Queue[i][1] = a => Queue[i][2] \in Sent(a)
    /\ \A i, j \in DOMAIN Queue :
         i < j /\ Queue[i][1] = a /\ Queue[j][1] = a => Queue[i][2] < Queue[j][2]

\* A signal an adapter has begun to send is handled although all adapters share
\* one channel of bounded capacity, unless the command is interrupted first
\* (daemon.go:49-62).
EverySignalIsHandled ==
  \A s \in Signals :
    (s \in offered /\ main = "serving")
      ~> ((\E i \in DOMAIN handled : handled[i] = s) \/ main # "serving")

\* d.Stop comes back and the process ends, even when cron jobs wait for room in
\* a full channel: the handler keeps draining it until done is closed
\* (daemon.go:40-47, schedule.go:45-50).
StopReturns == (main = "stopping") ~> (main = "exited")

=============================================================================
