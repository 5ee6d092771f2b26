------------------------------- MODULE Uptime -------------------------------
(***************************************************************************)
(* internal/adapter/uptime: each round checks the endpoints one by one; one *)
(* that fails is diagnosed, by asking the others among other things, and    *)
(* signalled.  The endpoints change while the adapter looks at them.  The    *)
(* attach command cancels the context only after Stop has returned.         *)
(***************************************************************************)
EXTENDS Integers, FiniteSets

CONSTANTS
  Endpoints, \* 1..n, in the order of the configuration
  Healths,   \* what an endpoint may suffer from
  OutCap     \* capacity of the signal channel

UptimeAssumption ==
  /\ IsFiniteSet(Endpoints) /\ Endpoints = 1..Cardinality(Endpoints)
  \* An unexpected status is below 500 or a server error; slow is beyond
  \* expect_max_ms, and not so slow that a request gives up.
  /\ {"healthy", "down"} \subseteq Healths
  /\ Healths \subseteq {"healthy", "slow", "badStatus", "serverError", "down"}
  /\ OutCap \in Nat

VARIABLES
  health,    \* of every endpoint
  pc,        \* the polling goroutine
  todo,      \* endpoints this round still has to check
  ep,        \* the endpoint that failed its check
  sig,       \* its failure_type
  tcp,       \* does its tcp diagnosis say ok
  peers,     \* endpoints checkCross still has to ask
  down,      \* how many of those it asked were down
  cross,     \* its verdict
  out,       \* signals in the channel
  last,      \* the endpoint signalled last; 0 when none was
  stopped,   \* stopCh is closed
  steady     \* ghost: endpoints that did not change since the round began

vars == <<health, pc, todo, ep, sig, tcp, peers, down, cross, out, last, stopped, steady>>

Verdicts == {"none", "alone", "isolated", "partial", "all"}

TypeOK ==
  /\ health \in [Endpoints -> Healths]
  /\ pc \in {"waiting", "checking", "diagnosing", "asking", "sending", "returned"}
  /\ todo \subseteq Endpoints
  /\ ep \in Endpoints \cup {0}
  /\ sig \in {"none", "unreachable", "wrong_status", "slow_response"}
  /\ tcp \in BOOLEAN
  /\ peers \subseteq Endpoints \ {ep}
  /\ down \in 0..Cardinality(Endpoints)
  /\ cross \in Verdicts
  /\ out \in 0..OutCap
  /\ last \in Endpoints \cup {0}
  /\ stopped \in BOOLEAN
  /\ steady \subseteq Endpoints

Init ==
  /\ health \in [Endpoints -> {"healthy", "down"}]
  /\ pc = "waiting"
  /\ todo = {} /\ ep = 0 /\ sig = "none" /\ tcp = TRUE
  /\ peers = {} /\ down = 0 /\ cross = "none"
  /\ out = 0 /\ last = 0
  /\ stopped = FALSE
  /\ steady = {}

-----------------------------------------------------------------------------
(* The endpoints.                                                          *)

HealthChanges(e) ==
  /\ \E h \in Healths \ {health[e]} : health' = [health EXCEPT ![e] = h]
  /\ steady' = steady \ {e}
  /\ UNCHANGED <<pc, todo, ep, sig, tcp, peers, down, cross, out, last, stopped>>

-----------------------------------------------------------------------------
(* checkAll.                                                               *)

Tick ==
  /\ pc = "waiting"
  /\ pc' = "checking"
  /\ todo' = Endpoints
  /\ steady' = Endpoints
  /\ UNCHANGED <<health, ep, sig, tcp, peers, down, cross, out, last, stopped>>

Current == CHOOSE e \in todo : \A f \in todo : e <= f

Failure(e) ==
  CASE health[e] = "down" -> "unreachable"
    [] health[e] \in {"badStatus", "serverError"} -> "wrong_status"
    [] health[e] = "slow" -> "slow_response"
    [] OTHER -> "none"

CheckHealthy ==
  /\ pc = "checking" /\ todo # {}
  /\ Failure(Current) = "none"
  /\ todo' = todo \ {Current}
  /\ UNCHANGED <<health, pc, ep, sig, tcp, peers, down, cross, out, last, stopped, steady>>

\* The status is judged before the time the answer took.
CheckFailing ==
  /\ pc = "checking" /\ todo # {}
  /\ Failure(Current) # "none"
  /\ ep' = Current
  /\ sig' = Failure(Current)
  /\ todo' = todo \ {Current}
  /\ pc' = "diagnosing"
  /\ UNCHANGED <<health, tcp, peers, down, cross, out, last, stopped, steady>>

Peers(e) == Endpoints \ {e}

\* dns, tcp and tls ask the failing endpoint anew; then checkCross begins.
Diagnose ==
  /\ pc = "diagnosing"
  /\ tcp' = (health[ep] # "down")
  /\ peers' = Peers(ep)
  /\ down' = 0
  /\ pc' = "asking"
  /\ UNCHANGED <<health, todo, ep, sig, cross, out, last, stopped, steady>>

\* Mutant: every answer counts as up.
PeerIsSilent(e) == health[e] = "down"

\* checkCross counts a server error as down, any other answer as up.
PeerIsDown(e) == health[e] \in {"down", "serverError"}

AskPeer ==
  /\ pc = "asking" /\ peers # {}
  /\ \E e \in peers :
       /\ \A f \in peers : e <= f
       /\ peers' = peers \ {e}
       /\ down' = IF PeerIsDown(e) THEN down + 1 ELSE down
  /\ UNCHANGED <<health, pc, todo, ep, sig, tcp, cross, out, last, stopped,
                 steady>>

CrossVerdict ==
  /\ pc = "asking" /\ peers = {}
  /\ cross' = CASE Cardinality(Endpoints) = 1 -> "alone"
                [] Cardinality(Endpoints) > 1 /\ down = Cardinality(Endpoints) - 1 -> "all"
                [] Cardinality(Endpoints) > 1 /\ down = 0 -> "isolated"
                [] OTHER -> "partial"
  /\ pc' = "sending"
  /\ UNCHANGED <<health, todo, ep, sig, tcp, peers, down, out, last, stopped,
                 steady>>

\* What DiagnosticSummary prints for the cross check: the reason of a partial
\* outage stands in Detail, which it leaves out.
CrossLabel ==
  CASE cross \in {"alone", "isolated"} -> "cross:ok"
    [] cross = "partial" -> "cross:FAIL()"
    [] cross = "all" -> "cross:FAIL(all down)"
    [] OTHER -> ""

Send ==
  /\ pc = "sending" /\ out < OutCap
  /\ out' = out + 1
  /\ last' = ep
  /\ pc' = "checking"
  /\ ep' = 0 /\ sig' = "none" /\ cross' = "none" /\ down' = 0 /\ tcp' = TRUE
  /\ UNCHANGED <<health, todo, peers, stopped, steady>>

\* A closed stopCh ends the round.
GiveUp ==
  /\ pc = "sending" /\ stopped
  /\ todo' = {}
  /\ pc' = "checking"
  /\ ep' = 0 /\ sig' = "none" /\ cross' = "none" /\ down' = 0 /\ tcp' = TRUE
  /\ UNCHANGED <<health, peers, out, last, stopped, steady>>

RoundDone ==
  /\ pc = "checking" /\ todo = {}
  /\ pc' = "waiting"
  /\ UNCHANGED <<health, todo, ep, sig, tcp, peers, down, cross, out, last, stopped, steady>>

-----------------------------------------------------------------------------
Receive ==
  /\ out > 0
  /\ out' = out - 1
  /\ UNCHANGED <<health, pc, todo, ep, sig, tcp, peers, down, cross, last, stopped, steady>>

Stop ==
  /\ ~ stopped
  /\ stopped' = TRUE
  /\ UNCHANGED <<health, pc, todo, ep, sig, tcp, peers, down, cross, out, last,
                 steady>>

Return ==
  /\ pc = "waiting" /\ stopped
  /\ pc' = "returned"
  /\ UNCHANGED <<health, todo, ep, sig, tcp, peers, down, cross, out, last, stopped, steady>>

Round == CheckHealthy \/ CheckFailing \/ Diagnose \/ AskPeer \/ CrossVerdict \/ RoundDone

Next ==
  \/ \E e \in Endpoints : HealthChanges(e)
  \/ Tick \/ Round \/ Send \/ GiveUp \/ Receive \/ Stop \/ Return

Spec == Init /\ [][Next]_vars

\* The ticker fires, requests answer or time out, and the daemon receives.
FairSpec == Spec /\ WF_vars(Tick) /\ WF_vars(Round) /\ WF_vars(Send) /\ WF_vars(Receive)

-----------------------------------------------------------------------------
(* Properties.                                                             *)

\* The failure type of a signal is what its endpoint really suffers from, when the
\* endpoint has not changed since the round began (uptime.go:100-166).
OutageIsReal ==
  (ep # 0 /\ ep \in steady) =>
    sig = CASE health[ep] = "down" -> "unreachable"
            [] health[ep] \in {"badStatus", "serverError"} -> "wrong_status"
            [] health[ep] = "slow" -> "slow_response"
            [] OTHER -> "nothing"

\* The cross check blames the infrastructure exactly when no other endpoint gives
\* a usable answer, and this endpoint exactly when all others do, as long as no
\* endpoint changes during the round (diagnostics.go:163-201).
CrossTellsTheOutage ==
  (pc = "sending" /\ steady = Endpoints) =>
    LET bad == {e \in Peers(ep) : health[e] \in {"down", "serverError"}}
    IN /\ cross = "all" <=> bad # {} /\ bad = Peers(ep)
       /\ cross = "isolated" <=> bad = {} /\ Peers(ep) # {}

\* An endpoint that fails from some time on is signalled, however the others
\* behave, unless the adapter is stopped (uptime.go:81-98).
LastingOutageIsSignalled ==
  \A e \in Endpoints :
    ([](health[e] # "healthy")) ~> (last = e \/ stopped)

\* README.md:377: cross:FAIL means that all endpoints are down.
CrossFailMeansAllDown ==
  (pc = "sending" /\ steady = Endpoints /\ CrossLabel \notin {"cross:ok", ""}) =>
    \A e \in Peers(ep) : health[e] \in {"down", "serverError"}

=============================================================================
