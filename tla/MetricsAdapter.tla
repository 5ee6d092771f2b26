--------------------------- MODULE MetricsAdapter ---------------------------
(***************************************************************************)
(* internal/adapter/metrics: polls Prometheus or Datadog for firing alerts, *)
(* signals those it has not seen, and forgets, so re-arms, those that no    *)
(* longer fire.                                                            *)
(***************************************************************************)
EXTENDS Naturals, FiniteSets

CONSTANTS
  Rules,    \* alerting rules or monitors of the backend
  Allowed,  \* the ones alert_names lets through; all of them when it is empty
  Ids,      \* alert identities
  IdOf,     \* [Rules -> Ids]: Prometheus rules of one name and labels share one
  Provider, \* "prometheus" or "datadog"
  OutCap    \* capacity of the signal channel

ASSUME MetricsAssumption ==
  /\ Allowed \subseteq Rules
  /\ IdOf \in [Rules -> Ids]
  /\ Provider \in {"prometheus", "datadog"}
  /\ OutCap \in Nat

VARIABLES
  state,   \* of every rule: "quiet", "between" (pending, or Warn) or "firing"
  pc,      \* the polling goroutine
  seen,    \* alerts signalled and not seen resolved
  toSend,  \* signals of the current poll that are not sent yet
  out,     \* signals in the channel
  stopped, \* stopCh is closed
  episode  \* ghost: signals for an alert since a poll last showed it resolved

vars == <<state, pc, seen, toSend, out, stopped, episode>>

TypeOK ==
  /\ state \in [Rules -> {"quiet", "between", "firing"}]
  /\ pc \in {"waiting", "asking", "sending", "returned"}
  /\ seen \subseteq Ids
  /\ toSend \subseteq seen
  /\ pc # "sending" => toSend = {}
  /\ out \in 0..OutCap
  /\ stopped \in BOOLEAN
  /\ episode \in [Ids -> Nat]

Init ==
  /\ state \in [Rules -> {"quiet", "between", "firing"}]
  /\ pc = "waiting"
  /\ seen = {}
  /\ toSend = {}
  /\ out = 0
  /\ stopped = FALSE
  /\ episode = [i \in Ids |-> 0]

-----------------------------------------------------------------------------
RuleChanges(r) ==
  /\ \E s \in {"quiet", "between", "firing"} : state' = [state EXCEPT ![r] = s]
  /\ UNCHANGED <<pc, seen, toSend, out, stopped, episode>>

\* What the provider counts as firing.
FiringAlerts ==
  {IdOf[r] : r \in {q \in Allowed :
     state[q] = "firing" \/ (Provider = "datadog" /\ state[q] = "between")}}

Tick ==
  /\ pc = "waiting"
  /\ pc' = "asking"
  /\ UNCHANGED <<state, seen, toSend, out, stopped, episode>>

\* Mutant: a failed poll counts as a poll without alerts.
PollFailsAsEmpty ==
  /\ pc = "asking"
  /\ pc' = "waiting"
  /\ seen' = {}
  /\ UNCHANGED <<state, toSend, out, stopped, episode>>

\* No answer, a bad status or an undecodable one: nothing is touched.
PollFails ==
  /\ pc = "asking"
  /\ pc' = "waiting"
  /\ UNCHANGED <<state, seen, toSend, out, stopped, episode>>

\* seen after a poll: the new ones added, the ones that no longer fire removed.
StillSeen(current) == (seen \cup current) \cap current

PollAnswers ==
  /\ pc = "asking"
  /\ LET current == FiringAlerts
     IN /\ toSend' = current \ seen
        /\ seen' = StillSeen(current)
        /\ episode' = [i \in Ids |-> IF i \notin current THEN 0
                                     ELSE IF i \in seen THEN episode[i]
                                     ELSE episode[i] + 1]
  /\ pc' = "sending"
  /\ UNCHANGED <<state, out, stopped>>

Send ==
  /\ pc = "sending"
  /\ out < OutCap
  /\ \E i \in toSend : toSend' = toSend \ {i}
  /\ out' = out + 1
  /\ UNCHANGED <<state, pc, seen, stopped, episode>>

\* The rest is dropped once stopCh is closed.
GiveUp ==
  /\ pc = "sending" /\ stopped /\ toSend # {}
  /\ pc' = "waiting"
  /\ toSend' = {}
  /\ UNCHANGED <<state, seen, out, stopped, episode>>

PollDone ==
  /\ pc = "sending" /\ toSend = {}
  /\ pc' = "waiting"
  /\ UNCHANGED <<state, seen, toSend, out, stopped, episode>>

Receive ==
  /\ out > 0
  /\ out' = out - 1
  /\ UNCHANGED <<state, pc, seen, toSend, stopped, episode>>

Stop ==
  /\ ~ stopped
  /\ stopped' = TRUE
  /\ UNCHANGED <<state, pc, seen, toSend, out, episode>>

Return ==
  /\ pc = "waiting" /\ stopped
  /\ pc' = "returned"
  /\ UNCHANGED <<state, seen, toSend, out, stopped, episode>>

Next ==
  \/ \E r \in Rules : RuleChanges(r)
  \/ Tick \/ PollFails \/ PollAnswers \/ Send \/ GiveUp \/ PollDone
  \/ Receive \/ Stop \/ Return

Spec == Init /\ [][Next]_vars

\* The ticker, the sends and the receiver make progress; a backend that is asked
\* again and again answers in the end.
FairSpec ==
  /\ Spec
  /\ WF_vars(Tick) /\ SF_vars(PollAnswers) /\ WF_vars(Send) /\ WF_vars(PollDone)
  /\ WF_vars(Receive)

-----------------------------------------------------------------------------
(* Properties.                                                             *)

\* An alert is signalled once from the first poll that shows it until a poll that
\* does not; polls that failed in between count for nothing (metrics.go:114-147).
SignalledOncePerEpisode == \A i \in Ids : episode[i] <= 1

\* What seen suppresses was signalled in this episode (metrics.go:129-147).
SeenWasSignalled == \A i \in Ids : i \in seen <=> episode[i] = 1

\* An alert that fires for good is signalled in that episode, whatever polls fail,
\* unless the adapter is stopped (metrics.go:129-158).
LastingAlertIsSignalled ==
  \A i \in Ids :
    ([](i \in FiringAlerts)) ~> (stopped \/ (episode[i] >= 1 /\ i \notin toSend))

=============================================================================
