----------------------------- MODULE LogMatcher -----------------------------
(***************************************************************************)
(* internal/adapter/logs: the patterns and the rate window that the         *)
(* goroutines of all files and processes share under one lock, and the      *)
(* goroutine that re-arms them every second.  Instants are ages: how many   *)
(* ticks ago something happened, no longer counted once it is old enough.   *)
(***************************************************************************)
EXTENDS Integers, Sequences, FiniteSets

CONSTANTS
  Patterns,  \* keyword patterns
  Sources,   \* files and processes, one goroutine each
  Quiet,     \* [Patterns -> Nat]: the quiet period of each
  Window,    \* of the rate rule
  Threshold, \* of the rate rule; 0 switches it off
  RateQuiet  \* its quiet period

MatcherAssumption ==
  /\ IsFiniteSet(Patterns)
  /\ Quiet \in [Patterns -> Nat \ {0}]
  /\ {Window, RateQuiet} \subseteq Nat \ {0}
  /\ Threshold \in Nat
  /\ "rate" \notin Patterns

LogRules == Patterns \cup {"rate"}
QuietOf(r) == IF r = "rate" THEN RateQuiet ELSE Quiet[r]
Oldest == Window + 1

VARIABLES
  armed,   \* which rules may fire
  age,     \* ticks since lastMatch of a pattern, lastFire of the rate rule
  matches, \* ages of the matching lines the rate window holds
  toSend,  \* what each goroutine still has to send for its line
  stopped, \* stopCh is closed
  silence, \* ghost: ticks since a rule last fired
  burst    \* ghost: ages of all matching lines since the rate rule was armed

vars == <<armed, age, matches, toSend, stopped, silence, burst>>

TypeOK ==
  /\ armed \in [LogRules -> BOOLEAN]
  /\ \A r \in LogRules : age[r] \in 0..QuietOf(r) /\ silence[r] \in 0..QuietOf(r)
  /\ matches \in Seq(0..Oldest)
  /\ Len(matches) < Threshold \/ matches = << >>
  /\ toSend \in [Sources -> Seq(LogRules)]
  /\ stopped \in BOOLEAN
  /\ burst \in Seq(0..Oldest)

Init ==
  /\ armed = [r \in LogRules |-> r # "rate" \/ Threshold > 0]
  /\ age = [r \in LogRules |-> QuietOf(r)]
  /\ matches = << >>
  /\ toSend = [s \in Sources |-> << >>]
  /\ stopped = FALSE
  /\ silence = [r \in LogRules |-> QuietOf(r)]
  /\ burst = << >>

Older(n, limit) == IF n < limit THEN n + 1 ELSE limit

\* The ages below a limit, in their order: a selection by position, which can be
\* reasoned about where SelectSeq cannot.
Younger(ages, limit) ==
  LET kept == {i \in DOMAIN ages : ages[i] < limit}
      Nth(j) == CHOOSE i \in kept :
                  Cardinality({k \in kept : k > i}) = Cardinality(kept) - j
  IN  [j \in 1..Cardinality(kept) |-> ages[Nth(j)]]

\* One tick of the clock.
Tick ==
  /\ age' = [r \in LogRules |-> Older(age[r], QuietOf(r))]
  /\ silence' = [r \in LogRules |-> Older(silence[r], QuietOf(r))]
  /\ matches' = [i \in DOMAIN matches |-> Older(matches[i], Oldest)]
  /\ burst' = Younger([i \in DOMAIN burst |-> Older(burst[i], Oldest)], Oldest)
  /\ UNCHANGED <<armed, toSend, stopped>>

-----------------------------------------------------------------------------
(* processLine.                                                            *)

InWindow(ages) == Younger(ages, Window)

\* Mutant: the window is one tick short.
WindowTooShort(ages) == Append(Younger(ages, Window - 1), 0)

\* Expired lines are taken out when a line is added.
WindowWith(ages) == Append(InWindow(ages), 0)

\* A line fires every armed pattern it matches.  The rate rule, while armed,
\* counts a matching line once, whether or not its patterns are armed.
Fires(hits) ==
  {p \in hits : armed[p]}
    \cup (IF armed["rate"] /\ Threshold > 0 /\ hits # {} /\ Len(WindowWith(matches)) >= Threshold
          THEN {"rate"} ELSE {})

\* lastMatch, lastFire are set for these rules.
Stamped(hits) == Fires(hits)

\* Signals in the order they are found: patterns, then the rate rule.
Signals(fired) ==
  {s \in [1..Cardinality(fired) -> fired] :
     /\ \A i, j \in DOMAIN s : s[i] = s[j] => i = j
     /\ \A i \in DOMAIN s : s[i] = "rate" => i = Len(s)}

\* Under the lock.
ProcessLine(src, hits) ==
  LET fired == Fires(hits)
      counted == armed["rate"] /\ Threshold > 0 /\ hits # {}
  IN  /\ toSend[src] = << >>
      /\ ~ stopped
      /\ armed' = [r \in LogRules |-> armed[r] /\ r \notin fired]
      /\ age' = [r \in LogRules |-> IF r \in Stamped(hits) THEN 0 ELSE age[r]]
      /\ matches' = IF "rate" \in fired THEN << >>
                    ELSE IF counted THEN WindowWith(matches) ELSE matches
      /\ \E s \in Signals(fired) : toSend' = [toSend EXCEPT ![src] = s]
      /\ silence' = [r \in LogRules |-> IF r \in fired THEN 0 ELSE silence[r]]
      /\ burst' = IF "rate" \in fired THEN << >>
                  ELSE IF counted THEN Append(burst, 0) ELSE burst
      /\ UNCHANGED stopped

\* After the lock: one send at a time, or the rest is dropped by a stop.
SendSignal(src) ==
  /\ toSend[src] # << >>
  /\ \/ toSend' = [toSend EXCEPT ![src] = Tail(@)]
     \/ stopped /\ toSend' = [toSend EXCEPT ![src] = << >>]
  /\ UNCHANGED <<armed, age, matches, stopped, silence, burst>>

-----------------------------------------------------------------------------
\* Mutant: the re-arm loop looks at the rate window as well.
RearmedWithWindow ==
  {r \in LogRules :
     ~ armed[r] /\ (age[r] >= QuietOf(r) \/ (r = "rate" /\ matches = << >>))}

\* The rules whose quiet period is over.
Rearmed ==
  {r \in LogRules :
     /\ ~ armed[r]
     /\ r = "rate" => Threshold > 0
     /\ age[r] >= QuietOf(r)}

Rearm ==
  /\ ~ stopped
  /\ Rearmed # {}
  /\ armed' = [r \in LogRules |-> armed[r] \/ r \in Rearmed]
  /\ UNCHANGED <<age, matches, toSend, stopped, silence, burst>>

Stop ==
  /\ ~ stopped
  /\ stopped' = TRUE
  /\ UNCHANGED <<armed, age, matches, toSend, silence, burst>>

-----------------------------------------------------------------------------
Next ==
  \/ Tick \/ Rearm \/ Stop
  \/ \E src \in Sources :
       \/ \E hits \in SUBSET Patterns : ProcessLine(src, hits)
       \/ SendSignal(src)

Spec == Init /\ [][Next]_vars

\* Time passes and the re-arm goroutine gets the lock.
FairSpec == Spec /\ WF_vars(Tick) /\ WF_vars(Rearm)

-----------------------------------------------------------------------------
(* Properties.                                                             *)

\* A step that hands a signal of rule r to a goroutine for sending.
Firing(r) ==
  \E src \in Sources :
    /\ Len(toSend'[src]) > Len(toSend[src])
    /\ \E i \in DOMAIN toSend'[src] : toSend'[src][i] = r

\* A rule fires again only after a quiet period without its signal, whichever
\* goroutines process lines (logs.go:252-306, 319-340).
QuietPeriodRespected ==
  [][\A r \in LogRules : Firing(r) => silence[r] >= QuietOf(r)]_vars

\* While the rate rule is armed, fewer matching lines than the threshold lie in
\* the window: no burst is missed although the window is pruned lazily and
\* lines arrive from several goroutines (logs.go:272-306).
NoBurstMissed == armed["rate"] => Len(InWindow(burst)) < Threshold

\* The rate rule fires only on a burst: that many matching lines lay in the
\* window, this one included.
RateMeansBurst ==
  [][Firing("rate") => Len(InWindow(burst)) + 1 >= Threshold]_vars

\* A rule that fired is armed again, however many lines match meanwhile.
RulesRearm == \A r \in LogRules : (~ armed[r] /\ Threshold > 0) ~> (armed[r] \/ stopped)

=============================================================================
