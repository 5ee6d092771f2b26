----------------------------- MODULE DurableTrace -----------------------------
(***************************************************************************)
(* What is promised of the trace of an agent run, whatever the buffering of *)
(* the collector and the failures of the database: the rows are the first   *)
(* events, a failure ends the numbering, what was buffered then is written  *)
(* as a whole or not at all, and a run whose trace is called complete has   *)
(* a row for every event.                                                   *)
(***************************************************************************)
EXTENDS Integers

VARIABLES
  numbered, \* events that have a number
  rows,     \* numbers of the events that are stored
  state     \* "open", "failed", "complete", "partial" or "gone"

vars == <<numbered, rows, state>>

Init == numbered = 0 /\ rows = {} /\ state = "open"

\* Events are numbered, and some of those that are not yet stored become so.
Record ==
  /\ state = "open" /\ state' \in {"open", "failed"}
  /\ numbered' \in Nat /\ numbered <= numbered'
  /\ rows \subseteq rows' /\ \E n \in 0..numbered' : rows' = 1..n

\* The last write: only a trace without a failure is complete.
Close ==
  /\ state \in {"open", "failed"} /\ state' \in {"complete", "partial"}
  /\ numbered' = numbered
  /\ rows' \in {rows, 1..numbered}
  /\ state' = "complete" => state = "open" /\ rows' = 1..numbered

Die == state' = "gone" /\ UNCHANGED <<numbered, rows>>

Next == Record \/ Close \/ Die

Spec == Init /\ [][Next]_vars

=============================================================================
