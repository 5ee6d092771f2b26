---------------------------- MODULE MCRepairLoop ----------------------------
(***************************************************************************)
(* Instances of RepairLoop for TLC.                                        *)
(***************************************************************************)
EXTENDS RepairLoop

CONSTANTS
  BaseVersion,  \* the version every path has at the task base
  Key,          \* the one deduplication key the instances use
  Unkeyed       \* the runs whose signal has no key

BaseVersions == [p \in Paths |-> BaseVersion]

SignalKeys == [r \in Runs |-> IF r \in Unkeyed THEN NoKey ELSE Key]

EveryPolicy == AllPolicies
EveryDecision == AllDecisions
SuggestPolicy == {[onError |-> "suggest", verify |-> TRUE]}
DraftPolicy == {[onError |-> "draft-change-request", verify |-> TRUE]}

=============================================================================
