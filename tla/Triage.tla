------------------------------ MODULE Triage ------------------------------
(***************************************************************************)
(* internal/triage: one question to the triage model and what becomes of   *)
(* its answer.  RepairLoop takes the decision as given; here it is made of *)
(* the events of a runtime that may fail, stop early or send its answer    *)
(* twice when it retries a stream, and of the autonomy the configuration   *)
(* gives to each type of change.                                           *)
(* An answer is a sequence of pieces: prose, which has no brace; the word  *)
(* null; a JSON object, of which the fields should_act and change_type     *)
(* matter and either may be missing; something in braces that does not     *)
(* decode (broken JSON, fields of another type); and an object that is cut *)
(* before its closing brace.                                               *)
(***************************************************************************)
EXTENDS Integers, Sequences, SequencesExt

CONSTANTS ChangeTypes, \* the change types the model may name
          Fields,      \* the autonomy fields of the configuration
          MaxPieces,   \* bound: pieces of one answer
          MaxUsage     \* bound: tokens of one kind

TriageAssumption ==
  /\ {MaxPieces, MaxUsage} \subseteq Nat
  /\ "none" \notin Fields  \* what FieldOf says of a type without a field

Levels == {"auto-commit", "pull-request", "suggest-only", "notify"}

VARIABLES autonomy, \* [Fields -> Levels \union {""}], the configuration
          phase,    \* "asked", "reading", "decided"
          text,     \* Seq(piece), the text of the answer so far
          consumed, \* [plain, cache]: tokens the provider has reported
          usage,    \* tokens Triage has counted
          failed,   \* did the runtime fail?
          result    \* what Triage returns

vars == <<autonomy, phase, text, consumed, usage, failed, result>>

(* What a piece says of should_act and change_type; "" where it is silent. *)
Pieces ==
  [kind : {"prose", "null", "broken", "cut"}, act : {""}, type : {""}]
  \union [kind : {"object"}, act : {"yes", "no", ""}, type : ChangeTypes \union {""}]

NoResult == [act |-> FALSE, type |-> "none", level |-> "none", usage |-> 0]

(* ValidateAutonomy admits the four levels and an absent one.              *)
ValidAutonomy == [Fields -> Levels \union {""}]

Init ==
  /\ autonomy \in ValidAutonomy
  /\ phase = "asked" /\ text = <<>>
  /\ consumed = [plain |-> 0, cache |-> 0] /\ usage = 0 /\ failed = FALSE
  /\ result = NoResult

(***************************************************************************)
(* ResolveAutonomy.  The field of a type of change; "schema_changes" is    *)
(* configurable and is the field of none.                                  *)
(***************************************************************************)
FieldOf(type) ==
  CASE type = "test_fix" -> "test_fixes"
    [] type = "bug_fix" -> "bug_fixes"
    [] type = "dependency_update" -> "dependency_updates"
    [] type = "refactor" -> "refactoring"
    [] type = "log_fix" -> "log_fixes"
    [] type = "metric_fix" -> "metric_fixes"
    [] type = "uptime_fix" -> "uptime_fixes"
    [] OTHER -> "none"

ResolveAutonomy(type) ==
  IF FieldOf(type) \in Fields /\ autonomy[FieldOf(type)] # ""
  THEN autonomy[FieldOf(type)] ELSE "suggest-only"

ConservativeDefault ==
  [act |-> TRUE, type |-> "unknown", level |-> "suggest-only", usage |-> 0]

(***************************************************************************)
(* ParseTriageResponse.  It decodes what lies between the first opening    *)
(* and the last closing brace, which is JSON only if that is one object;   *)
(* without braces it decodes the whole text, and null decodes.  A field    *)
(* the answer does not have keeps Go's zero value: false, "".              *)
(***************************************************************************)
Opening == {i \in DOMAIN text : text[i].kind \in {"object", "broken", "cut"}}
Closing == {i \in DOMAIN text : text[i].kind \in {"object", "broken"}}

IsNull == Len(text) = 1 /\ text[1].kind = "null"

IsObject(i) ==
  /\ text[i].kind = "object"
  /\ \A j \in Opening : i <= j
  /\ \A j \in Closing : j <= i

Parses == IsNull \/ \E i \in DOMAIN text : IsObject(i)

Answer == IF IsNull THEN text[1] ELSE text[CHOOSE i \in DOMAIN text : IsObject(i)]

(***************************************************************************)
(* The events of the runtime (external): text, the usage with EventDone,   *)
(* an error, which ends the text without EventDone and which Triage does   *)
(* not look at, and the end of the stream, which may come at any time.     *)
(***************************************************************************)
BuildFails ==
  /\ phase = "asked"
  /\ phase' = "decided" /\ failed' = TRUE
  /\ result' = ConservativeDefault
  /\ UNCHANGED <<autonomy, text, consumed, usage>>

Run ==
  /\ phase = "asked"
  /\ phase' = "reading"
  /\ UNCHANGED <<autonomy, text, consumed, usage, failed, result>>

TextDelta ==
  /\ phase = "reading" /\ ~failed /\ consumed.plain = 0
  /\ Len(text) < MaxPieces
  /\ \E p \in Pieces : text' = Append(text, p)
  /\ UNCHANGED <<autonomy, phase, consumed, usage, failed, result>>

Counted(u) == u.plain

EventDone ==
  /\ phase = "reading" /\ ~failed /\ consumed.plain = 0
  /\ \E n \in 1..MaxUsage, c \in 0..MaxUsage :
       /\ consumed' = [plain |-> n, cache |-> c]
       /\ usage' = usage + Counted(consumed')
  /\ UNCHANGED <<autonomy, phase, text, failed, result>>

RuntimeFails ==
  /\ phase = "reading" /\ ~failed /\ consumed.plain = 0
  /\ failed' = TRUE
  /\ UNCHANGED <<autonomy, phase, text, consumed, usage, result>>

(* Mutant: an answer that does not parse drops the signal.                 *)
DropUnparsed ==
  [ConservativeDefault EXCEPT !.act = FALSE]

DecideOrDrop ==
  IF Parses
  THEN [act |-> Answer.act = "yes", type |-> Answer.type,
        level |-> ResolveAutonomy(Answer.type), usage |-> usage]
  ELSE DropUnparsed

Decide ==
  IF Parses
  THEN [act |-> Answer.act = "yes", type |-> Answer.type,
        level |-> ResolveAutonomy(Answer.type), usage |-> usage]
  ELSE ConservativeDefault

StreamEnds ==
  /\ phase = "reading"
  /\ phase' = "decided"
  /\ result' = Decide
  /\ UNCHANGED <<autonomy, text, consumed, usage, failed>>

Next == \/ BuildFails \/ Run \/ TextDelta \/ EventDone \/ RuntimeFails \/ StreamEnds

Spec == Init /\ [][Next]_vars

---------------------------------------------------------------------------
(* Types; the level of a decision is one the loop knows, so it never fails *)
(* a task as invalid_autonomy when the configuration was validated.        *)
TypeOK ==
  /\ autonomy \in ValidAutonomy
  /\ phase \in {"asked", "reading", "decided"}
  /\ text \in Seq(Pieces)
  /\ consumed \in [plain : 0..MaxUsage, cache : 0..MaxUsage]
  /\ usage \in 0..MaxUsage /\ failed \in BOOLEAN
  /\ phase = "decided" => result.level \in Levels

(* A signal is dropped only for an answer that decodes and does not ask for *)
(* a repair: the only thing in braces is one object without should_act:true, *)
(* or the answer is null.  A runtime that is not built or does not run, no  *)
(* answer, and one that is cut, broken or doubled never drop it             *)
(* (triage.go:53-100, 176-197).                                             *)
FailureNeverDrops ==
  phase = "decided" /\ ~result.act =>
    \/ IsNull
    \/ \E i \in DOMAIN text :
         /\ text[i].kind = "object" /\ text[i].act # "yes"
         /\ \A j \in DOMAIN text \ {i} : text[j].kind \notin {"object", "broken"}

(* Code is shipped only if an object of the answer names a type of change  *)
(* for which the operator has configured that very level; neither a failed *)
(* answer nor a type without a field ships (ResolveAutonomy,               *)
(* conservativeDefault).                                                   *)
ShippingWasConfigured ==
  phase = "decided" /\ result.level \in {"auto-commit", "pull-request"} =>
    \E i \in DOMAIN text :
      /\ text[i].kind = "object"
      /\ FieldOf(text[i].type) \in Fields
      /\ autonomy[FieldOf(text[i].type)] = result.level

(* What the comment of Triage says: "On any failure it returns a           *)
(* conservative default (suggest-only) rather than dropping the signal"    *)
(* (triage.go:47), that is, a signal is dropped only on the word of the    *)
(* model.  An object without should_act and null drop it, too.             *)
OnlyTheModelDrops ==
  phase = "decided" /\ ~result.act =>
    \E i \in DOMAIN text : text[i].kind = "object" /\ text[i].act = "no"

(* What the comment in ParseTriageResponse says of it: the first complete  *)
(* object is taken, duplicates from a retried stream are tolerated.        *)
DuplicatesAreTolerated ==
  phase = "decided" /\ Len(text) = 2
  /\ text[1].kind = "object" /\ text[1] = text[2]
    => result.type = text[1].type /\ result.act = (text[1].act = "yes")

(* What the README says of the budget: all usage the provider reports for  *)
(* triage, cache included, counts.                                         *)
TriageSpendCounts ==
  phase = "decided" /\ consumed.plain > 0 =>
    result.usage = consumed.plain + consumed.cache
===========================================================================
