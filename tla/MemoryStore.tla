---------------------------- MODULE MemoryStore -----------------------------
(***************************************************************************)
(* The workspace memory behind the agents' memory tool                      *)
(* (internal/memory/store_adapter.go on store/memory.go).  Several agents,  *)
(* a coding agent and the reviewer of the task before for one, use it at    *)
(* once; every call to the embedding service and to the database may fail.  *)
(***************************************************************************)
EXTENDS Integers, FiniteSets

CONSTANTS
  Agents,     \* callers of the adapter
  Categories, \* "semantic", the default, and others
  MaxRows,    \* bound: rows ever inserted
  MaxCalls    \* bound: calls begun

MemoryAssumption ==
  /\ "semantic" \in Categories
  /\ {MaxRows, MaxCalls} \subseteq Nat

Ids == 1..MaxRows
None == 0

VARIABLES
  rows,     \* rows of memory_entries: their ids
  category, \* of every row ever inserted
  memory,   \* ghost: the row each row descends from by updates
  inserted, \* rows ever inserted
  calls,    \* calls begun
  call,     \* of every agent: the call it is in, and how far
  removed,  \* ghost: memories a Remove was called on
  overlaps, \* ghost: memories with two calls at once
  undeleted \* ghost: memories with a tombstone that failed

vars == <<rows, category, memory, inserted, calls, call, removed, overlaps, undeleted>>

NoCall == [op |-> "none", step |-> "idle", id |-> None, cat |-> "semantic"]

TypeOK ==
  /\ rows \subseteq 1..inserted
  /\ category \in [Ids -> Categories]
  /\ memory \in [Ids -> Ids \cup {None}]
  /\ \A i \in 1..inserted : memory[i] \in 1..i
  /\ inserted \in 0..MaxRows /\ calls \in 0..MaxCalls
  /\ \A a \in Agents :
       /\ call[a].op \in {"none", "save", "update", "remove"}
       /\ call[a].step \in {"idle", "get", "embed", "insert", "delete"}
       /\ call[a].id \in 0..inserted
       /\ call[a].cat \in Categories
  /\ removed \subseteq Ids /\ overlaps \subseteq Ids /\ undeleted \subseteq Ids

Init ==
  /\ rows = {} /\ inserted = 0 /\ calls = 0
  /\ category = [i \in Ids |-> "semantic"]
  /\ memory = [i \in Ids |-> None]
  /\ call = [a \in Agents |-> NoCall]
  /\ removed = {} /\ overlaps = {} /\ undeleted = {}

-----------------------------------------------------------------------------
BusyWith(m) == \E a \in Agents : call[a].id # None /\ memory[call[a].id] = m

Begin(a, op, step, id, cat) ==
  /\ call[a].step = "idle" /\ calls < MaxCalls
  /\ calls' = calls + 1
  /\ call' = [call EXCEPT ![a] = [op |-> op, step |-> step, id |-> id, cat |-> cat]]

Goes(a, step) == call' = [call EXCEPT ![a].step = step]
Returns(a) == call' = [call EXCEPT ![a] = NoCall]

\* The category is the first tag that names one, and else the default.
Save(a) ==
  /\ \E c \in Categories : Begin(a, "save", "embed", None, c)
  /\ UNCHANGED <<rows, category, memory, inserted, removed, overlaps, undeleted>>

\* An id the caller knows from an answer; its row may be gone since.
Update(a) ==
  /\ \E id \in 1..inserted :
       /\ Begin(a, "update", "get", id, "semantic")
       /\ overlaps' = IF BusyWith(memory[id]) THEN overlaps \cup {memory[id]} ELSE overlaps
  /\ UNCHANGED <<rows, category, memory, inserted, removed, undeleted>>

Remove(a) ==
  /\ \E id \in 1..inserted :
       /\ Begin(a, "remove", "delete", id, "semantic")
       /\ removed' = removed \cup {memory[id]}
       /\ overlaps' = IF BusyWith(memory[id]) THEN overlaps \cup {memory[id]} ELSE overlaps
  /\ UNCHANGED <<rows, category, memory, inserted, undeleted>>

\* Mutant: the old row is deleted as soon as it was read.
GetAndDelete(a) ==
  /\ call[a].step = "get"
  /\ IF call[a].id \in rows
     THEN call' = [call EXCEPT ![a].step = "embed", ![a].cat = category[call[a].id]]
     ELSE Returns(a)
  /\ rows' = rows \ {call[a].id}
  /\ UNCHANGED <<category, memory, inserted, calls, removed, overlaps, undeleted>>

\* GetMemory: the call ends with ErrNotFound, or with an error, or has the row.
Get(a) ==
  /\ call[a].step = "get"
  /\ \/ /\ call[a].id \in rows
        /\ call' = [call EXCEPT ![a].step = "embed", ![a].cat = category[call[a].id]]
     \/ Returns(a)
  /\ UNCHANGED <<rows, category, memory, inserted, calls, removed, overlaps, undeleted>>

Embed(a) ==
  /\ call[a].step = "embed"
  /\ Goes(a, "insert") \/ Returns(a)
  /\ UNCHANGED <<rows, category, memory, inserted, calls, removed, overlaps, undeleted>>

InsertRow(a, id) ==
  /\ inserted' = id
  /\ rows' = rows \cup {id}
  /\ category' = [category EXCEPT ![id] = call[a].cat]
  /\ memory' = [memory EXCEPT ![id] = IF call[a].op = "save" THEN id ELSE memory[call[a].id]]

\* StoreMemoryReturning: it may fail, and may have inserted the row all the same.
Insert(a) ==
  /\ call[a].step = "insert"
  /\ \/ /\ inserted < MaxRows
        /\ InsertRow(a, inserted + 1)
        /\ IF call[a].op = "save" THEN Returns(a) ELSE Goes(a, "delete")
        /\ UNCHANGED undeleted
     \/ /\ inserted < MaxRows
        /\ InsertRow(a, inserted + 1)
        /\ Returns(a)
        /\ undeleted' = IF call[a].op = "update" THEN undeleted \cup {memory[call[a].id]}
                         ELSE undeleted
     \/ Returns(a) /\ UNCHANGED <<rows, category, memory, inserted, undeleted>>
  /\ UNCHANGED <<calls, removed, overlaps>>

\* DeleteMemory; the error of a tombstone is accepted.
Delete(a) ==
  /\ call[a].step = "delete"
  /\ Returns(a)
  /\ \/ rows' = rows \ {call[a].id} /\ UNCHANGED undeleted
     \/ UNCHANGED rows /\ undeleted' = undeleted \cup {memory[call[a].id]}
  /\ UNCHANGED <<category, memory, inserted, calls, removed, overlaps>>

Next ==
  \E a \in Agents :
    Save(a) \/ Update(a) \/ Remove(a) \/ Get(a) \/ Embed(a) \/ Insert(a) \/ Delete(a)

Spec == Init /\ [][Next]_vars

-----------------------------------------------------------------------------
(* Properties.                                                             *)

RowsOf(m) == {i \in rows : memory[i] = m}

\* A memory that was saved and that nobody removed is never without a row, however
\* updates overlap and whichever of their steps fails (store_adapter.go:150-190).
MemoryIsKept ==
  \A m \in 1..inserted : memory[m] = m /\ m \notin removed => RowsOf(m) # {}

\* An update keeps the category (store_adapter.go:175).
CategoryIsInherited == \A i \in 1..inserted : category[i] = category[memory[i]]

\* A memory has two rows only during an update, after a tombstone that failed, or
\* when two calls met (store_adapter.go:146-149).
DuplicatesAreExplained ==
  \A m \in 1..inserted :
    Cardinality(RowsOf(m)) > 1 => m \in overlaps \cup undeleted \/ BusyWith(m)

=============================================================================
