---------------------------- MODULE TaskLifecycle ----------------------------
(***************************************************************************)
(* What Sidecar promises about a task row, whatever happens inside the     *)
(* repair loop: the row's status only moves forward, a deduplication key   *)
(* owns at most one row, a change request is opened only while the task is *)
(* running, and the final status agrees with what was opened.              *)
(***************************************************************************)

CONSTANTS
  Tasks,      \* the tasks that may ever be created
  NoKey,      \* the key of a signal that is never deduplicated
  KeyOf       \* the deduplication key of each task

VARIABLES
  status,     \* the status column of each task, "none" before the row exists
  released    \* the change request opened for each task, if any

vars == <<status, released>>

Init ==
  /\ status = [t \in Tasks |-> "none"]
  /\ released = [t \in Tasks |-> "none"]

Move(t, from, to) ==
  /\ status[t] = from
  /\ status' = [status EXCEPT ![t] = to]
  /\ UNCHANGED released

\* The partial unique index on (workspace_id, signal_key).
Create(t) ==
  /\ KeyOf[t] # NoKey => \A u \in Tasks : KeyOf[u] = KeyOf[t] => status[u] = "none"
  /\ Move(t, "none", "pending")

Start(t) == Move(t, "pending", "running")

Dismiss(t) == \E s \in {"skipped", "notified", "failed"} : Move(t, "pending", s)

Release(t) ==
  /\ status[t] = "running"
  /\ released[t] = "none"
  /\ \E kind \in {"draft", "ready"} : released' = [released EXCEPT ![t] = kind]
  /\ UNCHANGED status

\* A draft needs a human; a completed task opened no draft; a suggestion
\* opened nothing.  A task may fail after the provider accepted the request.
Conclude(t) ==
  \/ Move(t, "running", "failed")
  \/ released[t] = "none" /\ Move(t, "running", "suggested")
  \/ released[t] # "draft" /\ Move(t, "running", "completed")
  \/ released[t] = "draft" /\ Move(t, "running", "needs_review")

Next == \E t \in Tasks :
  Create(t) \/ Start(t) \/ Dismiss(t) \/ Release(t) \/ Conclude(t)

Spec == Init /\ [][Next]_vars

=============================================================================
