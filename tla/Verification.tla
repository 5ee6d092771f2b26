--------------------------- MODULE Verification ---------------------------
(***************************************************************************)
(* internal/verification: the commands that a repair has to pass, each run *)
(* through /bin/sh in a process group of its own, with a deadline and with *)
(* at most 64 KiB of its output kept.  RepairLoop takes one command as one *)
(* step that passes or fails; here are the processes, the pipe they write  *)
(* to, the goroutine that waits for them and the select that ends them.    *)
(* Output is counted in units, Cap of which fit into the buffer.           *)
(***************************************************************************)
EXTENDS Integers, FiniteSets, Sequences, SequencesExt

CONSTANTS Commands,   \* how many commands are configured
          Children,   \* the processes a command's shell may start
          MayDetach,  \* may a child leave the process group (setsid)?
          MayCancel,  \* may the context of the task be cancelled?
          Cap,        \* MaxOutputBytes, in units
          PipeSize,   \* units that the pipe holds before a writer blocks
          MaxWrites   \* bound: units one command writes

VerificationAssumption ==
  /\ Commands \in Nat /\ Cap \in Nat /\ PipeSize \in Nat /\ MaxWrites \in Nat
  /\ MayDetach \in BOOLEAN /\ MayCancel \in BOOLEAN
  /\ "shell" \notin Children

VARIABLES results,   \* Seq of the results, in the order of the commands
          phase,     \* "idle", "running", "killed" or "over"
          alive,     \* the processes of the command that run
          group,     \* those in the process group of the shell
          holders,   \* those with the write end of the pipe open
          exit,      \* of the shell: "none", "zero", "other" or "signal"
          pipe,      \* units written and not copied
          written,   \* units copied out of the pipe: boundedBuffer.n
          kept,      \* units in the buffer
          copyError, \* did the copy of the output fail?
          deadline,  \* has the timeout of this command passed?
          cancelled, \* has the context of the task been cancelled?
          survivors  \* processes of earlier commands that still run

procs == <<alive, group, holders, exit>>
output == <<pipe, written, kept, copyError>>
vars == <<results, phase, procs, output, deadline, cancelled, survivors>>

Procs == {"shell"} \union Children

NoResult == [exit |-> "none", err |-> "none", kept |-> 0, truncated |-> FALSE,
             written |-> 0, left |-> {}]

Init ==
  /\ results = <<>> /\ phase = "idle"
  /\ alive = {} /\ group = {} /\ holders = {} /\ exit = "none"
  /\ pipe = 0 /\ written = 0 /\ kept = 0 /\ copyError = FALSE
  /\ deadline = FALSE /\ cancelled = FALSE /\ survivors = {}

(* A result that lets the next command, or the evaluator, follow.          *)
Passed(r) == r.err = "none" /\ r.exit = "zero"

(***************************************************************************)
(* One command begins: its directory does not resolve or it cannot be      *)
(* started, which is a result at once, or its shell runs.                  *)
(***************************************************************************)
(* Mutant: a failed command does not end the verification.                *)
NextCommandAfterFailure == phase = "idle" /\ Len(results) < Commands

NextCommand ==
  /\ phase = "idle" /\ Len(results) < Commands
  /\ \A i \in DOMAIN results : Passed(results[i])

Refuse ==
  /\ NextCommand
  /\ \E err \in {"directory", "start"} :
       results' = Append(results, [NoResult EXCEPT !.err = err])
  /\ UNCHANGED <<phase, procs, output, deadline, cancelled, survivors>>

Start ==
  /\ NextCommand
  /\ phase' = "running"
  /\ alive' = {"shell"} /\ group' = {"shell"} /\ holders' = {"shell"}
  /\ exit' = "none" /\ deadline' = FALSE
  /\ pipe' = 0 /\ written' = 0 /\ kept' = 0 /\ copyError' = FALSE
  /\ UNCHANGED <<results, cancelled, survivors>>

(***************************************************************************)
(* What the processes do (external).  A child inherits the group and the   *)
(* pipe of its parent; it may redirect its output or leave the group.      *)
(***************************************************************************)
Spawn(c) ==
  /\ phase = "running" /\ c \in Children \ (alive \union survivors)
  /\ \E parent \in alive :
       /\ alive' = alive \union {c}
       /\ group' = IF parent \in group THEN group \union {c} ELSE group
       /\ holders' = IF parent \in holders THEN holders \union {c} ELSE holders
  /\ UNCHANGED <<results, phase, exit, output, deadline, cancelled, survivors>>

Redirect(c) ==
  /\ c \in holders \ {"shell"}
  /\ holders' = holders \ {c}
  /\ UNCHANGED <<results, phase, alive, group, exit, output, deadline, cancelled,
                 survivors>>

Detach(c) ==
  /\ MayDetach /\ c \in group \ {"shell"}
  /\ group' = group \ {c}
  /\ UNCHANGED <<results, phase, alive, holders, exit, output, deadline, cancelled,
                 survivors>>

Write(p) ==
  /\ p \in holders
  /\ pipe < PipeSize /\ written + pipe < MaxWrites
  /\ pipe' = pipe + 1
  /\ UNCHANGED <<results, phase, procs, written, kept, copyError, deadline, cancelled,
                 survivors>>

Exit(p) ==
  /\ p \in alive
  /\ alive' = alive \ {p} /\ group' = group \ {p} /\ holders' = holders \ {p}
  /\ IF p = "shell" THEN exit' \in {"zero", "other"} ELSE exit' = exit
  /\ UNCHANGED <<results, phase, output, deadline, cancelled, survivors>>

SurvivorEnds(c) ==
  /\ survivors' = survivors \ {c} /\ c \in survivors
  /\ UNCHANGED <<results, phase, procs, output, deadline, cancelled>>

(* Mutant: a piece is kept whole when anything of it fits.                  *)
BufferWriteOver(n) ==
  [kept |-> IF kept < Cap THEN kept + n ELSE kept, taken |-> n]

(***************************************************************************)
(* The goroutine of os/exec copies what is in the pipe.  boundedBuffer     *)
(* keeps what still fits and claims to have taken all of it: a short count *)
(* would end the copy with an error, and Wait would report it.             *)
(***************************************************************************)
BufferWrite(n) ==
  [kept |-> IF kept + n > Cap THEN Cap ELSE kept + n, taken |-> n]

Copy ==
  /\ phase \in {"running", "killed"} /\ pipe > 0 /\ ~copyError
  /\ \E n \in 1..pipe :
       LET w == BufferWrite(n)
       IN /\ pipe' = pipe - n
          /\ kept' = w.kept
          /\ written' = written + n
          /\ copyError' = (w.taken # n)
  /\ UNCHANGED <<results, phase, procs, deadline, cancelled, survivors>>

(***************************************************************************)
(* The deadline of the command passes, or the context it is derived from   *)
(* is cancelled.                                                           *)
(***************************************************************************)
Deadline ==
  /\ phase = "running" /\ ~deadline
  /\ deadline' = TRUE
  /\ UNCHANGED <<results, phase, procs, output, cancelled, survivors>>

Cancel ==
  /\ MayCancel /\ ~cancelled
  /\ cancelled' = TRUE
  /\ UNCHANGED <<results, phase, procs, output, deadline, survivors>>

(* cmd.Wait has returned: the shell is over and the pipe is at its end,    *)
(* which needs every process that holds it to be over too.                 *)
WaitIsOver ==
  exit # "none" /\ (copyError \/ (holders = {} /\ pipe = 0))

WaitFails == exit # "zero" \/ copyError

(* The result, and what is left of the command's processes.  Each command  *)
(* has its own processes: those left over are survivors from now on.       *)
Record(err) ==
  /\ results' = Append(results,
       [exit |-> exit, err |-> err, kept |-> kept, truncated |-> written > kept,
        written |-> written, left |-> alive \intersect group])
  /\ phase' = "idle"
  /\ survivors' = survivors \union alive
  /\ alive' = {} /\ group' = {} /\ holders' = {} /\ exit' = "none"
  /\ pipe' = 0 /\ written' = 0 /\ kept' = 0 /\ copyError' = FALSE
  /\ deadline' = FALSE
  /\ UNCHANGED cancelled

(***************************************************************************)
(* The select of RunOne: the command is over, or its context is; when both *)
(* are, either is taken.  The kill goes to the whole group, and the result *)
(* still waits for the pipe.                                               *)
(***************************************************************************)
Finish ==
  /\ phase = "running" /\ WaitIsOver
  /\ Record(IF WaitFails THEN "wait" ELSE "none")

(* Mutant: the kill goes to the shell only.                                *)
KillShell ==
  /\ alive' = alive \ {"shell"} /\ holders' = holders \ {"shell"}
  /\ group' = group \ {"shell"}
  /\ exit' = IF exit = "none" THEN "signal" ELSE exit

KillGroup ==
  /\ alive' = alive \ group /\ holders' = holders \ group /\ group' = {}
  /\ exit' = IF exit = "none" THEN "signal" ELSE exit

Kill ==
  /\ phase = "running" /\ (deadline \/ cancelled)
  /\ phase' = "killed"
  /\ KillGroup
  /\ UNCHANGED <<results, output, deadline, cancelled, survivors>>

FinishKilled ==
  /\ phase = "killed" /\ WaitIsOver
  /\ Record("timeout")

(* The commands are over: all have passed, or the last one has not.        *)
Over ==
  /\ phase = "idle"
  /\ Len(results) = Commands \/ \E i \in DOMAIN results : ~Passed(results[i])
  /\ phase' = "over"
  /\ UNCHANGED <<results, procs, output, deadline, cancelled, survivors>>

Next ==
  \/ Refuse \/ Start
  \/ \E c \in Children : Spawn(c)
  \/ \E c \in Children : Redirect(c)
  \/ \E c \in Children : Detach(c)
  \/ \E p \in Procs : Write(p)
  \/ \E p \in Procs : Exit(p)
  \/ \E c \in Children : SurvivorEnds(c)
  \/ Copy \/ Deadline \/ Cancel \/ Finish \/ Kill \/ FinishKilled \/ Over

Spec == Init /\ [][Next]_vars

(* Time passes and goroutines run; nothing is assumed of the processes: a  *)
(* command may hang or write for ever.                                     *)
FairSpec ==
  /\ Spec
  /\ WF_vars(Deadline) /\ WF_vars(Copy) /\ WF_vars(Kill)
  /\ WF_vars(Finish) /\ WF_vars(FinishKilled)
  /\ WF_vars(Refuse \/ Start) /\ WF_vars(Over)

---------------------------------------------------------------------------
(* Types; the buffer never holds more than MaxOutputBytes.                 *)
TypeOK ==
  /\ Len(results) <= Commands
  /\ \A i \in DOMAIN results :
       /\ results[i].exit \in {"none", "zero", "other", "signal"}
       /\ results[i].err \in {"none", "directory", "start", "wait", "timeout"}
       /\ results[i].kept \in 0..Cap
  /\ phase \in {"idle", "running", "killed", "over"}
  /\ alive \subseteq Procs /\ group \subseteq alive /\ holders \subseteq alive
  /\ exit \in {"none", "zero", "other", "signal"}
  /\ pipe \in 0..PipeSize /\ written \in 0..MaxWrites /\ kept \in 0..Cap
  /\ copyError \in BOOLEAN /\ deadline \in BOOLEAN /\ cancelled \in BOOLEAN
  /\ survivors \subseteq Children

(* However much a command writes, and in whatever pieces, the cut of its   *)
(* output never fails it: a shell that ended with zero in time has passed  *)
(* (boundedBuffer.Write and the select of RunOne).                         *)
LongOutputDoesNotFail ==
  \A i \in DOMAIN results :
    results[i].exit = "zero" /\ results[i].err # "timeout" => Passed(results[i])

(* The result tells whether output is missing from it: it is marked as cut *)
(* exactly when the command wrote more than was kept, and nothing is       *)
(* dropped while there is room (boundedBuffer).                            *)
OutputIsCutAtTheCap ==
  \A i \in DOMAIN results :
    /\ results[i].truncated = (results[i].written > Cap)
    /\ results[i].kept = (IF results[i].written > Cap THEN Cap ELSE results[i].written)

(* After a timeout no process of the command's group is left to touch the  *)
(* worktree, also when the shell was over and a child went on (Setpgid and *)
(* the kill of RunOne).                                                    *)
TimeoutEndsTheGroup ==
  \A i \in DOMAIN results :
    results[i].err = "timeout" => results[i].left = {}

(* A shell that ended with zero after its deadline was taken has failed    *)
(* all the same, so only the last result may be one that has not passed:   *)
(* the evaluator, or the next command, is reached over passed ones only.   *)
OnlyTheLastFails ==
  \A i \in DOMAIN results : i < Len(results) => Passed(results[i])

(* Every run of the commands ends, at the latest when the last deadline    *)
(* has passed, even if a command hangs or never stops writing, unless a    *)
(* process that left the group holds the output open for good.             *)
CommandsEnd == <>[](holders \ group # {}) \/ <>(phase = "over")
===========================================================================
