----------------------------- MODULE LogProcess -----------------------------
(***************************************************************************)
(* runProcess of internal/adapter/logs: a shell command whose output one    *)
(* goroutine scans, a second that waits for the command, a third that kills *)
(* it on Stop.  The shell may have children that inherit its output; os/exec *)
(* copies what any of them writes, and its Wait returns only when the shell *)
(* has exited and the copying has ended.                                    *)
(***************************************************************************)
EXTENDS Naturals

CONSTANTS
  Commands,    \* the configured processes
  HasChildren, \* commands whose shell leaves a child holding its output
  PipeCap,     \* bound: lines the operating system's pipe holds
  OutCap,      \* capacity of the signal channel
  MaxLines     \* bound: lines each command writes

ProcessAssumption ==
  /\ HasChildren \subseteq Commands
  /\ {PipeCap, OutCap, MaxLines} \subseteq Nat

VARIABLES
  shell,     \* is the shell running
  child,     \* is a child holding the output
  pipe,      \* lines written and not copied yet
  wrote,     \* lines written so far
  copying,   \* os/exec still copies the output
  waited,    \* cmd.Wait has returned: pw and done are closed
  killer,    \* the goroutine of line 230 still waits
  reader,    \* the scanning goroutine: "scanning", "sending" or "returned"
  tooLong,   \* ghost: its scanner met a line beyond its buffer
  out,       \* signals in the channel
  cancelled, \* the context is done
  stop       \* Stop: "no", "called" or "returned"

vars == <<shell, child, pipe, wrote, copying, waited, killer, reader, tooLong,
          out, cancelled, stop>>

TypeOK ==
  /\ shell \in [Commands -> BOOLEAN]
  /\ child \in [Commands -> BOOLEAN]
  /\ pipe \in [Commands -> 0..PipeCap]
  /\ wrote \in [Commands -> 0..MaxLines]
  /\ copying \in [Commands -> BOOLEAN]
  /\ waited \in [Commands -> BOOLEAN]
  /\ killer \in [Commands -> BOOLEAN]
  /\ reader \in [Commands -> {"scanning", "sending", "returned"}]
  /\ tooLong \in [Commands -> BOOLEAN]
  /\ out \in 0..OutCap
  /\ cancelled \in BOOLEAN
  /\ stop \in {"no", "called", "returned"}

\* A command that cannot be started leaves nothing behind.
Init ==
  \E started \in [Commands -> BOOLEAN] :
    /\ shell = started
    /\ child = [c \in Commands |-> started[c] /\ c \in HasChildren]
    /\ pipe = [c \in Commands |-> 0]
    /\ wrote = [c \in Commands |-> 0]
    /\ copying = started
    /\ waited = [c \in Commands |-> ~ started[c]]
    /\ killer = started
    /\ reader = [c \in Commands |-> IF started[c] THEN "scanning" ELSE "returned"]
    /\ tooLong = [c \in Commands |-> FALSE]
    /\ out = 0
    /\ cancelled = FALSE
    /\ stop = "no"

-----------------------------------------------------------------------------
(* The command.                                                            *)

Write(c) ==
  /\ shell[c] \/ child[c]
  /\ copying[c] /\ pipe[c] < PipeCap /\ wrote[c] < MaxLines
  /\ pipe' = [pipe EXCEPT ![c] = @ + 1]
  /\ wrote' = [wrote EXCEPT ![c] = @ + 1]
  /\ UNCHANGED <<shell, child, copying, waited, killer, reader, tooLong, out,
                 cancelled, stop>>

ShellExits(c) ==
  /\ shell[c]
  /\ shell' = [shell EXCEPT ![c] = FALSE]
  /\ UNCHANGED <<child, pipe, wrote, copying, waited, killer, reader, tooLong,
                 out, cancelled, stop>>

ChildExits(c) ==
  /\ child[c]
  /\ child' = [child EXCEPT ![c] = FALSE]
  /\ UNCHANGED <<shell, pipe, wrote, copying, waited, killer, reader, tooLong,
                 out, cancelled, stop>>

\* exec.CommandContext kills the shell, and only the shell, once the context ends.
KilledByContext(c) == cancelled /\ ShellExits(c)

-----------------------------------------------------------------------------
(* The adapter's three goroutines for a command.                           *)

\* Scan: a line, which may match a rule and then gives a signal to send.
ScanLine(c) ==
  /\ reader[c] = "scanning" /\ pipe[c] > 0 /\ copying[c]
  /\ pipe' = [pipe EXCEPT ![c] = @ - 1]
  /\ \E next \in {"scanning", "sending"} : reader' = [reader EXCEPT ![c] = next]
  /\ UNCHANGED <<shell, child, wrote, copying, waited, killer, tooLong, out,
                 cancelled, stop>>

\* A line longer than the scanner's buffer ends the loop, and pr is closed.
ScanFails(c) ==
  /\ reader[c] = "scanning" /\ pipe[c] > 0 /\ copying[c]
  /\ reader' = [reader EXCEPT ![c] = "returned"]
  /\ tooLong' = [tooLong EXCEPT ![c] = TRUE]
  /\ UNCHANGED <<shell, child, pipe, wrote, copying, waited, killer, out,
                 cancelled, stop>>

\* pw is closed: io.Pipe holds nothing back, so the scan ends at once.
ScanEnds(c) ==
  /\ reader[c] = "scanning" /\ waited[c]
  /\ reader' = [reader EXCEPT ![c] = "returned"]
  /\ UNCHANGED <<shell, child, pipe, wrote, copying, waited, killer, tooLong,
                 out, cancelled, stop>>

\* processLine: to the channel, or nowhere once stopCh is closed.
Send(c) ==
  /\ reader[c] = "sending"
  /\ \/ out < OutCap /\ out' = out + 1
     \/ stop # "no" /\ UNCHANGED out
  /\ reader' = [reader EXCEPT ![c] = "scanning"]
  /\ UNCHANGED <<shell, child, pipe, wrote, copying, waited, killer, tooLong,
                 cancelled, stop>>

\* os/exec's copying ends at the end of the output, or with data that the closed
\* pipe refuses.
CopyEnds(c) ==
  /\ copying[c]
  /\ \/ ~ shell[c] /\ ~ child[c] /\ pipe[c] = 0
     \/ reader[c] = "returned" /\ pipe[c] > 0
  /\ copying' = [copying EXCEPT ![c] = FALSE]
  /\ UNCHANGED <<shell, child, pipe, wrote, waited, killer, reader, tooLong, out,
                 cancelled, stop>>

\* cmd.Wait returns; pw and done are closed.
WaitReturns(c) ==
  /\ ~ waited[c] /\ ~ shell[c] /\ ~ copying[c]
  /\ waited' = [waited EXCEPT ![c] = TRUE]
  /\ UNCHANGED <<shell, child, pipe, wrote, copying, killer, reader, tooLong, out,
                 cancelled, stop>>

\* Stop kills the shell, and only the shell; done ends the wait for Stop.
Kill(c) ==
  /\ killer[c]
  /\ \/ stop # "no" /\ shell' = [shell EXCEPT ![c] = FALSE]
     \/ waited[c] /\ UNCHANGED shell
  /\ killer' = [killer EXCEPT ![c] = FALSE]
  /\ UNCHANGED <<child, pipe, wrote, copying, waited, reader, tooLong, out,
                 cancelled, stop>>

-----------------------------------------------------------------------------
Receive ==
  /\ out > 0
  /\ out' = out - 1
  /\ UNCHANGED <<shell, child, pipe, wrote, copying, waited, killer, reader,
                 tooLong, cancelled, stop>>

Cancel ==
  /\ ~ cancelled
  /\ cancelled' = TRUE
  /\ UNCHANGED <<shell, child, pipe, wrote, copying, waited, killer, reader,
                 tooLong, out, stop>>

Stop ==
  /\ stop = "no"
  /\ stop' = "called"
  /\ UNCHANGED <<shell, child, pipe, wrote, copying, waited, killer, reader,
                 tooLong, out, cancelled>>

\* wg.Wait is for the scanning goroutines alone.
StopReturns ==
  /\ stop = "called"
  /\ \A c \in Commands : reader[c] = "returned"
  /\ stop' = "returned"
  /\ UNCHANGED <<shell, child, pipe, wrote, copying, waited, killer, reader,
                 tooLong, out, cancelled>>

Scan(c) == ScanLine(c) \/ ScanFails(c) \/ ScanEnds(c)

Goroutines(c) ==
  Scan(c) \/ Send(c) \/ CopyEnds(c) \/ WaitReturns(c) \/ Kill(c)

Next ==
  \/ \E c \in Commands :
       \/ Write(c) \/ ShellExits(c) \/ ChildExits(c) \/ KilledByContext(c)
       \/ Goroutines(c)
  \/ Receive \/ Cancel \/ Stop \/ StopReturns

Spec == Init /\ [][Next]_vars

\* The goroutines and os/exec run; commands, the receiver and the context need not.
FairSpec ==
  /\ Spec
  /\ \A c \in Commands :
       /\ WF_vars(Scan(c)) /\ WF_vars(Send(c))
       /\ WF_vars(CopyEnds(c)) /\ WF_vars(WaitReturns(c)) /\ WF_vars(Kill(c))
  /\ WF_vars(StopReturns)

-----------------------------------------------------------------------------
(* Properties.                                                             *)

\* When the goroutine of a command has returned, nobody can write to its output
\* any more and every line written was scanned, unless an overlong line ended it:
\* Stop does not return over a running command (logs.go:222-242).
OutputReadToItsEnd ==
  \A c \in Commands :
    (reader[c] = "returned" /\ ~ tooLong[c]) => ~ shell[c] /\ ~ child[c] /\ pipe[c] = 0

\* The comment of logs.go:229: Stop unblocks.
StopUnblocks == stop = "called" ~> stop = "returned"

=============================================================================
