-------------------------- MODULE TraceRetention --------------------------
(***************************************************************************)
(* The deletion of expired trace rows (loop.runTraceRetention and          *)
(* DeleteAgentTraceEventsBefore).  There is no scheduler: a task that      *)
(* traces an agent runs one batch, if the last successful batch of this    *)
(* process is a day ago, and a batch deletes at most 1000 rows.  The code  *)
(* bounds neither the rows that expire in a day nor the time in which no   *)
(* task runs: PerTick and MaxQuiet describe a workload, and the backlog is *)
(* measured against it, whether the batches keep up with it or not.        *)
(* Time is counted in ticks; rows expire oldest first, so their number is  *)
(* all that matters.                                                       *)
(***************************************************************************)
EXTENDS Integers

CONSTANTS Day,      \* ticks of a day, the least time between two batches
          MaxQuiet, \* the longest time, in ticks, in which no task cleans up
          PerTick,  \* rows that expire in one tick, at most
          Batch,    \* rows one batch deletes, at most
          MaxBatches \* bound: batches of a behaviour

(* Numbers; nothing is assumed of how they compare.                        *)
ASSUME RetentionAssumption ==
  /\ Day \in Nat \ {0} /\ MaxQuiet \in Nat \ {0}
  /\ PerTick \in Nat /\ Batch \in Nat /\ MaxBatches \in Nat

VARIABLES expired, \* rows older than the retention period
          since,   \* ticks since the last batch of this process; Day at first
          quiet,   \* ticks in which a batch was due and none succeeded
          batches  \* batches that succeeded

retentionVars == <<expired, since, quiet, batches>>

RetentionInit ==
  /\ expired = 0
  /\ since = Day  \* retainedAt is zero: the first task runs a batch
  /\ quiet = 0 /\ batches = 0

(* A tick passes and rows expire.  The bound MaxQuiet is on the time that a *)
(* due batch is put off, because no task runs or because it fails.          *)
Tick ==
  /\ since >= Day => quiet < MaxQuiet
  /\ \E n \in 0..PerTick : expired' = expired + n
  /\ since' = IF since < Day THEN since + 1 ELSE since
  /\ quiet' = IF since < Day THEN quiet ELSE quiet + 1
  /\ UNCHANGED batches

Deleted(n) == IF n <= Batch THEN n ELSE Batch

(* A task runs the batch that is due.                                      *)
CleanUp ==
  /\ since >= Day /\ batches < MaxBatches
  /\ expired' = expired - Deleted(expired)
  /\ since' = 0 /\ quiet' = 0 /\ batches' = batches + 1

(* Mutant: a batch that failed counts as done.                             *)
CleanUpFailsAsDone ==
  /\ since >= Day
  /\ since' = 0 /\ quiet' = 0
  /\ UNCHANGED <<expired, batches>>

(* A batch fails: retainedAt stays, so the next task tries again.          *)
CleanUpFails ==
  /\ since >= Day
  /\ UNCHANGED retentionVars

(* The process restarts: the first task runs a batch at once.              *)
Restart ==
  /\ since < Day
  /\ since' = Day
  /\ UNCHANGED <<expired, quiet, batches>>

RetentionNext == Tick \/ CleanUp \/ CleanUpFails \/ Restart

RetentionSpec == RetentionInit /\ [][RetentionNext]_retentionVars

---------------------------------------------------------------------------
(* Types.                                                                  *)
RetentionTypeOK ==
  /\ expired \in Nat
  /\ since \in 0..Day
  /\ quiet \in 0..MaxQuiet
  /\ batches \in Nat

(* The rows that expire in the longest time between two batches, and those *)
(* of them that one batch leaves behind.                                   *)
PerRound == PerTick * (Day + MaxQuiet)
Excess == IF PerRound <= Batch THEN 0 ELSE PerRound - Batch

(* The expired rows are at most those of one round and the excess of every *)
(* batch so far, whatever fails and restarts in between.  A workload that  *)
(* fits into a batch has a bounded table; one that does not lets it grow   *)
(* by the excess a batch, and by no more (loop.go:985-1004,                *)
(* store/trace.go:173-188).                                                *)
BacklogBounded == expired <= PerRound + batches * Excess

(* The inductive invariant: the backlog is what expired since the batch    *)
(* and what the batches left behind.                                       *)
Backlog == expired <= PerTick * (since + quiet) + batches * Excess

(* What the specification says of a row older than the retention period,   *)
(* "the retention job deletes it in a bounded batch", taken for the table  *)
(* (durable-agent-execution-tracing/spec.md:185-186): after a batch no     *)
(* expired row is left.  Not true of a workload that does not fit.         *)
BatchTakesAll == since = 0 => expired = 0
===========================================================================
