------------------------------ MODULE LogTail -------------------------------
(***************************************************************************)
(* tailFile of internal/adapter/logs: follows the file at a path while its  *)
(* writer appends lines in pieces and a rotation renames, truncates or      *)
(* removes it.  A line is a number in the order of writing and takes two    *)
(* bytes, its text and its newline; a file is its lines and perhaps the     *)
(* text of one that is not finished.                                        *)
(***************************************************************************)
EXTENDS Integers, Sequences, FiniteSets

CONSTANTS
  Inodes,    \* the files that come to be at the path, one after the other
  MaxLine,   \* bound: the lines written
  Rotations  \* what may happen to the file: "rename", "truncate", "remove"

Lines == 1..MaxLine
Missing == 0

TailAssumption ==
  /\ IsFiniteSet(Inodes) /\ Inodes # {} /\ Inodes = 1..Cardinality(Inodes)
  /\ MaxLine \in Nat \ {0}
  /\ Rotations \subseteq {"rename", "truncate", "remove"}

VARIABLES
  lines,   \* the complete lines of every inode
  partial, \* inodes that end in the text of an unfinished line
  path,    \* the inode the path names, or Missing
  used,    \* how many inodes there have been
  written, \* the last line begun
  file,    \* the inode the adapter holds open; Missing when it has given up
  offset,  \* bytes of it the adapter has consumed
  scanned, \* pieces handed to processLine, in order
  before,  \* ghost: the last line begun before the adapter opened the file
  rotated, \* ghost: something happened to the file since the adapter opened it
  stopped

fileVars == <<lines, partial, path, used, written>>
vars == <<fileVars, file, offset, scanned, before, rotated, stopped>>

Size(i) == 2 * Len(lines[i]) + (IF i \in partial THEN 1 ELSE 0)

\* Nothing is left open, and no offset, once the adapter has given the file up.
TypeOK ==
  /\ lines \in [Inodes -> Seq(Lines)]
  /\ partial \subseteq Inodes
  /\ path \in Inodes \cup {Missing}
  /\ used \in 1..Cardinality(Inodes)
  /\ written \in 0..MaxLine
  /\ file \in Inodes \cup {Missing}
  /\ offset \in 0..(2 * MaxLine + 1)
  /\ file = Missing => offset = 0
  /\ scanned \in Seq(Lines)
  /\ before \in 0..MaxLine
  /\ rotated \in BOOLEAN
  /\ stopped \in BOOLEAN

\* The adapter opens the file at its end; the file may hold text already.
Init ==
  /\ \E n \in 0..1, p \in BOOLEAN :
       /\ lines = [i \in Inodes |-> IF i = 1 /\ n = 1 THEN <<1>> ELSE << >>]
       /\ partial = IF p /\ n + 1 <= MaxLine THEN {1} ELSE {}
       /\ written = n + Cardinality(partial)
  /\ path = 1
  /\ used = 1
  /\ file = 1
  /\ offset = Size(1)
  /\ scanned = << >>
  /\ before = written
  /\ rotated = FALSE
  /\ stopped = FALSE

-----------------------------------------------------------------------------
(* The writer, which always writes to the file at the path, and rotations.   *)

BeginLine ==
  /\ path # Missing /\ path \notin partial /\ written < MaxLine
  /\ partial' = partial \cup {path}
  /\ written' = written + 1
  /\ UNCHANGED <<lines, path, used, file, offset, scanned, rotated, stopped, before>>

FinishLine ==
  /\ path # Missing /\ path \in partial
  /\ lines' = [lines EXCEPT ![path] = Append(@, written)]
  /\ partial' = partial \ {path}
  /\ UNCHANGED <<path, used, written, file, offset, scanned, rotated, stopped, before>>

\* Rename and create, truncate in place (copytruncate), or remove.
Rotate(how) ==
  /\ how \in Rotations
  /\ rotated' = TRUE
  /\ CASE how = "rename" ->
            /\ used < Cardinality(Inodes)
            /\ used' = used + 1 /\ path' = used + 1
            /\ UNCHANGED <<lines, partial, written>>
       [] how = "truncate" ->
            /\ path # Missing
            /\ lines' = [lines EXCEPT ![path] = << >>]
            /\ partial' = partial \ {path}
            /\ UNCHANGED <<path, used, written>>
       [] how = "remove" ->
            /\ path # Missing
            /\ path' = Missing
            /\ UNCHANGED <<lines, partial, used, written>>
  /\ UNCHANGED <<file, offset, scanned, stopped, before>>

-----------------------------------------------------------------------------
(* One tick of the adapter.                                                *)

\* The file shrank, or the path names another inode.  A path that is gone is no
\* rotation yet.
IsRotated == Size(file) < offset \/ (path # Missing /\ path # file)

\* Reopened at its end; a path that cannot be opened ends the goroutine.
Reopen ==
  /\ file # Missing /\ ~ stopped
  /\ IsRotated
  /\ file' = path
  /\ offset' = IF path = Missing THEN 0 ELSE Size(path)
  /\ UNCHANGED <<fileVars, scanned, rotated, stopped, before>>

\* Mutant: the text of an unfinished line is consumed as well.
ConsumedWhole == Size(file)

\* Everything up to the last newline.
Consumed == 2 * Len(lines[file])

\* The lines whose text or newline lies past the offset; the first of them
\* without its text when only the newline does, and then it is empty.
NewLines == SubSeq(lines[file], (offset + 1) \div 2 + 1, Len(lines[file]))

ReadLines ==
  /\ file # Missing /\ ~ stopped
  /\ ~ IsRotated
  /\ 2 * Len(lines[file]) > offset
  /\ offset' = Consumed
  /\ scanned' = scanned \o NewLines
  /\ UNCHANGED <<fileVars, file, rotated, stopped, before>>

Stop ==
  /\ ~ stopped
  /\ stopped' = TRUE
  /\ UNCHANGED <<fileVars, file, offset, scanned, rotated, before>>

-----------------------------------------------------------------------------
Next ==
  \/ BeginLine \/ FinishLine \/ \E how \in Rotations : Rotate(how)
  \/ Reopen \/ ReadLines \/ Stop

Spec == Init /\ [][Next]_vars

FairSpec == Spec /\ WF_vars(Reopen) /\ WF_vars(ReadLines)

-----------------------------------------------------------------------------
(* Properties.                                                             *)

\* No line is scanned twice and none before an earlier one, whatever rotations
\* the adapter notices late or not at all (logs.go:137-207).
ScannedInOrder == \A i, j \in DOMAIN scanned : i < j => scanned[i] < scanned[j]

\* As long as nothing was rotated, the adapter has scanned every complete line
\* before its offset that was begun after it opened the file, and nothing else.
NothingSkippedUnrotated ==
  ~ rotated =>
    /\ scanned = [i \in 1..Len(scanned) |-> before + i]
    /\ scanned # << >> => offset = 2 * scanned[Len(scanned)]

\* A line written after the adapter opened the file is scanned once it is
\* complete, unless the adapter is stopped: the documented "scanning each new
\* line".
EachNewLineIsScanned ==
  \A n \in Lines :
    (n > before /\ path # Missing /\ \E i \in DOMAIN lines[path] : lines[path][i] = n)
      ~> (stopped \/ \E i \in DOMAIN scanned : scanned[i] = n)

=============================================================================
