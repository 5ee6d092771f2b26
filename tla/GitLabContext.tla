--------------------------- MODULE GitLabContext ----------------------------
(***************************************************************************)
(* What internal/adapter/gitlabci adds to the signal of a failed pipeline:  *)
(* an extract of the failed job's log, the diff of the commit, and whether  *)
(* the branch flakes.  Each is one request or two; a reply that is missing  *)
(* or malformed leaves the field empty.  A log is its number of lines and   *)
(* the lines an error pattern matches, a diff the sizes of its files.  Each *)
(* reply is read up to a limit: a page of jobs, files or pipelines, and the *)
(* first 64 KiB of a log.                                                   *)
(***************************************************************************)
EXTENDS Integers, Sequences, FiniteSets, FiniteSetsExt, SequencesExt

CONSTANTS
  MaxLines, Tail0, Fallback, Around, \* 150, 30, 100 and 2 lines in the code
  JobPage,    \* jobs one reply lists; 20 in the code
  MaxRead,    \* lines of a log that begin in its first 64 KiB
  MaxDiff,    \* 32 KiB in the code
  FilePage,   \* files one reply lists; 100 in the code
  HistoryPage, MaxStatuses, MinStatuses, \* 6, 5 and 3 pipelines in the code
  Jobs,       \* bound: the jobs of a pipeline
  Lines,      \* bound: the length of a log
  Files,      \* bound: the files of a commit
  Sizes,      \* sizes a file's diff may have
  Current     \* the id of the failed pipeline

ContextAssumption ==
  /\ {MaxLines, Tail0, Fallback, Around, JobPage, MaxRead, MaxDiff, FilePage, HistoryPage,
      MaxStatuses, MinStatuses, Jobs, Lines, Files, Current} \subseteq Nat
  /\ Tail0 <= MaxLines /\ Tail0 <= Fallback
  /\ Sizes \subseteq Nat

VARIABLE call  \* the last enrichment: what was asked, the reply, the field

Init == call = [of |-> "nothing"]

-----------------------------------------------------------------------------
(* The failed job's log.                                                   *)

Ascending(s) ==
  [i \in 1..Cardinality(s) |-> CHOOSE x \in s : Cardinality({y \in s : y < x}) = i - 1]

\* The lines around the matches, in the order they are found.
ContextLines(n, hits) ==
  Ascending({i \in 1..n : \E h \in hits : h - Around <= i /\ i <= h + Around})

KeepLine(kept, i) == IF Cardinality(kept) >= MaxLines THEN kept ELSE kept \cup {i}

\* Mutant: the cap is spent before the tail is reserved.
ExtractWithoutReserve(n, hits) ==
  IF n <= Fallback THEN 1..n
  ELSE IF hits = {} THEN (n - Fallback + 1)..n
  ELSE FoldLeft(KeepLine, {}, ContextLines(n, hits) \o Ascending((n - Tail0 + 1)..n))

\* A short log whole, a log without a match its end, otherwise the tail and
\* then as much context as fits.
ExtractErrorContext(n, hits) ==
  IF n <= Fallback THEN 1..n
  ELSE IF hits = {} THEN (n - Fallback + 1)..n
  ELSE FoldLeft(KeepLine, (n - Tail0 + 1)..n, ContextLines(n, hits))

\* The result: the failed jobs, whether they were listed, the one that is named
\* (0: none), its log as it was written, what was read of it, what is kept.
LogCall(failed, listed, job, n, hits, read, seen) ==
  [of |-> "log", failed |-> failed, listed |-> listed, job |-> job, lines |-> n, hits |-> hits,
   read |-> read, seen |-> seen, kept |-> ExtractErrorContext(read, seen)]

\* No list of jobs, or none with a failed job.
NoFailedJob(failed) ==
  \E listed \in BOOLEAN :
    /\ listed => \A j \in failed : j > JobPage
    /\ call' = LogCall(failed, listed, 0, 0, {}, 0, {})

\* The log of the first failed job that is listed: all of it, its beginning when
\* it is too long (the last line that was read may be cut before the pattern), or
\* nothing when it cannot be had.
FetchJobTrace(failed) ==
  \E job \in {j \in failed : j <= JobPage /\ \A k \in failed : j <= k} :
  \E n \in 0..Lines : \E hits \in SUBSET (1..n), read \in {0, Min({n, MaxRead})} :
  \E seen \in {hits \cap (1..read), hits \cap (1..(read - 1))} :
    /\ read = n => seen = hits
    /\ call' = LogCall(failed, TRUE, job, n, hits, read, seen)

\* Jobs are numbered as the reply lists them; only its first page is asked for.
FetchFailedJobLogs ==
  \E failed \in SUBSET (1..Jobs) : NoFailedJob(failed) \/ FetchJobTrace(failed)

-----------------------------------------------------------------------------
(* The diff of the commit.                                                 *)

\* One file of the reply: once the total is too large nothing is kept, and it
\* stays too large.
AddFile(acc, size) ==
  LET files == Append(acc.files, size)
  IN  IF acc.tooLarge THEN [acc EXCEPT !.files = files]
      ELSE IF acc.diff + size > MaxDiff
           THEN [files |-> files, diff |-> 0, tooLarge |-> TRUE]
           ELSE [files |-> files, diff |-> acc.diff + size, tooLarge |-> FALSE]

ReadDiff(page) ==
  FoldLeft(AddFile, [files |-> << >>, diff |-> 0, tooLarge |-> FALSE], page)

\* The reply holds the first page of the files; one that breaks off gives nothing.
FetchCommitDiff ==
  \E n \in 0..Files : \E commit \in [1..n -> Sizes], whole \in BOOLEAN :
    LET page == SubSeq(commit, 1, Min({n, FilePage}))
    IN  call' = [of |-> "diff", commit |-> commit,
                 files |-> IF whole THEN ReadDiff(page).files ELSE << >>,
                 diff |-> IF whole THEN ReadDiff(page).diff ELSE 0,
                 whole |-> whole]

-----------------------------------------------------------------------------
(* The branch's earlier pipelines, newest first.                            *)

Finished(status) == status \in {"success", "failed"}

KeepStatus(statuses, p) ==
  IF Len(statuses) >= MaxStatuses \/ p.id = Current \/ ~ Finished(p.status) THEN statuses
  ELSE Append(statuses, p.status)

\* At most MaxStatuses finished pipelines other than the failed one.
Statuses(page) == FoldLeft(KeepStatus, << >>, page)

DetectFlake(page) ==
  LET s == Statuses(page)
  IN  /\ Len(s) >= MinStatuses
      /\ \A i \in 2..Len(s) : s[i] # s[i - 1]

\* Pipelines with smaller ids than the failed one, perhaps newer ones too: the
\* reply is the page of the branch when it is asked for.
FetchHistory ==
  \E n \in 0..HistoryPage : \E newest \in Current..(Current + 2) :
  \E status \in [1..n -> {"success", "failed", "running"}] :
    LET page == [i \in 1..n |-> [id |-> newest + 1 - i, status |-> status[i]]]
    IN  call' = [of |-> "flake", page |-> page, flake |-> DetectFlake(page)]

-----------------------------------------------------------------------------
Next ==
  /\ call.of = "nothing"
  /\ FetchFailedJobLogs \/ FetchCommitDiff \/ FetchHistory

Spec == Init /\ [][Next]_call

-----------------------------------------------------------------------------
(* Properties.                                                             *)

TypeOK ==
  /\ call.of \in {"nothing", "log", "diff", "flake"}
  /\ call.of = "log" => call.read \in 0..call.lines /\ call.kept \subseteq 1..call.read
  /\ call.of = "diff" => call.diff \in 0..MaxDiff
  /\ call.of = "flake" => call.flake \in BOOLEAN

NearHit(i) == \E h \in call.seen : h - Around <= i /\ i <= h + Around

\* Of what was read of a long log, the extract keeps the last lines, at most
\* MaxLines lines in all, nothing that is far from every match, and the earliest
\* context rather than later context (gitlabci.go:263-325).  What was read is the
\* whole log only up to 64 KiB (gitlabci.go:254); see LogKeepsItsEnd.
ExtractKeepsTailAndFirstErrors ==
  (call.of = "log" /\ call.read > Fallback /\ call.seen # {}) =>
    LET tail == (call.read - Tail0 + 1)..call.read
    IN  /\ tail \subseteq call.kept
        /\ Cardinality(call.kept) <= MaxLines
        /\ \A i \in call.kept \ tail : NearHit(i)
        /\ \A i \in (1..call.read) \ call.kept, j \in call.kept \ tail : NearHit(i) => j < i
        /\ (\E i \in (1..call.read) \ call.kept : NearHit(i)) => Cardinality(call.kept) = MaxLines

Total(sizes) == FoldLeft(+, 0, sizes)

\* The diff handed to the agent is the diff of every listed file, or none at
\* all: never a part of it (gitlabci.go:378-396).
DiffIsWholeOrAbsent ==
  (call.of = "diff" /\ call.diff > 0) => call.diff = Total(call.files)

\* A pipeline is called flaky only for other, finished pipelines of its branch
\* that passed and failed in turns (gitlabci.go:401-439).
FlakeIsAlternationOfOthers ==
  (call.of = "flake" /\ call.flake) =>
    LET others == {i \in DOMAIN call.page :
                     call.page[i].id # Current /\ Finished(call.page[i].status)}
    IN  /\ Cardinality(others) >= MinStatuses
        /\ \A i, j \in others :
             (i < j /\ \A k \in others : k <= i \/ j <= k)
               => \/ call.page[i].status # call.page[j].status
                  \/ Cardinality({k \in others : k < j}) >= MaxStatuses

\* What the test of the extract says of it, "tail line %q must always be retained"
\* (enrichment_test.go:32), said of the job's log: not true of a log that is longer
\* than what is read of it.
LogKeepsItsEnd == (call.of = "log" /\ call.read > 0) => call.lines \in call.kept

\* The documented promise that the signal includes the failed job, when the jobs
\* can be listed: not true when the first page has only others.
FailedJobIsNamed ==
  (call.of = "log" /\ call.listed /\ call.failed # {}) => call.job \in call.failed

\* The documented promise for commits whose diff is too large: no diff, but the
\* name of every changed file.
LargeDiffNamesEveryFile ==
  (call.of = "diff" /\ call.whole /\ Total(call.commit) > MaxDiff)
    => call.diff = 0 /\ call.files = call.commit

=============================================================================
