------------------------------ MODULE DiffAnchors ------------------------------
(***************************************************************************)
(* What omp's /diff shows and where its annotations are anchored.  The     *)
(* loader asks git for the tracked changes, then for the untracked ones,   *)
(* and reads the ranges and lines a patch displays off its text; the       *)
(* annotate_diff tool validates targets against one load, /diff validates  *)
(* them again against another, the files being edited all the time.  There *)
(* is one path; a file of no lines is no file.                             *)
(***************************************************************************)
EXTENDS Naturals, Sequences, FiniteSets, SequencesExt

CONSTANTS
  Line,      \* contents of lines; "++" and "--" make a change look like a path marker
  MaxLen,    \* bound on the length of a file
  Context,   \* unchanged lines git shows around a change
  MaxEdits,  \* bound on changes of the file
  MaxNotes   \* bound on active annotations

ASSUME AnchorAssumption == MaxLen \in Nat /\ Context \in Nat /\ MaxEdits \in Nat /\ MaxNotes \in Nat

VARIABLES
  base,     \* the file at the merge base
  worktree, \* the file in the working tree
  tracked,  \* whether the index has it
  edits,    \* changes so far
  loads,    \* the load of the annotate tool, and the one of /diff
  noted,    \* active annotations
  shown     \* what the last review displayed: see NothingShown

anchorVars == <<base, worktree, tracked, edits, loads, noted, shown>>

Content == UNION {[1..n -> Line] : n \in 0..MaxLen}
User == {"annotate", "review"}
NoLoad == [pc |-> "idle", since |-> 0, patch |-> <<>>, listed |-> FALSE, range |-> <<>>]
NothingShown == [there |-> FALSE, files |-> <<>>, since |-> 0, till |-> 0, stale |-> {}]

AnchorTypeOK ==
  /\ base \in Content /\ worktree \in Content /\ tracked \in BOOLEAN
  /\ edits \in 0..MaxEdits
  /\ \A u \in User : loads[u].pc \in {"idle", "list", "untracked"}
  /\ \A a \in noted : a.range \in (1..MaxLen) \X (1..MaxLen) /\ a.since \in 0..MaxEdits

\* A file of the base that the index lacks: see Index.
AnchorInit ==
  /\ base \in Content /\ worktree \in Content /\ tracked \in BOOLEAN /\ (tracked \/ base = <<>>)
  /\ edits = 0 /\ loads = [u \in User |-> NoLoad] /\ noted = {} /\ shown = NothingShown

-----------------------------------------------------------------------------
\* git diff: a script of lines kept ("="), removed and added, and the hunks around its changes.

Same(old, new) == [i \in 1..Len(old) |->
  IF old[i] = new[i] THEN <<[is |-> "=", text |-> new[i]]>>
  ELSE <<[is |-> "-", text |-> old[i]], [is |-> "+", text |-> new[i]]>>]

Marked(mark, lines) == [i \in 1..Len(lines) |-> [is |-> mark, text |-> lines[i]]]

\* The whole file replaced, where the lengths differ, but for the lines it begins with.
Script(old, new) ==
  IF Len(old) = Len(new) THEN FlattenSeq(Same(old, new))
  ELSE LET p == Len(LongestCommonPrefix({old, new})) IN
       Marked("=", SubSeq(new, 1, p)) \o Marked("-", SubSeq(old, p + 1, Len(old)))
         \o Marked("+", SubSeq(new, p + 1, Len(new)))

Displayed(ops) ==
  {k \in DOMAIN ops : \E c \in DOMAIN ops :
     ops[c].is # "=" /\ k \in (c - Context)..(c + Context)}

\* New-side number of the line of step k, or of the last one before it.
NewAt(ops, k) == Cardinality({j \in 1..k : ops[j].is # "-"})

\* Where the hunk ends that step k is displayed in, and the header of one that begins there.
HunkEnd(shows, k) == CHOOSE b \in shows : b >= k /\ k..b \subseteq shows /\ b + 1 \notin shows

Header(ops, k) ==
  LET last == NewAt(ops, HunkEnd(Displayed(ops), k))
      count == last - NewAt(ops, k - 1)
  IN [is |-> "@@", count |-> count, start |-> IF count = 0 THEN last ELSE NewAt(ops, k - 1) + 1]

\* What the patch has of step k: a step not displayed before one that is begins a hunk.
Printed(ops, k) ==
  LET shows == Displayed(ops) IN
  IF k \notin shows THEN <<>>
  ELSE IF k - 1 \in shows THEN <<ops[k]>> ELSE <<Header(ops, k), ops[k]>>

FileHeader == <<[is |-> "diff --git"], [is |-> "---"], [is |-> "+++"]>>

GitDiff(old, new) ==
  LET ops == Script(old, new) IN
  IF old = new THEN <<>> ELSE FileHeader \o FlattenSeq([k \in 1..Len(ops) |-> Printed(ops, k)])

-----------------------------------------------------------------------------
\* parseDiffFiles.

NoFile == [ranges |-> {}, lines |-> <<>>]
Scanner == [files |-> <<>>, open |-> FALSE, at |-> 0, scanning |-> FALSE]

\* How a line of the patch begins: a removed "--" begins like a marker, an added "++" too.
BeginsLike(line) ==
  CASE line.is = "-" -> IF line.text = "--" THEN "---" ELSE "-"
    [] line.is = "+" -> IF line.text = "++" THEN "+++" ELSE "+"
    [] OTHER -> line.is

PutRange(files, range) == [files EXCEPT ![Len(files)].ranges = @ \cup {range}]

\* Mutant: markers are recognized in a hunk too.
HunkScans(st, line) ==
  [st EXCEPT !.at = line.start,
             !.files = IF st.open /\ line.count > 0
                       THEN PutRange(@, <<line.start, line.start + line.count - 1>>) ELSE @]

\* A hunk header ends the scan for markers; a hunk that only removes has no range.
StartHunk(st, line) ==
  [st EXCEPT !.scanning = FALSE, !.at = line.start,
             !.files = IF st.open /\ line.count > 0
                       THEN PutRange(@, <<line.start, line.start + line.count - 1>>) ELSE @]

PutLine(st, line) ==
  [st EXCEPT !.at = @ + 1,
             !.files[Len(st.files)].lines =
               [n \in DOMAIN @ \cup {st.at} |-> IF n = st.at THEN line.text ELSE @[n]]]

ParseLine(st, line) ==
  LET begins == BeginsLike(line) IN
  CASE begins = "diff --git" -> [st EXCEPT !.open = FALSE, !.at = 0, !.scanning = TRUE]
    [] st.scanning /\ begins = "---" -> st
    [] st.scanning /\ begins = "+++" -> [st EXCEPT !.files = Append(@, NoFile), !.open = TRUE]
    [] begins = "@@" -> StartHunk(st, line)
    [] OTHER -> IF st.open /\ st.at # 0 /\ line.is \in {"+", "="} THEN PutLine(st, line) ELSE st

ParseDiffFiles(patch) == FoldLeft(ParseLine, Scanner, patch).files

\* omitPatchPaths: a file that is listed as untracked leaves the tracked patch.
OmitPatchPaths(patch, omitted) == IF omitted THEN <<>> ELSE patch

-----------------------------------------------------------------------------
\* Anchors.

ContainingRange(file, range) ==
  \E r \in file.ranges : r[1] <= range[1] /\ range[2] <= r[2]

\* anchorHashForLines: the range and the exact lines in it.
Anchor(file, range) == <<range, [n \in range[1]..range[2] |-> file.lines[n]]>>

Addresses(file, range) ==
  ContainingRange(file, range) /\ range[1]..range[2] \subseteq DOMAIN file.lines

\* validateTargets: a file of the diff, a range that is not reversed within one of its hunks.
Valid(files, range) ==
  files # <<>> /\ 1 <= range[1] /\ range[1] <= range[2] /\ Addresses(files[1], range)

\* Mutant: a range is taken to include the line that follows it.
CurrentBeyond(files) ==
  {a \in noted : /\ files # <<>> /\ Addresses(files[1], <<a.range[1], a.range[2] + 1>>)
                /\ Anchor(files[1], a.range) = a.anchor}

\* revalidateAnnotations: the annotations that still say what they were written on.
Current(files) ==
  {a \in noted : files # <<>> /\ Addresses(files[1], a.range) /\ Anchor(files[1], a.range) = a.anchor}

-----------------------------------------------------------------------------
\* Loading, a git call to a step.

fileVars == <<base, worktree, tracked, edits>>
Loading(u, pc) == loads[u].pc = pc

\* The refs are resolved, then diffText against the base: a file the index lacks is deleted.
DiffText(u, range) ==
  /\ Loading(u, "idle")
  /\ loads' = [loads EXCEPT ![u] = [pc |-> "list", since |-> edits, listed |-> FALSE, range |-> range,
                                   patch |-> GitDiff(base, IF tracked THEN worktree ELSE <<>>)]]
  /\ UNCHANGED <<fileVars, noted>>

AnnotateDiff(range) == DiffText("annotate", range) /\ UNCHANGED shown
StartReview == DiffText("review", <<>>) /\ shown' = NothingShown

UntrackedPaths(u) ==
  /\ Loading(u, "list")
  /\ loads' = [loads EXCEPT ![u] = [@ EXCEPT !.pc = "untracked", !.listed = ~tracked /\ worktree # <<>>]]
  /\ UNCHANGED <<fileVars, noted, shown>>

\* untrackedDiff: a listed file as it is by now; one that has gone is omitted with a warning.
Patch(u) ==
  LET there == loads[u].listed /\ worktree # <<>> IN
  OmitPatchPaths(loads[u].patch, there) \o (IF there THEN GitDiff(<<>>, worktree) ELSE <<>>)

Files(u) == ParseDiffFiles(Patch(u))
Loaded(u) == Loading(u, "untracked") /\ loads' = [loads EXCEPT ![u] = NoLoad]

\* Any issue rejects the call.
RefuseTargets ==
  /\ Loaded("annotate") /\ ~Valid(Files("annotate"), loads["annotate"].range)
  /\ UNCHANGED <<fileVars, noted, shown>>

\* The id is of the range and what is said, not of the anchor: an active one is a duplicate.
Duplicate == \E a \in noted : a.range = loads["annotate"].range

Skip ==
  /\ Loaded("annotate") /\ Valid(Files("annotate"), loads["annotate"].range) /\ Duplicate
  /\ UNCHANGED <<fileVars, noted, shown>>

RecordAnnotation ==
  /\ Loaded("annotate") /\ Valid(Files("annotate"), loads["annotate"].range) /\ ~Duplicate
  /\ Cardinality(noted) < MaxNotes
  /\ noted' = noted \cup {[range |-> loads["annotate"].range, since |-> loads["annotate"].since,
                           anchor |-> Anchor(Files("annotate")[1], loads["annotate"].range)]}
  /\ UNCHANGED <<fileVars, shown>>

RemoveAnnotation(a) ==
  /\ a \in noted /\ noted' = noted \ {a} /\ UNCHANGED <<fileVars, loads, shown>>

\* The journal is read when the diff is loaded; what is stale is discarded.
ShowReview ==
  /\ Loaded("review") /\ Patch("review") # <<>>
  /\ shown' = [there |-> TRUE, files |-> Files("review"), since |-> loads["review"].since,
               till |-> edits, stale |-> noted \ Current(Files("review"))]
  /\ UNCHANGED <<fileVars, noted>>

NoChanges ==
  /\ Loaded("review") /\ Patch("review") = <<>> /\ UNCHANGED <<fileVars, noted, shown>>

\* Somebody edits the file, or adds it to the index or removes it there.
Edit(content) ==
  /\ edits < MaxEdits /\ edits' = edits + 1 /\ content # worktree /\ worktree' = content
  /\ UNCHANGED <<base, tracked, loads, noted, shown>>

Index ==
  /\ edits < MaxEdits /\ edits' = edits + 1 /\ tracked' = ~tracked
  /\ UNCHANGED <<base, worktree, loads, noted, shown>>

AnchorNext ==
  \/ \E from, to \in 1..MaxLen : AnnotateDiff(<<from, to>>)
  \/ \E u \in User : UntrackedPaths(u)
  \/ \E a \in noted : RemoveAnnotation(a)
  \/ \E content \in Content : Edit(content)
  \/ StartReview \/ RefuseTargets \/ Skip \/ RecordAnnotation \/ ShowReview \/ NoChanges \/ Index

AnchorSpec == AnchorInit /\ [][AnchorNext]_anchorVars

-----------------------------------------------------------------------------
\* A frozen diff loaded while nothing changed shows the file's new side: as many lines as
\* the change has, at the numbers they have in the file, in ranges that are its hunks.
FrozenDiffIsExact ==
  (shown.there /\ shown.since = edits) =>
    LET file == shown.files[1]
        ops == Script(IF tracked THEN base ELSE <<>>, worktree)
        numbers == {NewAt(ops, k) : k \in {j \in Displayed(ops) : ops[j].is # "-"}}
    IN worktree # <<>> =>
         /\ Len(shown.files) = 1 /\ file.lines = [n \in numbers |-> worktree[n]]
         /\ UNION {r[1]..r[2] : r \in file.ranges} = numbers

\* An annotation is discarded only if something changed since the earlier of the two loads.
FreshAnnotationIsShown == \A a \in shown.stale : a.since < shown.till \/ shown.since < shown.till
===============================================================================
