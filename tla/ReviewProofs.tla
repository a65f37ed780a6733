---------------------------- MODULE ReviewProofs ----------------------------
(***************************************************************************)
(* The reviews of changes: that pi's loses no note, rationale or commit,   *)
(* for any panes, notes and annotations; and that omp's consumes an        *)
(* annotation only by a saved review, and destroys no note unsaved, for    *)
(* any entries, sessions and branches of the journal; and that a review    *)
(* shows every annotation made since the last change of the files.         *)
(***************************************************************************)
EXTENDS DiffAnchors, DiffReview, DiffJournal, FiniteSetTheorems, SequenceTheorems, TLAPS

-----------------------------------------------------------------------------
\* The review in pi.
USE DiffAssumption

DiffRecord ==
  [pc : DiffPc, last : BOOLEAN, live : SUBSET Pane, base : Base \cup {Missing},
   head : SUBSET (1..MaxCommits), advances : BOOLEAN, pane : Pane \cup {Missing},
   session : Pane \cup {Missing}, attached : BOOLEAN, shown : SUBSET Annotation,
   span : SUBSET (1..MaxCommits), read : SUBSET Note, lateNotes : SUBSET Note,
   lateRationale : SUBSET Annotation]

PaneRecord == [at : {"none", "shell", "typed", "hunk", "gone"}, notes : SUBSET Note]

DiffTyped == DiffTypeOK /\ diff \in DiffRecord

\* Where the command is.
Started == {"ancestor", "drain", "drainRead", "drainClose", "split", "launch", "discover"}
HasPane == {"launch", "discover", "confirm", "read", "close"}
Reviewing == {"confirm", "read", "close"}

\* At most one pane is alive, the owned one; a session is of a pane that runs hunk.
PaneShape ==
  /\ \A p \in Pane : pane[p].at # "hunk" => pane[p].notes = {} /\ p \notin registered
  /\ \A p \in Pane : pane[p].at \notin {"none", "gone"} => p = owned.pane
  /\ owned # NoReview => owned.pane \in Pane
  /\ owned.session \in {Missing, owned.pane}

\* The command works on the owned pane.
CommandShape ==
  /\ diff.pc \in {"resolve", "ancestor", "drain"} => diff.live \subseteq {owned.pane}
  /\ diff.pc \in {"drainRead", "drainClose"} => owned.pane \in Pane /\ owned.session = owned.pane
  /\ diff.pc = "split" => owned = NoReview
  /\ IF diff.pc \in HasPane THEN diff.pane \in Pane /\ owned.pane = diff.pane ELSE diff.pane = Missing
  /\ diff.pc = "launch" => pane[diff.pane].at \in {"shell", "gone"}
  /\ diff.pc \in Reviewing => diff.session = diff.pane /\ pane[diff.pane].at \in {"hunk", "gone"}
  /\ diff.attached => diff.pc \in HasPane \ {"launch"}

\* What the pane holds was read, or written too late for that.
NotesRead ==
  /\ diff.pc = "drainClose" => pane[owned.pane].notes \subseteq diff.read \cup diff.lateNotes
  /\ diff.pc = "close" => pane[diff.pane].notes \subseteq diff.read \cup diff.lateNotes

\* Hunk shows what the command resolved, and the sidecar but what came later.
HunkShows ==
  /\ diff.pc \in Started => diff.head \subseteq work.hist
  /\ diff.pc \in Reviewing \/ (diff.pc = "discover" /\ pane[diff.pane].at = "hunk") =>
       /\ diff.head \subseteq diff.span
       /\ diff.attached => sidecar.notes \subseteq diff.shown \cup diff.lateRationale

ReviewInv == DiffTyped /\ PaneShape /\ CommandShape /\ NotesRead /\ HunkShows /\ ReviewLosesNothing

-----------------------------------------------------------------------------
\* A command that ends leaves no pane of its own.
LEMMA EndIsClean ==
  ASSUME DiffEnds
  PROVE  diff' \in DiffRecord /\ CommandShape' /\ NotesRead' /\ HunkShows'
<1>1. diff' = NoDiff
  BY DEF DiffEnds
<1>2. diff' \in DiffRecord
  BY <1>1 DEF NoDiff, DiffRecord, DiffPc
<1>3. CommandShape' /\ NotesRead' /\ HunkShows'
  BY <1>1 DEF NoDiff, CommandShape, NotesRead, HunkShows, HasPane, Reviewing
<1> QED BY <1>2, <1>3

\* Once the owned pane is closed none is alive.
LEMMA ClosedPane ==
  ASSUME ReviewInv, NEW p \in Pane, p = owned.pane, Closes(p)
  PROVE  /\ pane' \in [Pane -> PaneRecord] /\ registered' \subseteq Pane /\ owned' = NoReview
         /\ \A q \in Pane : pane'[q].at \in {"none", "gone"}
         /\ PaneShape'
<1>1. /\ pane \in [Pane -> PaneRecord] /\ registered \subseteq Pane
      /\ pane' = [pane EXCEPT ![p] = [at |-> "gone", notes |-> {}]]
      /\ registered' = registered \ {p} /\ owned' = NoReview
  BY DEF Closes, ReviewInv, DiffTyped, DiffTypeOK, PaneRecord
<1>2. [at |-> "gone", notes |-> {}] \in PaneRecord
  BY DEF PaneRecord
<1>3. pane' \in [Pane -> PaneRecord] /\ registered' \subseteq Pane
  BY <1>1, <1>2
<1>4. \A q \in Pane : pane'[q].at \in {"none", "gone"}
  BY <1>1 DEF ReviewInv, PaneShape
<1>5. PaneShape'
  BY <1>1 DEF ReviewInv, PaneShape, NoReview
<1> QED BY <1>1, <1>3, <1>4, <1>5

\* The types of what a step leaves alone.
LEMMA NotesTyped ==
  ASSUME ReviewInv
  PROVE  /\ pane \in [Pane -> PaneRecord] /\ diff \in DiffRecord /\ \A p \in Pane : pane[p] \in PaneRecord
         /\ NoReview \in [pane : Pane \cup {Missing}, session : Pane \cup {Missing},
                           before : SUBSET Pane, known : BOOLEAN]
BY DEF ReviewInv, DiffTyped, DiffTypeOK, PaneRecord, NoReview

LEMMA AnnotateKeeps == ASSUME ReviewInv, NEW a \in Annotation, Annotate(a) PROVE ReviewInv'
<1>1. diff' \in DiffRecord
  BY DEF Annotate, ReviewInv, DiffTyped, DiffRecord
<1>2. DiffTyped'
  BY <1>1 DEF Annotate, ReviewInv, DiffTyped, DiffTypeOK, DiffPc, gitVars
<1>3. CommandShape'
  BY DEF Annotate, ReviewInv, CommandShape
<1>4. NotesRead'
  BY DEF Annotate, ReviewInv, NotesRead
<1>5. HunkShows'
  BY DEF Annotate, ReviewInv, HunkShows, gitVars
<1>6. PaneShape' /\ ReviewLosesNothing'
  BY DEF Annotate, ReviewInv, PaneShape, ReviewLosesNothing, gitVars
<1> QED BY <1>2, <1>3, <1>4, <1>5, <1>6 DEF ReviewInv

LEMMA WithdrawKeeps == ASSUME ReviewInv, NEW a \in Annotation, Withdraw(a) PROVE ReviewInv'
<1>1. DiffTyped'
  BY DEF Withdraw, ReviewInv, DiffTyped, DiffTypeOK, gitVars, NoSidecar
<1>2. HunkShows'
  BY DEF Withdraw, ReviewInv, HunkShows, gitVars, NoSidecar
<1>3. PaneShape' /\ CommandShape' /\ NotesRead' /\ ReviewLosesNothing'
  BY DEF Withdraw, ReviewInv, PaneShape, CommandShape, NotesRead, ReviewLosesNothing, gitVars
<1> QED BY <1>1, <1>2, <1>3 DEF ReviewInv

LEMMA CommitKeeps == ASSUME ReviewInv, Commit PROVE ReviewInv'
<1>1. DiffTyped'
  BY DEF Commit, ReviewInv, DiffTyped, DiffTypeOK
<1>2. HunkShows'
  BY DEF Commit, ReviewInv, HunkShows
<1>3. PaneShape' /\ CommandShape' /\ NotesRead' /\ ReviewLosesNothing'
  BY DEF Commit, ReviewInv, PaneShape, CommandShape, NotesRead, ReviewLosesNothing
<1> QED BY <1>1, <1>2, <1>3 DEF ReviewInv

LEMMA RewriteKeeps == ASSUME ReviewInv, Rewrite PROVE ReviewInv'
<1>1. DiffTyped'
  BY DEF Rewrite, ReviewInv, DiffTyped, DiffTypeOK
<1>2. HunkShows'
  BY DEF Rewrite, ReviewInv, HunkShows, Started
<1>3. PaneShape' /\ CommandShape' /\ NotesRead' /\ ReviewLosesNothing'
  BY DEF Rewrite, ReviewInv, PaneShape, CommandShape, NotesRead, ReviewLosesNothing
<1> QED BY <1>1, <1>2, <1>3 DEF ReviewInv

LEMMA HunkStartsKeeps == ASSUME ReviewInv, NEW p \in Pane, HunkStarts(p) PROVE ReviewInv'
<1>1. diff' \in DiffRecord
  BY DEF HunkStarts, ReviewInv, DiffTyped, DiffTypeOK, DiffRecord, DiffPc, gitVars
<1>2. DiffTyped'
  BY <1>1 DEF HunkStarts, ReviewInv, DiffTyped, DiffTypeOK, gitVars
<1>3. PaneShape'
  BY DEF HunkStarts, ReviewInv, PaneShape
<1>4. CommandShape'
  BY DEF HunkStarts, ReviewInv, CommandShape
<1>5. NotesRead'
  BY DEF HunkStarts, ReviewInv, NotesRead
<1>6. HunkShows'
  BY DEF HunkStarts, ReviewInv, HunkShows, Started, CommandShape, gitVars
<1>7. ReviewLosesNothing'
  BY DEF HunkStarts, ReviewInv, ReviewLosesNothing, gitVars
<1> QED BY <1>2, <1>3, <1>4, <1>5, <1>6, <1>7 DEF ReviewInv

LEMMA RegisterKeeps == ASSUME ReviewInv, NEW p \in Pane, Register(p) PROVE ReviewInv'
<1>1. DiffTyped'
  BY DEF Register, ReviewInv, DiffTyped, DiffTypeOK, gitVars
<1>2. PaneShape'
  BY DEF Register, ReviewInv, PaneShape
<1>3. CommandShape' /\ NotesRead' /\ HunkShows' /\ ReviewLosesNothing'
  BY DEF Register, ReviewInv, CommandShape, NotesRead, HunkShows, ReviewLosesNothing, gitVars
<1> QED BY <1>1, <1>2, <1>3 DEF ReviewInv

LEMMA UnregisterKeeps == ASSUME ReviewInv, NEW p \in Pane, Unregister(p) PROVE ReviewInv'
<1>1. DiffTyped'
  BY DEF Unregister, ReviewInv, DiffTyped, DiffTypeOK, gitVars
<1>2. PaneShape'
  BY DEF Unregister, ReviewInv, PaneShape
<1>3. CommandShape' /\ NotesRead' /\ HunkShows' /\ ReviewLosesNothing'
  BY DEF Unregister, ReviewInv, CommandShape, NotesRead, HunkShows, ReviewLosesNothing, gitVars
<1> QED BY <1>1, <1>2, <1>3 DEF ReviewInv

LEMMA WriteNoteKeeps == ASSUME ReviewInv, NEW p \in Pane, NEW n \in Note, WriteNote(p, n) PROVE ReviewInv'
<1>1. diff' \in DiffRecord
  BY DEF WriteNote, ReviewInv, DiffTyped, DiffRecord
<1>2. DiffTyped'
  <2>1. pane' \in [Pane -> PaneRecord]
    <3>1. [pane[p] EXCEPT !.notes = @ \cup {n}] \in PaneRecord
      BY NotesTyped DEF PaneRecord
    <3>2. pane' = [pane EXCEPT ![p] = [pane[p] EXCEPT !.notes = @ \cup {n}]]
      BY NotesTyped DEF WriteNote
    <3> QED BY <3>1, <3>2, NotesTyped
  <2>2. UNCHANGED <<work, commits, seen, sidecar, registered, owned, checkpoint, told, lost, unseen>>
    BY DEF WriteNote, gitVars
  <2> QED BY <1>1, <2>1, <2>2 DEF ReviewInv, DiffTyped, DiffTypeOK, DiffRecord, PaneRecord
<1>3. PaneShape'
  BY DEF WriteNote, ReviewInv, PaneShape
<1>4. CommandShape'
  BY DEF WriteNote, ReviewInv, CommandShape
<1>5. NotesRead'
  BY DEF WriteNote, ReviewInv, NotesRead
<1>6. HunkShows'
  BY DEF WriteNote, ReviewInv, HunkShows, gitVars
<1>7. ReviewLosesNothing'
  BY DEF WriteNote, ReviewInv, ReviewLosesNothing, gitVars
<1> QED BY <1>2, <1>3, <1>4, <1>5, <1>6, <1>7 DEF ReviewInv

LEMMA UserClosesKeeps == ASSUME ReviewInv, NEW p \in Pane, UserCloses(p) PROVE ReviewInv'
<1>1. DiffTyped'
  BY DEF UserCloses, ReviewInv, DiffTyped, DiffTypeOK, gitVars
<1>2. PaneShape'
  BY DEF UserCloses, ReviewInv, PaneShape
<1>3. CommandShape'
  BY DEF UserCloses, ReviewInv, CommandShape
<1>4. NotesRead'
  BY DEF UserCloses, ReviewInv, NotesRead
<1>5. HunkShows'
  BY DEF UserCloses, ReviewInv, HunkShows, gitVars
<1>6. ReviewLosesNothing'
  BY DEF UserCloses, ReviewInv, ReviewLosesNothing, gitVars
<1> QED BY <1>1, <1>2, <1>3, <1>4, <1>5, <1>6 DEF ReviewInv

LEMMA FailsKeeps == ASSUME ReviewInv, Fails PROVE ReviewInv'
<1>1. diff' \in DiffRecord
  BY DEF Fails, DiffRecord, DiffPc, DiffEnds, NoDiff
<1>2. DiffTyped'
  BY <1>1 DEF Fails, ReviewInv, DiffTyped, DiffTypeOK, DiffRecord, gitVars
<1>3. CommandShape'
  BY DEF Fails, CommandShape, HasPane, Reviewing, DiffEnds, NoDiff
<1>4. NotesRead'
  BY DEF Fails, NotesRead, DiffEnds, NoDiff
<1>5. HunkShows'
  BY DEF Fails, HunkShows, DiffEnds, NoDiff
<1>6. PaneShape' /\ ReviewLosesNothing'
  BY DEF Fails, ReviewInv, PaneShape, ReviewLosesNothing, gitVars
<1> QED BY <1>2, <1>3, <1>4, <1>5, <1>6 DEF ReviewInv

LEMMA DiffStartsKeeps == ASSUME ReviewInv, DiffStarts PROVE ReviewInv'
<1>1. diff' \in DiffRecord
  <2>1. PICK last \in BOOLEAN :
          diff' = [diff EXCEPT !.pc = "resolve", !.last = last, !.live = registered]
    BY DEF DiffStarts
  <2>2. registered \subseteq Pane
    BY DEF ReviewInv, DiffTyped, DiffTypeOK
  <2> QED BY <2>1, <2>2, NotesTyped DEF DiffRecord, DiffPc
<1>2. DiffTyped'
  BY <1>1 DEF DiffStarts, ReviewInv, DiffTyped, DiffTypeOK, DiffPc, gitVars
<1>3. CommandShape'
  BY DEF DiffStarts, ReviewInv, DiffTyped, DiffTypeOK, CommandShape, PaneShape, HasPane, Reviewing
<1>4. NotesRead'
  BY DEF DiffStarts, NotesRead
<1>5. HunkShows'
  BY DEF DiffStarts, HunkShows, Started, Reviewing
<1>6. PaneShape' /\ ReviewLosesNothing'
  BY DEF DiffStarts, ReviewInv, PaneShape, ReviewLosesNothing, gitVars
<1> QED BY <1>2, <1>3, <1>4, <1>5, <1>6 DEF ReviewInv

LEMMA ResolveKeeps == ASSUME ReviewInv, Resolve PROVE ReviewInv'
<1>1. diff' \in DiffRecord
  BY DEF Resolve, ReviewInv, DiffTyped, DiffTypeOK, DiffRecord, DiffPc, gitVars, NoCheckpoint
<1>2. DiffTyped'
  BY <1>1 DEF Resolve, ReviewInv, DiffTyped, DiffTypeOK, DiffPc, gitVars, NoCheckpoint
<1>3. CommandShape'
  BY DEF Resolve, ReviewInv, CommandShape, HasPane, Reviewing
<1>4. NotesRead'
  BY DEF Resolve, NotesRead
<1>5. HunkShows'
  BY DEF Resolve, HunkShows, Reviewing, gitVars
<1>6. ReviewLosesNothing'
  BY DEF Resolve, ReviewInv, ReviewLosesNothing, NoCheckpoint, gitVars
<1>7. PaneShape'
  BY DEF Resolve, ReviewInv, PaneShape
<1> QED BY <1>2, <1>3, <1>4, <1>5, <1>6, <1>7 DEF ReviewInv

LEMMA IsAncestorKeeps == ASSUME ReviewInv, IsAncestor PROVE ReviewInv'
<1>1. diff' \in DiffRecord
  BY DEF IsAncestor, ReviewInv, DiffTyped, DiffTypeOK, DiffRecord, DiffPc, gitVars, NoCheckpoint
<1>2. DiffTyped'
  BY <1>1 DEF IsAncestor, ReviewInv, DiffTyped, DiffTypeOK, DiffPc, gitVars, NoCheckpoint
<1>3. CommandShape'
  BY DEF IsAncestor, ReviewInv, CommandShape, HasPane, Reviewing
<1>4. NotesRead'
  BY DEF IsAncestor, NotesRead
<1>5. HunkShows'
  BY DEF IsAncestor, ReviewInv, HunkShows, Started, Reviewing, gitVars
<1>6. ReviewLosesNothing'
  BY DEF IsAncestor, ReviewInv, ReviewLosesNothing, NoCheckpoint, gitVars
<1>7. PaneShape'
  BY DEF IsAncestor, ReviewInv, PaneShape
<1> QED BY <1>2, <1>3, <1>4, <1>5, <1>6, <1>7 DEF ReviewInv

LEMMA DrainKeeps == ASSUME ReviewInv, Drain PROVE ReviewInv'
<1> DEFINE fresh == diff.live \ owned.before
           found == owned.session = Missing /\ owned.known /\ Cardinality(fresh) = 1
           chosen == CHOOSE p \in fresh : TRUE
           sessionId == IF found THEN chosen ELSE owned.session
           new == [owned EXCEPT !.session = sessionId, !.before = {}, !.known = FALSE]
<1>1. /\ diff.pc = "drain" /\ diff.live \subseteq {owned.pane} /\ diff.live \subseteq Pane
      /\ diff.pane = Missing /\ diff.attached = FALSE /\ diff.head \subseteq work.hist
      /\ owned \in [pane : Pane \cup {Missing}, session : Pane \cup {Missing}, before : SUBSET Pane,
                    known : BOOLEAN]
      /\ UNCHANGED <<work, commits, seen, sidecar, pane, registered, checkpoint, told, lost, unseen>>
  BY DEF Drain, gitVars, ReviewInv, DiffTyped, DiffTypeOK, DiffRecord, CommandShape, HasPane,
     HunkShows, Started
<1>2. found => chosen \in fresh
  <2>1. Cardinality({}) = 0
    BY FS_EmptySet
  <2>2. found => fresh # {}
    BY <2>1
  <2> QED BY <2>2
<1>3. found => sessionId \in Pane /\ sessionId = owned.pane
  BY <1>1, <1>2
<1>4. \/ owned = NoReview /\ Goto("split") /\ UNCHANGED owned
      \/ owned # NoReview /\ pane[owned.pane].at = "gone" /\ owned' = NoReview /\ Goto("split")
      \/ /\ owned # NoReview /\ owned' = IF found THEN new ELSE owned
         /\ IF sessionId \in diff.live THEN Goto("drainRead") ELSE DiffEnds
  BY DEF Drain
<1> HIDE DEF fresh, found, sessionId
<1>5. ReviewLosesNothing'
  BY <1>1 DEF ReviewInv, ReviewLosesNothing
<1>6. ASSUME NEW pc \in {"split", "drainRead"}, Goto(pc)
      PROVE  /\ diff' \in DiffRecord /\ diff'.pc = pc /\ diff'.pane = Missing
             /\ diff'.attached = FALSE /\ diff'.head = diff.head
  BY <1>1, <1>6, NotesTyped DEF Goto, DiffRecord, DiffPc
<1>7. CASE owned' = NoReview /\ Goto("split") /\ (owned = NoReview \/ pane[owned.pane].at = "gone")
  <2>1. diff' \in DiffRecord /\ diff'.pc = "split" /\ diff'.pane = Missing /\ diff'.attached = FALSE
        /\ diff'.head = diff.head
    BY <1>6, <1>7
  <2>2. DiffTyped'
    BY <1>1, <1>7, <2>1, NotesTyped DEF ReviewInv, DiffTyped, DiffTypeOK, DiffRecord
  <2>3. \A p \in Pane : pane[p].at \in {"none", "gone"}
    BY <1>1, <1>7 DEF ReviewInv, PaneShape, NoReview
  <2>4. PaneShape'
    BY <1>1, <1>7 DEF ReviewInv, PaneShape, NoReview
  <2>5. CommandShape' /\ NotesRead' /\ HunkShows'
    BY <1>1, <1>7, <2>1 DEF CommandShape, NotesRead, HunkShows, HasPane, Reviewing
  <2> QED BY <1>5, <2>2, <2>4, <2>5 DEF ReviewInv
<1>8. CASE /\ owned # NoReview /\ owned' = IF found THEN new ELSE owned
           /\ IF sessionId \in diff.live THEN Goto("drainRead") ELSE DiffEnds
  <2>1. /\ owned' \in [pane : Pane \cup {Missing}, session : Pane \cup {Missing}, before : SUBSET Pane,
                        known : BOOLEAN]
        /\ owned'.pane = owned.pane /\ owned'.session = sessionId
    <3>1. CASE found
      BY <1>1, <1>3, <1>8, <3>1
    <3>2. CASE ~found
      BY <1>1, <1>8, <3>2 DEF sessionId
    <3> QED BY <3>1, <3>2
  <2>2. sessionId \in {Missing, owned.pane} /\ owned.pane \in Pane
    BY <1>3, <1>8 DEF ReviewInv, PaneShape, sessionId
  <2>3. PaneShape'
    BY <1>1, <2>1, <2>2 DEF ReviewInv, PaneShape
  <2>4. CASE sessionId \in diff.live
    <3>1. Goto("drainRead")
      BY <1>8, <2>4
    <3>2. diff' \in DiffRecord /\ diff'.pc = "drainRead" /\ diff'.pane = Missing
          /\ diff'.attached = FALSE /\ diff'.head = diff.head
      BY <1>6, <3>1
    <3>3. DiffTyped'
      BY <1>1, <2>1, <3>2 DEF ReviewInv, DiffTyped, DiffTypeOK, DiffRecord
    <3>4. sessionId = owned.pane
      BY <1>1, <2>4
    <3>5. CommandShape' /\ NotesRead' /\ HunkShows'
      BY <1>1, <2>1, <2>2, <3>2, <3>4 DEF CommandShape, NotesRead, HunkShows, HasPane, Reviewing
    <3> QED BY <1>5, <2>3, <3>3, <3>5 DEF ReviewInv
  <2>5. CASE sessionId \notin diff.live
    <3>1. DiffEnds
      BY <1>8, <2>5
    <3>2. diff' \in DiffRecord /\ CommandShape' /\ NotesRead' /\ HunkShows'
      BY <3>1, EndIsClean
    <3>3. DiffTyped'
      BY <1>1, <2>1, <3>2 DEF ReviewInv, DiffTyped, DiffTypeOK, DiffRecord
    <3> QED BY <1>5, <2>3, <3>2, <3>3 DEF ReviewInv
  <2> QED BY <2>4, <2>5
<1> QED BY <1>4, <1>7, <1>8

LEMMA DrainReadKeeps == ASSUME ReviewInv, DrainRead PROVE ReviewInv'
<1>1. diff' \in DiffRecord
  BY DEF DrainRead, ReviewInv, DiffTyped, DiffTypeOK, DiffRecord, DiffPc, gitVars, Listed
<1>2. DiffTyped'
  BY <1>1 DEF DrainRead, ReviewInv, DiffTyped, DiffTypeOK, DiffPc, gitVars, Listed
<1>3. CommandShape'
  BY DEF DrainRead, ReviewInv, CommandShape, HasPane, Reviewing
<1>4. NotesRead'
  BY DEF DrainRead, ReviewInv, NotesRead, CommandShape
<1>5. HunkShows'
  BY DEF DrainRead, ReviewInv, HunkShows, Started, Reviewing, gitVars
<1>6. PaneShape' /\ ReviewLosesNothing'
  BY DEF DrainRead, ReviewInv, PaneShape, ReviewLosesNothing, gitVars
<1> QED BY <1>2, <1>3, <1>4, <1>5, <1>6 DEF ReviewInv

LEMMA DrainCloseKeeps == ASSUME ReviewInv, DrainClose PROVE ReviewInv'
<1>1. /\ diff.pc = "drainClose" /\ told' = told \cup diff.read
      /\ owned.pane \in Pane /\ pane[owned.pane].notes \subseteq diff.read \cup diff.lateNotes
      /\ UNCHANGED <<work, commits, seen, sidecar, checkpoint, unseen>>
  BY DEF DrainClose, gitVars, ReviewInv, CommandShape, NotesRead
<1>2. told' \subseteq Note
  BY <1>1 DEF ReviewInv, DiffTyped, DiffTypeOK
<1>3. CASE Closes(owned.pane)
  <2>1. /\ pane' \in [Pane -> PaneRecord] /\ registered' \subseteq Pane /\ owned' = NoReview
        /\ PaneShape'
    BY <1>1, <1>3, ClosedPane
  <2>2. lost' = {}
    BY <1>1, <1>3 DEF Closes, ReviewInv, ReviewLosesNothing
  <2>3. ReviewLosesNothing'
    BY <1>1, <2>2 DEF ReviewInv, ReviewLosesNothing
  <2>4. diff' \in DiffRecord /\ CommandShape' /\ NotesRead' /\ HunkShows'
    <3>1. CASE DiffEnds
      BY <3>1, EndIsClean
    <3>2. CASE ~DiffEnds
      <4>1. diff' = [diff EXCEPT !.pc = "split", !.lateNotes = {}]
        BY <1>1, <3>2 DEF DrainClose
      <4>2. diff \in DiffRecord /\ diff.pane = Missing /\ diff.attached = FALSE
            /\ diff.head \subseteq work.hist
        BY <1>1 DEF ReviewInv, DiffTyped, CommandShape, HasPane, HunkShows, Started
      <4>3. diff' \in DiffRecord
        BY <4>1, <4>2 DEF DiffRecord, DiffPc
      <4>4. diff'.pc = "split" /\ diff'.pane = Missing /\ diff'.attached = FALSE
            /\ diff'.head = diff.head
        BY <4>1, <4>2
      <4>5. CommandShape' /\ NotesRead' /\ HunkShows'
        BY <1>1, <2>1, <4>2, <4>4 DEF CommandShape, NotesRead, HunkShows, HasPane, Reviewing
      <4> QED BY <4>3, <4>5
    <3> QED BY <3>1, <3>2
  <2>5. DiffTyped'
    BY <1>1, <2>1, <2>2, <2>4, NotesTyped DEF ReviewInv, DiffTyped, DiffTypeOK, DiffRecord,
       PaneRecord
  <2> QED BY <2>1, <2>3, <2>4, <2>5 DEF ReviewInv
<1>4. CASE NotClosed
  <2>1. UNCHANGED <<pane, registered, lost, owned>>
    BY <1>4 DEF NotClosed
  <2>2. CASE DiffEnds
    <3>1. diff' \in DiffRecord /\ CommandShape' /\ NotesRead' /\ HunkShows'
      BY <2>2, EndIsClean
    <3>2. DiffTyped'
      BY <1>1, <2>1, <3>1 DEF ReviewInv, DiffTyped, DiffTypeOK, DiffRecord
    <3>3. PaneShape' /\ ReviewLosesNothing'
      BY <1>1, <2>1 DEF ReviewInv, PaneShape, ReviewLosesNothing
    <3> QED BY <3>1, <3>2, <3>3 DEF ReviewInv
  <2>3. CASE Closes(owned.pane)
    BY <1>3, <2>3
  <2> QED BY <1>4, <2>2, <2>3 DEF DrainClose
<1> QED BY <1>3, <1>4 DEF DrainClose

LEMMA SplitKeeps == ASSUME ReviewInv, NEW p \in Pane, Split(p) PROVE ReviewInv'
<1>1. diff' \in DiffRecord
  BY DEF Split, ReviewInv, DiffTyped, DiffTypeOK, DiffRecord, DiffPc, gitVars, NoReview
<1>2. DiffTyped'
  BY <1>1 DEF Split, ReviewInv, DiffTyped, DiffTypeOK, DiffPc, DiffRecord, gitVars
<1>3. PaneShape'
  <2>1. p \in Pane /\ owned = NoReview /\ owned'.pane = p /\ owned'.session = Missing
        /\ owned' # NoReview /\ registered' = registered
    BY DEF Split, ReviewInv, CommandShape, NoReview
  <2>2. pane'[p].at = "shell" /\ pane'[p].notes = pane[p].notes /\ \A q \in Pane \ {p} : pane'[q] = pane[q]
    BY NotesTyped DEF Split
  <2>3. pane[p].at = "none"
    BY DEF Split
  <2>4. \A q \in Pane : pane[q].at \in {"none", "gone"}
    BY <2>1 DEF ReviewInv, PaneShape, NoReview
  <2> QED BY <2>1, <2>2, <2>4 DEF ReviewInv, PaneShape
<1>4. CommandShape'
  BY DEF Split, ReviewInv, DiffTyped, DiffTypeOK, CommandShape, HasPane, Reviewing
<1>5. NotesRead'
  BY DEF Split, NotesRead
<1>6. HunkShows'
  BY DEF Split, ReviewInv, HunkShows, Started, Reviewing, gitVars
<1>7. ReviewLosesNothing'
  BY DEF Split, ReviewInv, ReviewLosesNothing, gitVars
<1> QED BY <1>2, <1>3, <1>4, <1>5, <1>6, <1>7 DEF ReviewInv

LEMMA LaunchKeeps == ASSUME ReviewInv, Launch PROVE ReviewInv'
<1>1. /\ diff.pc = "launch" /\ diff.pane \in Pane /\ owned.pane = diff.pane
      /\ pane[diff.pane].at \in {"shell", "gone"} /\ pane[diff.pane].notes = {}
      /\ UNCHANGED <<work, commits, seen, sidecar, checkpoint, told, unseen>>
  BY DEF Launch, gitVars, ReviewInv, CommandShape, HasPane, PaneShape
<1>2. CASE DiffEnds
  <2>1. diff' \in DiffRecord /\ CommandShape' /\ NotesRead' /\ HunkShows'
    BY <1>2, EndIsClean
  <2>2. diff.pc # diff'.pc
    BY <1>1, <1>2 DEF DiffEnds, NoDiff
  <2>3. CASE Closes(diff.pane)
    <3>1. /\ pane' \in [Pane -> PaneRecord] /\ registered' \subseteq Pane /\ owned' = NoReview
          /\ PaneShape'
      BY <1>1, <2>3, ClosedPane
    <3>2. lost' = {}
      BY <1>1, <2>3 DEF Closes, ReviewInv, ReviewLosesNothing
    <3>3. ReviewLosesNothing'
      BY <1>1, <3>2 DEF ReviewInv, ReviewLosesNothing
    <3>4. DiffTyped'
      BY <1>1, <2>1, <3>1, <3>2, NotesTyped DEF ReviewInv, DiffTyped, DiffTypeOK, DiffRecord,
         PaneRecord
    <3> QED BY <2>1, <3>1, <3>3, <3>4 DEF ReviewInv
  <2>4. CASE NotClosed
    <3>1. UNCHANGED <<pane, registered, lost, owned>>
      BY <2>4 DEF NotClosed
    <3>2. DiffTyped'
      BY <1>1, <2>1, <3>1 DEF ReviewInv, DiffTyped, DiffTypeOK, DiffRecord
    <3>3. PaneShape' /\ ReviewLosesNothing'
      BY <1>1, <3>1 DEF ReviewInv, PaneShape, ReviewLosesNothing
    <3> QED BY <2>1, <3>2, <3>3 DEF ReviewInv
  <2>5. Closes(diff.pane) \/ NotClosed
    <3>1. diff' # [diff EXCEPT !.pc = "discover", !.attached = sidecar.base = diff.base]
      BY <1>2, NotesTyped DEF DiffEnds, NoDiff, DiffRecord
    <3> QED BY <3>1 DEF Launch
  <2> QED BY <2>3, <2>4, <2>5
<1>3. CASE ~DiffEnds
  <2>1. /\ pane[diff.pane].at = "shell" /\ pane' = [pane EXCEPT ![diff.pane].at = "typed"]
        /\ diff' = [diff EXCEPT !.pc = "discover", !.attached = sidecar.base = diff.base]
        /\ UNCHANGED <<registered, lost, owned>>
    BY <1>3 DEF Launch
  <2>2. diff' \in DiffRecord /\ diff'.pc = "discover" /\ diff'.pane = diff.pane
        /\ diff'.head = diff.head
    BY <2>1, NotesTyped DEF DiffRecord, DiffPc
  <2>3. pane' \in [Pane -> PaneRecord] /\ pane'[diff.pane].at = "typed" /\ pane'[diff.pane].notes = {}
        /\ \A q \in Pane \ {diff.pane} : pane'[q] = pane[q]
    BY <1>1, <2>1, NotesTyped DEF PaneRecord
  <2>4. DiffTyped'
    BY <1>1, <2>1, <2>2, <2>3 DEF ReviewInv, DiffTyped, DiffTypeOK, DiffRecord, PaneRecord
  <2>5. PaneShape'
    BY <1>1, <2>1 DEF ReviewInv, PaneShape
  <2>6. CommandShape'
    BY <1>1, <2>1 DEF CommandShape, HasPane, Reviewing
  <2>7. NotesRead' /\ HunkShows' /\ ReviewLosesNothing'
    BY <1>1, <2>1 DEF ReviewInv, NotesRead, HunkShows, Started, Reviewing, ReviewLosesNothing
  <2> QED BY <2>4, <2>5, <2>6, <2>7 DEF ReviewInv
<1> QED BY <1>2, <1>3

LEMMA DiscoverKeeps == ASSUME ReviewInv, Discover PROVE ReviewInv'
<1>1. /\ diff.pc = "discover" /\ diff.pane \in Pane /\ owned.pane = diff.pane
      /\ UNCHANGED <<work, commits, seen, sidecar, pane, registered, checkpoint, told, lost, unseen>>
  BY DEF Discover, gitVars, ReviewInv, CommandShape, HasPane
<1>2. ReviewLosesNothing'
  BY <1>1 DEF ReviewInv, ReviewLosesNothing
<1>3. CASE DiffEnds /\ UNCHANGED owned
  <2>1. diff' \in DiffRecord /\ CommandShape' /\ NotesRead' /\ HunkShows'
    BY <1>3, EndIsClean
  <2>2. DiffTyped'
    BY <1>1, <1>3, <2>1 DEF ReviewInv, DiffTyped, DiffTypeOK, DiffRecord
  <2>3. PaneShape'
    BY <1>1, <1>3 DEF ReviewInv, PaneShape
  <2> QED BY <1>2, <2>1, <2>2, <2>3 DEF ReviewInv
<1>4. CASE ~(DiffEnds /\ UNCHANGED owned)
  <2>1. PICK p \in registered \ diff.live :
          /\ diff' = [diff EXCEPT !.pc = "confirm", !.session = p]
          /\ owned' = [owned EXCEPT !.session = p, !.before = {}, !.known = FALSE]
    BY <1>4 DEF Discover
  <2>2. p \in Pane /\ pane[p].at = "hunk" /\ p = diff.pane
    BY <1>1 DEF ReviewInv, DiffTyped, DiffTypeOK, PaneShape
  <2>3. /\ owned' \in [pane : Pane \cup {Missing}, session : Pane \cup {Missing}, before : SUBSET Pane,
                        known : BOOLEAN]
        /\ owned'.pane = p /\ owned'.session = p
    BY <1>1, <2>1, <2>2 DEF ReviewInv, DiffTyped, DiffTypeOK
  <2>4. /\ diff' \in DiffRecord /\ diff'.pc = "confirm" /\ diff'.session = p /\ diff'.pane = diff.pane
        /\ diff'.head = diff.head /\ diff'.span = diff.span /\ diff'.attached = diff.attached
        /\ diff'.shown = diff.shown /\ diff'.lateRationale = diff.lateRationale
    BY <2>1, <2>2, NotesTyped DEF DiffRecord, DiffPc
  <2>5. DiffTyped'
    BY <1>1, <2>3, <2>4 DEF ReviewInv, DiffTyped, DiffTypeOK, DiffRecord
  <2>6. PaneShape'
    BY <1>1, <2>2, <2>3 DEF ReviewInv, PaneShape
  <2>7. CommandShape' /\ NotesRead'
    BY <1>1, <2>2, <2>3, <2>4 DEF CommandShape, HasPane, NotesRead
  <2>8. HunkShows'
    BY <1>1, <2>2, <2>4 DEF ReviewInv, HunkShows, Started
  <2> QED BY <1>2, <2>5, <2>6, <2>7, <2>8 DEF ReviewInv
<1> QED BY <1>3, <1>4

LEMMA ConfirmKeeps == ASSUME ReviewInv, Confirm PROVE ReviewInv'
<1>1. diff' \in DiffRecord
  BY DEF Confirm, ReviewInv, DiffTyped, DiffRecord, DiffPc, Goto
<1>2. DiffTyped'
  BY <1>1 DEF Confirm, ReviewInv, DiffTyped, DiffTypeOK, DiffRecord, gitVars
<1>3. CommandShape'
  BY DEF Confirm, ReviewInv, CommandShape, HasPane, Reviewing, Goto
<1>4. NotesRead'
  BY DEF Confirm, NotesRead, Goto
<1>5. HunkShows'
  BY DEF Confirm, ReviewInv, HunkShows, Started, Reviewing, Goto
<1>6. PaneShape' /\ ReviewLosesNothing'
  BY DEF Confirm, ReviewInv, PaneShape, ReviewLosesNothing, gitVars
<1> QED BY <1>2, <1>3, <1>4, <1>5, <1>6 DEF ReviewInv

LEMMA ReadNotesKeeps == ASSUME ReviewInv, ReadNotes PROVE ReviewInv'
<1>1. diff' \in DiffRecord
  BY DEF ReadNotes, ReviewInv, DiffTyped, DiffTypeOK, DiffRecord, DiffPc, gitVars, Listed
<1>2. DiffTyped'
  BY <1>1 DEF ReadNotes, ReviewInv, DiffTyped, DiffTypeOK, DiffPc, gitVars, Listed
<1>3. CommandShape'
  BY DEF ReadNotes, ReviewInv, CommandShape, HasPane, Reviewing
<1>4. NotesRead'
  BY DEF ReadNotes, ReviewInv, NotesRead, CommandShape, Reviewing
<1>5. HunkShows'
  BY DEF ReadNotes, ReviewInv, HunkShows, Started, Reviewing
<1>6. PaneShape' /\ ReviewLosesNothing'
  BY DEF ReadNotes, ReviewInv, PaneShape, ReviewLosesNothing, gitVars
<1> QED BY <1>2, <1>3, <1>4, <1>5, <1>6 DEF ReviewInv

LEMMA CloseReviewKeeps == ASSUME ReviewInv, CloseReview PROVE ReviewInv'
<1>1. /\ diff.pc = "close" /\ diff.pane \in Pane /\ owned.pane = diff.pane
      /\ pane[diff.pane].notes \subseteq diff.read \cup diff.lateNotes
      /\ diff.head \subseteq diff.span
      /\ diff.attached => sidecar.notes \subseteq diff.shown \cup diff.lateRationale
      /\ told' = told \cup diff.read /\ DiffEnds /\ UNCHANGED <<work, commits>>
  BY DEF CloseReview, ReviewInv, CommandShape, HasPane, NotesRead, HunkShows, Reviewing
<1>2. diff' \in DiffRecord /\ CommandShape' /\ NotesRead' /\ HunkShows'
  BY <1>1, EndIsClean
<1>3. /\ pane' \in [Pane -> PaneRecord] /\ registered' \subseteq Pane /\ PaneShape' /\ lost' = {}
      /\ owned' \in [pane : Pane \cup {Missing}, session : Pane \cup {Missing}, before : SUBSET Pane,
                    known : BOOLEAN]
  <2>1. CASE Closes(diff.pane)
    <3>1. /\ pane' \in [Pane -> PaneRecord] /\ registered' \subseteq Pane /\ PaneShape'
          /\ owned' = NoReview
      BY <1>1, <2>1, ClosedPane
    <3>2. lost' = {}
      BY <1>1, <2>1 DEF Closes, ReviewInv, ReviewLosesNothing
    <3> QED BY <3>1, <3>2, NotesTyped
  <2>2. CASE NotClosed
    BY <2>2, NotesTyped DEF NotClosed, ReviewInv, DiffTyped, DiffTypeOK, PaneShape,
       ReviewLosesNothing
  <2> QED BY <2>1, <2>2 DEF CloseReview
<1>4. /\ sidecar' \in [base : Base \cup {Missing}, notes : SUBSET Annotation] /\ unseen' = {}
  <2>1. sidecar \in [base : Base \cup {Missing}, notes : SUBSET Annotation] /\ unseen = {}
        /\ NoSidecar \in [base : Base \cup {Missing}, notes : SUBSET Annotation]
    BY DEF ReviewInv, DiffTyped, DiffTypeOK, ReviewLosesNothing, NoSidecar
  <2>2. CASE diff.attached
    BY <1>1, <2>1 DEF CloseReview
  <2>3. CASE ~diff.attached
    BY <2>1, <2>3 DEF CloseReview
  <2> QED BY <2>2, <2>3
<1>5. /\ checkpoint' \in [base : Base \cup {Missing}, last : SUBSET (1..MaxCommits)]
      /\ seen' \subseteq 1..MaxCommits /\ checkpoint'.last \subseteq seen'
  <2>1. /\ checkpoint \in [base : Base \cup {Missing}, last : SUBSET (1..MaxCommits)]
        /\ seen \subseteq 1..MaxCommits /\ checkpoint.last \subseteq seen
        /\ diff.base \in Base \cup {Missing} /\ diff.head \subseteq 1..MaxCommits
        /\ diff.span \subseteq 1..MaxCommits
    BY DEF ReviewInv, DiffTyped, DiffTypeOK, DiffRecord, ReviewLosesNothing
  <2>2. CASE diff.advances
    <3>1. checkpoint' = [base |-> diff.base, last |-> diff.head] /\ seen' = seen \cup diff.span
      BY <2>2 DEF CloseReview
    <3> QED BY <1>1, <2>1, <3>1
  <2>3. CASE ~diff.advances
    BY <2>1, <2>3 DEF CloseReview
  <2> QED BY <2>2, <2>3
<1>6. told' \subseteq Note
  BY <1>1 DEF ReviewInv, DiffTyped, DiffTypeOK
<1>7. DiffTyped'
  BY <1>1, <1>2, <1>3, <1>4, <1>5 DEF ReviewInv, DiffTyped, DiffTypeOK, DiffRecord, PaneRecord
<1> QED BY <1>2, <1>3, <1>4, <1>5, <1>7 DEF ReviewInv, ReviewLosesNothing

-----------------------------------------------------------------------------
LEMMA InitReviewInv == DiffInit => ReviewInv
<1> SUFFICES ASSUME DiffInit PROVE ReviewInv
  OBVIOUS
<1>1. DiffTyped
  BY DEF DiffInit, DiffTyped, DiffTypeOK, DiffRecord, DiffPc, NoSidecar, NoReview, NoCheckpoint,
     NoDiff
<1>2. PaneShape /\ CommandShape /\ NotesRead /\ HunkShows
  BY DEF DiffInit, PaneShape, CommandShape, NotesRead, HunkShows, NoReview, NoDiff, HasPane,
     Reviewing
<1>3. ReviewLosesNothing
  BY DEF DiffInit, ReviewLosesNothing, NoCheckpoint
<1> QED BY <1>1, <1>2, <1>3 DEF ReviewInv

LEMMA ReviewInvInductive == ReviewInv /\ [DiffNext]_diffVars => ReviewInv'
<1> SUFFICES ASSUME ReviewInv, [DiffNext]_diffVars PROVE ReviewInv'
  OBVIOUS
<1>1. CASE UNCHANGED diffVars
  BY <1>1 DEF diffVars, ReviewInv, DiffTyped, DiffTypeOK, PaneShape, CommandShape, NotesRead,
     HunkShows, ReviewLosesNothing
<1>2. ASSUME NEW a \in Annotation, Annotate(a) \/ Withdraw(a) PROVE ReviewInv'
  BY <1>2, AnnotateKeeps, WithdrawKeeps
<1>3. CASE Commit \/ Rewrite
  BY <1>3, CommitKeeps, RewriteKeeps
<1>4. ASSUME NEW p \in Pane,
             \/ HunkStarts(p) \/ Register(p) \/ Unregister(p) \/ UserCloses(p) \/ Split(p)
             \/ \E n \in Note : WriteNote(p, n)
      PROVE  ReviewInv'
  BY <1>4, HunkStartsKeeps, RegisterKeeps, UnregisterKeeps, UserClosesKeeps, SplitKeeps,
     WriteNoteKeeps
<1>5. CASE \/ Fails \/ DiffStarts \/ Resolve \/ IsAncestor \/ Drain \/ DrainRead \/ DrainClose
           \/ Launch \/ Discover \/ Confirm \/ ReadNotes \/ CloseReview
  BY <1>5, FailsKeeps, DiffStartsKeeps, ResolveKeeps, IsAncestorKeeps, DrainKeeps, DrainReadKeeps,
     DrainCloseKeeps, LaunchKeeps, DiscoverKeeps, ConfirmKeeps, ReadNotesKeeps, CloseReviewKeeps
<1> QED BY <1>1, <1>2, <1>3, <1>4, <1>5 DEF DiffNext

LEMMA ReviewInvAlways == DiffSpec => []ReviewInv
BY InitReviewInv, ReviewInvInductive, PTL DEF DiffSpec

\* The worktree, its sidecar, the panes and the command are well typed.
THEOREM DiffTypeCorrect == DiffSpec => []DiffTypeOK
<1>1. ReviewInv => DiffTypeOK
  BY DEF ReviewInv, DiffTyped
<1> QED BY <1>1, ReviewInvAlways, PTL

\* No note, no rationale and no commit is lost to a review of any number of panes.
THEOREM ReviewLosesNothingEver == DiffSpec => []ReviewLosesNothing
<1>1. ReviewInv => ReviewLosesNothing
  BY DEF ReviewInv
<1> QED BY <1>1, ReviewInvAlways, PTL

HIDE DiffAssumption

-----------------------------------------------------------------------------
\* The journal of reviews in omp.
USE JournalAssumption

EntryRecord ==
  [kind : EntryKind, remark : Remark \cup {""}, through : Nat, above : SUBSET Nat]
ReviewRecord ==
  [pc : {"idle", "prepare", "launch", "run", "discover", "confirm", "read", "persist", "close", "complete"},
   session : Nat, cutoff : Nat, shows : SUBSET Nat, read : SUBSET UserNote, late : SUBSET UserNote]

\* The branch that ends with x, and what the journal's fold finds on it.
Trunk(x) == IF x = 0 THEN {} ELSE journal[x].above
On(x, kind) == {i \in Trunk(x) : journal[i].kind = kind}
BoundariesOn(x) ==
  On(x, "reset") \cup {journal[i].through : i \in {j \in On(x, "completed") : journal[j].through \in Trunk(x)}}
WithdrawnOn(x, i) == \E j \in On(x, "withdrawn") : j > i /\ journal[j].remark = journal[i].remark
ActiveOn(x) == {i \in On(x, "recorded") : (\A b \in BoundariesOn(x) : b < i) /\ ~WithdrawnOn(x, i)}

\* No annotation on the branch is lost.
Settled(x) ==
  \A i \in On(x, "recorded") :
    (\A j \in On(x, "reset") : j < i) => i \in ActiveOn(x) \cup judged \/ WithdrawnOn(x, i)

JournalTyped ==
  /\ session \in 1..MaxSessions /\ leaf \in 0..Len(journal) /\ Len(journal) <= MaxEntries
  /\ journal \in Seq(EntryRecord)
  /\ hunk \in [open : BOOLEAN, notes : SUBSET UserNote] /\ review \in ReviewRecord
  /\ judged \subseteq Nat /\ saved \subseteq UserNote

\* The entries form a tree: an entry's branch ends with it and is the whole branch of every entry on
\* it; a completed review consumes entries older than its own.
JournalIsTree ==
  \A i \in 1..Len(journal) :
    /\ journal[i].above \subseteq 1..i /\ i \in journal[i].above /\ journal[i].through < i
    /\ \A j \in journal[i].above : journal[j].above = {k \in journal[i].above : k <= j}

\* The review shows what was active on the branch it captured, and a saved one has judged that;
\* of another session it owns nothing.
ReviewKnows ==
  LET r == review IN
  /\ r.session \in 0..session
  /\ r.pc \notin {"idle", "prepare"} /\ r.session = session =>
       r.cutoff \in 0..Len(journal) /\ r.shows = ActiveOn(r.cutoff)
  /\ r.pc \in {"close", "complete"} /\ r.session = session => r.shows \subseteq judged
  /\ r.cutoff \in 0..MaxEntries /\ r.shows \subseteq 1..MaxEntries

\* Hunk's notes are read, or were written too late to be.
NotesAreRead ==
  /\ review.pc = "persist" => hunk.notes \subseteq review.read \cup review.late
  /\ review.pc = "close" => hunk.notes \subseteq saved \cup review.late

JournalInv ==
  /\ JournalTyped /\ JournalIsTree /\ (\A x \in 0..Len(journal) : Settled(x))
  /\ ReviewKnows /\ NotesAreRead /\ vanished = {}

-----------------------------------------------------------------------------
\* The fold is that of the branch the session is on.
LEMMA FoldOfBranch ==
  /\ Path = Trunk(leaf) /\ Boundaries = BoundariesOn(leaf) /\ Active = ActiveOn(leaf)
  /\ \A kind : Entries(kind) = On(leaf, kind)
  /\ \A i : WithdrawnLater(i) = WithdrawnOn(leaf, i)
<1>1. Path = Trunk(leaf)
  BY DEF Path, Trunk
<1>2. \A kind : Entries(kind) = On(leaf, kind)
  BY <1>1 DEF Entries, On
<1>3. Boundaries = BoundariesOn(leaf)
  BY <1>1, <1>2 DEF Boundaries, BoundariesOn
<1>4. \A i : WithdrawnLater(i) = WithdrawnOn(leaf, i)
  BY <1>2 DEF WithdrawnLater, WithdrawnOn
<1>5. Active = ActiveOn(leaf)
  BY <1>2, <1>3, <1>4 DEF Active, ActiveOn
<1> QED BY <1>1, <1>2, <1>3, <1>4, <1>5

LEMMA JournalTypes ==
  ASSUME JournalInv
  PROVE  /\ Len(journal) \in Nat /\ leaf \in 0..Len(journal) /\ session \in Nat
         /\ \A i \in 1..Len(journal) : journal[i] \in EntryRecord /\ journal[i].through \in Nat
<1>1. journal \in Seq(EntryRecord) /\ leaf \in 0..Len(journal) /\ session \in 1..MaxSessions
  BY DEF JournalInv, JournalTyped
<1>2. ASSUME NEW i \in 1..Len(journal)
      PROVE  journal[i] \in EntryRecord /\ journal[i].through \in Nat
  <2>1. journal[i] \in EntryRecord
    BY <1>1
  <2> QED BY <2>1 DEF EntryRecord
<1> QED BY <1>1, <1>2

\* A branch is older than its leaf, and the whole branch of every entry on it.
LEMMA TrunkIsBranch ==
  ASSUME JournalInv, NEW x \in 0..Len(journal)
  PROVE  /\ Trunk(x) \subseteq 1..x /\ Trunk(x) \subseteq 1..Len(journal)
         /\ x # 0 => x \in Trunk(x)
         /\ \A j \in Trunk(x) : Trunk(j) = {k \in Trunk(x) : k <= j} /\ journal[j].through < j
<1>1. JournalIsTree /\ Len(journal) \in Nat
  BY DEF JournalInv
<1>2. CASE x = 0
  BY <1>2 DEF Trunk
<1>3. CASE x # 0
  <2>1. x \in 1..Len(journal) /\ Trunk(x) = journal[x].above
    BY <1>3 DEF Trunk
  <2>2. Trunk(x) \subseteq 1..x /\ x \in Trunk(x)
    BY <1>1, <2>1 DEF JournalIsTree
  <2>3. ASSUME NEW j \in Trunk(x)
        PROVE  Trunk(j) = {k \in Trunk(x) : k <= j} /\ journal[j].through < j
    <3>1. j \in 1..Len(journal) /\ j # 0
      BY <2>2
    <3>2. Trunk(j) = journal[j].above
      BY <3>1 DEF Trunk
    <3> QED BY <1>1, <2>1, <3>2 DEF JournalIsTree
  <2> QED BY <2>2, <2>3
<1> QED BY <1>2, <1>3

-----------------------------------------------------------------------------
\* What is appended changes no branch that was there.
LEMMA OldBranchesStay ==
  ASSUME JournalInv, NEW x \in 0..Len(journal),
         \A i \in 1..Len(journal) : journal'[i] = journal[i]
  PROVE  /\ Trunk(x)' = Trunk(x) /\ ActiveOn(x)' = ActiveOn(x)
         /\ judged \subseteq judged' => Settled(x)'
<1>1. Trunk(x) \subseteq 1..Len(journal)
  BY TrunkIsBranch
<1>2. Trunk(x)' = Trunk(x)
  BY DEF Trunk
<1>3. \A kind : On(x, kind)' = On(x, kind)
  BY <1>1, <1>2 DEF On
<1>4. BoundariesOn(x)' = BoundariesOn(x)
  <2>1. On(x, "reset")' = On(x, "reset") /\ On(x, "completed")' = On(x, "completed")
    BY <1>3
  <2>2. On(x, "completed") \subseteq 1..Len(journal)
    BY <1>1 DEF On
  <2> QED BY <1>2, <2>1, <2>2 DEF BoundariesOn
<1>5. \A i \in On(x, "recorded") : WithdrawnOn(x, i)' <=> WithdrawnOn(x, i)
  <2>1. On(x, "withdrawn")' = On(x, "withdrawn")
    BY <1>3
  <2>2. On(x, "recorded") \subseteq 1..Len(journal) /\ On(x, "withdrawn") \subseteq 1..Len(journal)
    BY <1>1 DEF On
  <2> QED BY <2>1, <2>2 DEF WithdrawnOn
<1>6. ActiveOn(x)' = ActiveOn(x)
  <2>1. On(x, "recorded")' = On(x, "recorded")
    BY <1>3
  <2> QED BY <1>4, <1>5, <2>1 DEF ActiveOn
<1>7. ASSUME judged \subseteq judged' PROVE Settled(x)'
  <2>1. Settled(x)
    BY DEF JournalInv
  <2>2. On(x, "recorded")' = On(x, "recorded") /\ On(x, "reset")' = On(x, "reset")
    BY <1>3
  <2> QED BY <1>5, <1>6, <1>7, <2>1, <2>2 DEF Settled
<1> QED BY <1>2, <1>6, <1>7

\* A step that leaves the journal alone.
LEMMA JournalStays ==
  ASSUME JournalInv, UNCHANGED <<session, journal>>, leaf' \in 0..Len(journal),
         judged \subseteq judged', judged' \subseteq Nat, saved' \subseteq UserNote,
         hunk' \in [open : BOOLEAN, notes : SUBSET UserNote], review' \in ReviewRecord,
         ReviewKnows', NotesAreRead', vanished' = {}
  PROVE  JournalInv'
<1>1. JournalTyped' /\ JournalIsTree'
  BY DEF JournalInv, JournalTyped, JournalIsTree
<1>2. \A x \in 0..Len(journal) : Settled(x)'
  BY OldBranchesStay
<1> QED BY <1>1, <1>2 DEF JournalInv

\* Only the review moves on, and it captures nothing new.
LEMMA ReviewMoves ==
  ASSUME JournalInv, NEW q \in ReviewRecord, review' = q,
         UNCHANGED <<session, journal, leaf, judged, saved, vanished>>,
         hunk' \in [open : BOOLEAN, notes : SUBSET UserNote],
         q.session \in 0..session, q.cutoff \in 0..MaxEntries, q.shows \subseteq 1..MaxEntries,
         q.pc \notin {"idle", "prepare"} =>
           /\ review.pc \notin {"idle", "prepare"}
           /\ q.session = review.session /\ q.cutoff = review.cutoff /\ q.shows = review.shows,
         q.pc \in {"close", "complete"} => review.pc \in {"close", "complete"},
         NotesAreRead'
  PROVE  JournalInv'
<1>1. \A x \in 0..Len(journal) : ActiveOn(x)' = ActiveOn(x)
  BY OldBranchesStay
<1>2. ReviewKnows'
  BY <1>1 DEF JournalInv, ReviewKnows
<1>3. leaf' \in 0..Len(journal) /\ judged' \subseteq Nat /\ saved' \subseteq UserNote /\ vanished' = {}
  BY DEF JournalInv, JournalTyped
<1> QED BY <1>2, <1>3, JournalStays

LEMMA InitJournalInv == JournalInit => JournalInv
<1> SUFFICES ASSUME JournalInit PROVE JournalInv
  OBVIOUS
<1>1. journal = <<>> /\ Len(journal) = 0 /\ journal \in Seq(EntryRecord)
  BY DEF JournalInit
<1>2. NoTransaction \in ReviewRecord /\ NoHunk \in [open : BOOLEAN, notes : SUBSET UserNote]
  BY DEF NoTransaction, ReviewRecord, NoHunk
<1>3. JournalTyped /\ JournalIsTree
  BY <1>2 DEF JournalInit, JournalTyped, JournalIsTree
<1>4. \A x \in 0..Len(journal) : Settled(x)
  BY <1>1 DEF Settled, On, Trunk
<1>5. ReviewKnows /\ NotesAreRead
  BY DEF JournalInit, ReviewKnows, NotesAreRead, NoTransaction
<1> QED BY <1>3, <1>4, <1>5 DEF JournalInv, JournalInit

-----------------------------------------------------------------------------
\* An entry appended to the branch the session is on, n its index.
LEMMA Appended ==
  ASSUME JournalInv, NEW entry \in EntryRecord, AppendEntry(entry), entry.through \in 0..Len(journal),
         NEW n \in Nat, n = Len(journal) + 1
  PROVE  /\ journal' \in Seq(EntryRecord) /\ Len(journal') = n /\ leaf' = n /\ n <= MaxEntries
         /\ \A i \in 1..Len(journal) : journal'[i] = journal[i]
         /\ journal'[n].kind = entry.kind /\ journal'[n].remark = entry.remark
         /\ journal'[n].through = entry.through
         /\ Trunk(n)' = Trunk(leaf) \cup {n}
         /\ JournalIsTree'
<1>1. Path = Trunk(leaf) /\ Trunk(leaf) \subseteq 1..Len(journal) /\ Len(journal) \in Nat
  BY FoldOfBranch, TrunkIsBranch, JournalTypes
<1>2. PICK e : e = [entry EXCEPT !.above = Path \cup {n}]
  OBVIOUS
<1>3. /\ e \in EntryRecord /\ e.kind = entry.kind /\ e.remark = entry.remark /\ e.through = entry.through
      /\ e.above = Trunk(leaf) \cup {n}
  <2>1. Path \cup {n} \in SUBSET Nat
    BY <1>1
  <2> QED BY <1>1, <1>2, <2>1 DEF EntryRecord
<1>4. journal' = Append(journal, e) /\ leaf' = n /\ n <= MaxEntries
  BY <1>2 DEF AppendEntry
<1>5. journal \in Seq(EntryRecord)
  BY DEF JournalInv, JournalTyped
<1>6. /\ journal' \in Seq(EntryRecord) /\ Len(journal') = n /\ journal'[n] = e
      /\ \A i \in 1..Len(journal) : journal'[i] = journal[i]
  BY <1>3, <1>4, <1>5
<1>7. Trunk(n)' = Trunk(leaf) \cup {n}
  BY <1>3, <1>6 DEF Trunk
<1>8. JournalIsTree'
  <2> SUFFICES ASSUME NEW i \in 1..n
               PROVE  /\ journal'[i].above \subseteq 1..i /\ i \in journal'[i].above
                      /\ journal'[i].through < i
                      /\ \A j \in journal'[i].above :
                           journal'[j].above = {k \in journal'[i].above : k <= j}
    BY <1>6 DEF JournalIsTree
  <2>1. CASE i # n
    <3>1. i \in 1..Len(journal) /\ journal'[i] = journal[i]
      BY <1>6, <2>1
    <3>2. journal[i].above \subseteq 1..Len(journal)
      BY <3>1 DEF JournalInv, JournalIsTree
    <3> QED BY <1>6, <3>1 DEF JournalInv, JournalIsTree
  <2>2. CASE i = n
    <3>1. journal'[i].above = Trunk(leaf) \cup {n} /\ journal'[i].through < i
      BY <1>3, <1>6, <2>2
    <3>2. ASSUME NEW j \in Trunk(leaf)
          PROVE  journal'[j].above = {k \in Trunk(leaf) \cup {n} : k <= j}
      <4>1. j \in 1..Len(journal) /\ j < n
        BY <1>1
      <4>2. Trunk(j) = {k \in Trunk(leaf) : k <= j} /\ Trunk(j) = journal[j].above
        BY JournalTypes, TrunkIsBranch DEF Trunk
      <4> QED BY <1>6, <4>1, <4>2
    <3>3. journal'[n].above = {k \in Trunk(leaf) \cup {n} : k <= n}
      BY <1>1, <1>3, <1>6
    <3> QED BY <1>1, <2>2, <3>1, <3>2
  <2> QED BY <2>1, <2>2
<1> QED BY <1>3, <1>4, <1>6, <1>7, <1>8

\* What the fold finds on the new branch: the entries of the old one, and the new one.
LEMMA NewBranch ==
  ASSUME JournalInv, NEW entry \in EntryRecord, AppendEntry(entry), entry.through \in 0..Len(journal),
         NEW n \in Nat, n = Len(journal) + 1
  PROVE  /\ \A kind : On(n, kind)' = On(leaf, kind) \cup {i \in {n} : entry.kind = kind}
         /\ \A i \in On(leaf, "recorded") :
              WithdrawnOn(n, i)' <=> \/ WithdrawnOn(leaf, i)
                                     \/ entry.kind = "withdrawn" /\ entry.remark = journal[i].remark
         /\ \A b : b \in BoundariesOn(n)' <=>
                   \/ b \in BoundariesOn(leaf) \/ (b = n /\ entry.kind = "reset")
                   \/ b = entry.through /\ entry.kind = "completed" /\ b \in Trunk(leaf)
         /\ \A b \in BoundariesOn(leaf) : b \in 1..Len(journal)
<1>1. /\ \A i \in 1..Len(journal) : journal'[i] = journal[i]
      /\ journal'[n].kind = entry.kind /\ journal'[n].remark = entry.remark
      /\ journal'[n].through = entry.through
      /\ Trunk(n)' = Trunk(leaf) \cup {n}
  BY Appended
<1>2. Trunk(leaf) \subseteq 1..Len(journal) /\ Len(journal) \in Nat
      /\ \A j \in Trunk(leaf) : journal[j].through < j /\ journal[j].through \in Nat
  BY TrunkIsBranch, JournalTypes
<1>3. \A kind : On(n, kind)' = On(leaf, kind) \cup {i \in {n} : entry.kind = kind}
  BY <1>1, <1>2 DEF On
<1>4. ASSUME NEW i \in On(leaf, "recorded")
      PROVE  WithdrawnOn(n, i)' <=> \/ WithdrawnOn(leaf, i)
                                    \/ entry.kind = "withdrawn" /\ entry.remark = journal[i].remark
  <2>1. i \in 1..Len(journal) /\ i < n /\ journal'[i] = journal[i]
    BY <1>1, <1>2 DEF On
  <2>2. On(n, "withdrawn")' = On(leaf, "withdrawn") \cup {k \in {n} : entry.kind = "withdrawn"}
    BY <1>3
  <2>3. On(leaf, "withdrawn") \subseteq 1..Len(journal)
    BY <1>2 DEF On
  <2> QED BY <1>1, <2>1, <2>2, <2>3 DEF WithdrawnOn
<1>5. /\ On(n, "reset")' = On(leaf, "reset") \cup {i \in {n} : entry.kind = "reset"}
      /\ On(n, "completed")' = On(leaf, "completed") \cup {i \in {n} : entry.kind = "completed"}
      /\ On(leaf, "completed") \subseteq Trunk(leaf) /\ On(leaf, "reset") \subseteq Trunk(leaf)
  BY <1>3 DEF On
<1>6. ASSUME NEW b
      PROVE  b \in BoundariesOn(n)' <=>
               \/ b \in BoundariesOn(leaf) \/ (b = n /\ entry.kind = "reset")
               \/ b = entry.through /\ entry.kind = "completed" /\ b \in Trunk(leaf)
  <2>1. b \in BoundariesOn(n)' <=>
          \/ b \in On(n, "reset")'
          \/ \E j \in On(n, "completed")' : b = journal'[j].through /\ journal'[j].through \in Trunk(n)'
    BY DEF BoundariesOn
  <2>2. b \in BoundariesOn(leaf) <=>
          \/ b \in On(leaf, "reset")
          \/ \E j \in On(leaf, "completed") : b = journal[j].through /\ journal[j].through \in Trunk(leaf)
    BY DEF BoundariesOn
  <2>3. \A j \in On(leaf, "completed") :
          journal'[j].through = journal[j].through
          /\ (journal[j].through \in Trunk(n)' <=> journal[j].through \in Trunk(leaf))
    BY <1>1, <1>2, <1>5
  <2>4. entry.through \in Trunk(n)' <=> entry.through \in Trunk(leaf)
    BY <1>1
  <2>5. (\E j \in On(n, "completed")' : b = journal'[j].through /\ journal'[j].through \in Trunk(n)')
          <=> \/ \E j \in On(leaf, "completed") : b = journal[j].through /\ journal[j].through \in Trunk(leaf)
              \/ entry.kind = "completed" /\ b = entry.through /\ b \in Trunk(leaf)
    <3>1. \A j : j \in On(n, "completed")' <=> j \in On(leaf, "completed") \/ (j = n /\ entry.kind = "completed")
      BY <1>5
    <3> QED BY <1>1, <2>3, <3>1
  <2>6. b \in On(n, "reset")' <=> b \in On(leaf, "reset") \/ (b = n /\ entry.kind = "reset")
    BY <1>5
  <2> QED BY <2>1, <2>2, <2>5, <2>6
<1>7. ASSUME NEW b \in BoundariesOn(leaf) PROVE b \in 1..Len(journal)
  BY <1>2, <1>5 DEF BoundariesOn
<1> QED BY <1>3, <1>4, <1>6, <1>7

-----------------------------------------------------------------------------
\* An entry under which the new branch loses nothing.
LEMMA AppendKeeps ==
  ASSUME JournalInv, NEW entry \in EntryRecord, AppendEntry(entry), entry.through \in 0..Len(journal),
         NEW n \in Nat, n = Len(journal) + 1, Settled(n)',
         UNCHANGED <<session, hunk, judged, saved, vanished>>, review' \in {review, NoTransaction}
  PROVE  JournalInv'
<1>1. /\ journal' \in Seq(EntryRecord) /\ Len(journal') = n /\ leaf' = n /\ n <= MaxEntries
      /\ \A i \in 1..Len(journal) : journal'[i] = journal[i]
      /\ JournalIsTree'
  BY Appended
<1>2. \A x \in 0..Len(journal) : Settled(x)' /\ ActiveOn(x)' = ActiveOn(x)
  BY <1>1, OldBranchesStay
<1>3. \A x \in 0..Len(journal') : Settled(x)'
  BY <1>1, <1>2
<1>4. NoTransaction \in ReviewRecord
  BY DEF NoTransaction, ReviewRecord
<1>5. JournalTyped'
  BY <1>1, <1>4 DEF JournalInv, JournalTyped
<1>6. ReviewKnows'
  <2>1. CASE review' = review
    BY <1>1, <1>2, <2>1 DEF JournalInv, ReviewKnows
  <2>2. CASE review' = NoTransaction
    BY <2>2, JournalTypes DEF ReviewKnows, NoTransaction
  <2> QED BY <2>1, <2>2
<1>7. NotesAreRead'
  BY DEF JournalInv, NotesAreRead, NoTransaction
<1> QED BY <1>1, <1>3, <1>5, <1>6, <1>7 DEF JournalInv

\* Entries of the agent and resets consume nothing that counts.
LEMMA PlainEntryKeeps ==
  ASSUME JournalInv, NEW entry \in EntryRecord, AppendEntry(entry), entry.through = 0,
         entry.kind \in {"recorded", "withdrawn", "reset"},
         UNCHANGED <<session, hunk, review, judged, saved, vanished>>
  PROVE  JournalInv'
<1>1. PICK n \in Nat : n = Len(journal) + 1
  OBVIOUS
<1>t. entry.through \in 0..Len(journal) /\ leaf \in 0..Len(journal) /\ Len(journal) \in Nat
  BY JournalTypes
<1>2. \A i \in 1..Len(journal) : journal'[i] = journal[i]
  BY Appended
<1>3. /\ \A kind : On(n, kind)' = On(leaf, kind) \cup {i \in {n} : entry.kind = kind}
      /\ \A i \in On(leaf, "recorded") :
           WithdrawnOn(n, i)' <=> \/ WithdrawnOn(leaf, i)
                                  \/ entry.kind = "withdrawn" /\ entry.remark = journal[i].remark
      /\ \A b : b \in BoundariesOn(n)' <=>
                \/ b \in BoundariesOn(leaf) \/ (b = n /\ entry.kind = "reset")
                \/ b = entry.through /\ entry.kind = "completed" /\ b \in Trunk(leaf)
      /\ \A b \in BoundariesOn(leaf) : b \in 1..Len(journal)
  BY <1>1, NewBranch
<1>4. \A kind : On(leaf, kind) \subseteq 1..Len(journal)
  BY <1>t, TrunkIsBranch DEF On
<1>5. Settled(n)'
  <2> SUFFICES ASSUME NEW i \in On(n, "recorded")', \A j \in On(n, "reset")' : j < i
               PROVE  i \in ActiveOn(n)' \/ i \in judged' \/ WithdrawnOn(n, i)'
    BY DEF Settled
  <2>1. entry.kind # "reset"
    <3>1. ASSUME entry.kind = "reset" PROVE FALSE
      <4>1. n \in On(n, "reset")' /\ i \in On(leaf, "recorded")
        BY <1>3, <3>1
      <4>2. n < i /\ i \in 1..Len(journal)
        BY <1>4, <4>1
      <4> QED BY <1>1, <4>2
    <3> QED BY <3>1
  <2>2. CASE i \in On(leaf, "recorded")
    <3>1. \A j \in On(leaf, "reset") : j < i
      BY <1>3
    <3>2. i \in ActiveOn(leaf) \/ i \in judged \/ WithdrawnOn(leaf, i)
      BY <1>t, <2>2, <3>1 DEF JournalInv, Settled
    <3>3. CASE i \in judged \/ WithdrawnOn(leaf, i)
      BY <1>3, <2>2, <3>3
    <3>4. CASE i \in ActiveOn(leaf) /\ ~WithdrawnOn(n, i)'
      <4>1. \A b \in BoundariesOn(n)' : b < i
        BY <1>3, <3>4 DEF ActiveOn
      <4> QED BY <4>1 DEF ActiveOn
    <3> QED BY <3>2, <3>3, <3>4
  <2>3. CASE i = n /\ entry.kind = "recorded"
    <3>1. \A b \in BoundariesOn(n)' : b < i
      BY <1>1, <1>3, <2>3
    <3>2. ~WithdrawnOn(n, i)'
      <4>1. On(n, "withdrawn")' = On(leaf, "withdrawn") \cup {k \in {n} : entry.kind = "withdrawn"}
        BY <1>3
      <4>2. \A k \in On(n, "withdrawn")' : k \in 1..Len(journal)
        BY <1>4, <2>3, <4>1
      <4> QED BY <1>1, <2>3, <4>2 DEF WithdrawnOn
    <3> QED BY <3>1 DEF ActiveOn
  <2> QED BY <1>3, <2>2, <2>3
<1> QED BY <1>1, <1>5, AppendKeeps

\* A completed review consumes what the branch it captured has; the rest of the branch stays.
LEMMA CompleteKeeps == ASSUME JournalInv, Complete PROVE JournalInv'
<1>1. PICK n \in Nat : n = Len(journal) + 1
  OBVIOUS
<1>2. PICK c : c = review.cutoff
  OBVIOUS
<1>3. PICK entry : entry = [Entry("completed") EXCEPT !.through = c]
  OBVIOUS
<1>4. AppendEntry(entry) /\ OwnsOrigin /\ review' = NoTransaction /\ review.pc = "complete"
      /\ UNCHANGED <<session, hunk, judged, saved, vanished>>
  BY <1>2, <1>3 DEF Complete, Stop, AtStage
<1>t. leaf \in 0..Len(journal) /\ Len(journal) \in Nat
  BY JournalTypes
<1>5. c \in 0..Len(journal) /\ review.shows = ActiveOn(c) /\ review.shows \subseteq judged
      /\ (c = 0 \/ c \in Trunk(leaf))
  BY <1>2, <1>4, FoldOfBranch DEF JournalInv, ReviewKnows, OwnsOrigin
<1>6. entry \in EntryRecord /\ entry.kind = "completed" /\ entry.through = c
  <2>1. c \in Nat
    BY <1>5
  <2>2. entry = [kind |-> "completed", remark |-> "", through |-> c, above |-> {}]
    BY <1>3 DEF Entry
  <2> QED BY <2>1, <2>2 DEF EntryRecord, EntryKind
<1>7. /\ \A kind : On(n, kind)' = On(leaf, kind) \cup {i \in {n} : entry.kind = kind}
      /\ \A i \in On(leaf, "recorded") : WithdrawnOn(n, i)' <=> WithdrawnOn(leaf, i)
      /\ \A b : b \in BoundariesOn(n)' <=>
                b \in BoundariesOn(leaf) \/ (b = c /\ c \in Trunk(leaf))
  BY <1>1, <1>4, <1>5, <1>6, NewBranch
<1>8. Trunk(leaf) \subseteq 1..Len(journal)
  BY <1>t, TrunkIsBranch
<1>9. Settled(n)'
  <2> SUFFICES ASSUME NEW i \in On(n, "recorded")', \A j \in On(n, "reset")' : j < i
               PROVE  i \in ActiveOn(n)' \/ i \in judged' \/ WithdrawnOn(n, i)'
    BY DEF Settled
  <2>1. i \in On(leaf, "recorded") /\ (\A j \in On(leaf, "reset") : j < i)
    BY <1>6, <1>7
  <2>2. i \in ActiveOn(leaf) \/ i \in judged \/ WithdrawnOn(leaf, i)
    BY <1>t, <2>1 DEF JournalInv, Settled
  <2>3. CASE i \in ActiveOn(leaf) /\ (c < i \/ c \notin Trunk(leaf))
    <3>1. \A b \in BoundariesOn(n)' : b < i
      BY <1>7, <2>3 DEF ActiveOn
    <3> QED BY <3>1 DEF ActiveOn
  <2>4. CASE c \in Trunk(leaf) /\ ~(c < i)
    <3>1. Trunk(c) = {k \in Trunk(leaf) : k <= c}
      BY <1>t, <2>4, TrunkIsBranch
    <3>2. i \in Trunk(leaf) /\ i \in 1..Len(journal) /\ c \in 1..Len(journal)
      BY <1>8, <2>1, <2>4 DEF On
    <3>3. i \in On(c, "recorded")
      BY <2>1, <2>4, <3>1, <3>2 DEF On
    <3>4. \A j \in On(c, "reset") : j < i
      BY <2>1, <3>1 DEF On
    <3>5. i \in ActiveOn(c) \/ i \in judged \/ WithdrawnOn(c, i)
      BY <1>5, <3>3, <3>4 DEF JournalInv, Settled
    <3>6. WithdrawnOn(c, i) => WithdrawnOn(leaf, i)
      BY <3>1 DEF WithdrawnOn, On
    <3> QED BY <1>4, <1>5, <1>7, <2>1, <3>5, <3>6
  <2> QED BY <1>4, <1>7, <2>1, <2>2, <2>3, <2>4
<1> QED BY <1>1, <1>4, <1>5, <1>6, <1>9, AppendKeeps

-----------------------------------------------------------------------------
LEMMA JournalInvInductive == JournalInv /\ [JournalNext]_journalVars => JournalInv'
<1> SUFFICES ASSUME JournalInv, [JournalNext]_journalVars PROVE JournalInv'
  OBVIOUS
<1> USE DEF worldVars
<1>t. /\ leaf \in 0..Len(journal) /\ Len(journal) \in Nat /\ review \in ReviewRecord
      /\ hunk \in [open : BOOLEAN, notes : SUBSET UserNote] /\ judged \subseteq Nat /\ saved \subseteq UserNote
      /\ ReviewKnows /\ NotesAreRead /\ vanished = {} /\ session \in Nat
  BY DEF JournalInv, JournalTyped
<1>k. /\ NoTransaction \in ReviewRecord /\ NoHunk \in [open : BOOLEAN, notes : SUBSET UserNote]
      /\ NoTransaction.pc = "idle" /\ NoTransaction.session = 0 /\ NoTransaction.cutoff = 0
      /\ NoTransaction.shows = {} /\ NoHunk.notes = {}
  BY DEF NoTransaction, ReviewRecord, NoHunk
<1>q. PICK r \in ReviewRecord : r = review
  BY <1>t
<1>r. r.session \in 0..session /\ r.cutoff \in 0..MaxEntries /\ r.shows \subseteq 1..MaxEntries
  BY <1>t, <1>q DEF ReviewKnows
<1>1. CASE UNCHANGED journalVars
  <2>1. NotesAreRead'
    BY <1>1, <1>t DEF journalVars, NotesAreRead
  <2> QED BY <1>1, <1>q, <1>r, <1>t, <2>1, ReviewMoves DEF journalVars
<1>2. ASSUME NEW m \in Remark, Record(m) \/ WithdrawRemark(m) PROVE JournalInv'
  <2>1. PICK kind \in {"recorded", "withdrawn"} : AppendEntry([Entry(kind) EXCEPT !.remark = m])
    BY <1>2 DEF Record, WithdrawRemark
  <2>2. PICK entry : entry = [Entry(kind) EXCEPT !.remark = m]
    OBVIOUS
  <2>3. entry \in EntryRecord /\ entry.kind = kind /\ entry.through = 0 /\ AppendEntry(entry)
    BY <2>1, <2>2 DEF Entry, EntryRecord, EntryKind
  <2> QED BY <1>2, <2>3, PlainEntryKeeps DEF Record, WithdrawRemark
<1>3. CASE Reset
  <2>1. PICK entry : entry = Entry("reset")
    OBVIOUS
  <2>2. entry \in EntryRecord /\ entry.kind = "reset" /\ entry.through = 0 /\ AppendEntry(entry)
    BY <1>3, <2>1 DEF Reset, Entry, EntryRecord, EntryKind
  <2> QED BY <1>3, <2>2, PlainEntryKeeps DEF Reset
<1>4. CASE Navigate
  <2>1. leaf' \in 0..Len(journal) /\ UNCHANGED <<session, journal, hunk, review, judged, saved, vanished>>
    BY <1>4 DEF Navigate
  <2>2. NotesAreRead'
    BY <1>t, <2>1 DEF NotesAreRead
  <2>3. \A x \in 0..Len(journal) : ActiveOn(x)' = ActiveOn(x)
    BY <2>1, OldBranchesStay
  <2>4. ReviewKnows'
    BY <1>t, <2>1, <2>3 DEF ReviewKnows
  <2> QED BY <1>t, <2>1, <2>2, <2>4, JournalStays
<1>5. CASE ChangeSession
  <2>1. /\ session < MaxSessions /\ session' = session + 1 /\ journal' = <<>> /\ leaf' = 0 /\ judged' = {}
        /\ UNCHANGED <<hunk, review, saved, vanished>>
    BY <1>5 DEF ChangeSession
  <2>2. Len(journal') = 0 /\ journal' \in Seq(EntryRecord)
    BY <2>1
  <2>3. JournalTyped' /\ JournalIsTree'
    BY <2>1 DEF JournalInv, JournalTyped, JournalIsTree
  <2>4. \A x \in 0..Len(journal') : Settled(x)'
    BY <2>2 DEF Settled, On, Trunk
  <2>5. ReviewKnows'
    BY <1>t, <2>1 DEF ReviewKnows
  <2>6. NotesAreRead' /\ vanished' = {}
    BY <1>t, <2>1 DEF NotesAreRead
  <2> QED BY <2>3, <2>4, <2>5, <2>6 DEF JournalInv
<1>6. ASSUME NEW u \in UserNote, Scribble(u) PROVE JournalInv'
  <2>1. PICK q : q = IF r.pc \in {"persist", "close"} THEN [r EXCEPT !.late = r.late \cup {u}] ELSE r
    OBVIOUS
  <2>2. /\ q \in ReviewRecord /\ q.pc = r.pc /\ q.session = r.session /\ q.cutoff = r.cutoff
        /\ q.shows = r.shows /\ q.read = r.read
        /\ q.late = IF r.pc \in {"persist", "close"} THEN r.late \cup {u} ELSE r.late
    BY <2>1 DEF ReviewRecord
  <2>3. /\ hunk' = [hunk EXCEPT !.notes = hunk.notes \cup {u}] /\ review' = q
        /\ UNCHANGED <<session, journal, leaf, judged, saved, vanished>>
    BY <1>6, <1>q, <2>1 DEF Scribble
  <2>4. hunk' \in [open : BOOLEAN, notes : SUBSET UserNote] /\ hunk'.notes = hunk.notes \cup {u}
    BY <1>t, <2>3
  <2>5. NotesAreRead'
    BY <1>q, <1>t, <2>2, <2>3 DEF NotesAreRead
  <2> QED BY <1>q, <1>r, <2>2, <2>3, <2>4, <2>5, ReviewMoves
<1>7. CASE Load
  <2>1. PICK q : q = [r EXCEPT !.pc = "prepare", !.session = session]
    OBVIOUS
  <2>2. /\ q \in ReviewRecord /\ q.pc = "prepare" /\ q.session = session /\ q.cutoff = r.cutoff
        /\ q.shows = r.shows
    BY <1>t, <2>1 DEF ReviewRecord
  <2>3. /\ review' = q /\ hunk' = NoHunk
        /\ UNCHANGED <<session, journal, leaf, judged, saved, vanished>>
    BY <1>7, <1>q, <2>1 DEF Load
  <2>4. NotesAreRead' /\ session \in 0..session
    BY <1>t, <2>2, <2>3 DEF NotesAreRead
  <2> QED BY <1>k, <1>r, <2>2, <2>3, <2>4, ReviewMoves
<1>8. CASE Prepare
  <2>1. PICK q : q = [r EXCEPT !.pc = "launch", !.cutoff = leaf, !.shows = Active]
    OBVIOUS
  <2>2. Active = ActiveOn(leaf) /\ Active \subseteq 1..Len(journal) /\ Len(journal) <= MaxEntries
    BY FoldOfBranch, TrunkIsBranch DEF ActiveOn, On, JournalInv, JournalTyped
  <2>3. Active \in SUBSET Nat /\ leaf \in Nat
    BY <1>t, <2>2
  <2>4. /\ q \in ReviewRecord /\ q.pc = "launch" /\ q.session = r.session /\ q.cutoff = leaf
        /\ q.shows = Active
    BY <2>1, <2>3 DEF ReviewRecord
  <2>5. review' = q /\ UNCHANGED <<session, journal, leaf, hunk, judged, saved, vanished>>
    BY <1>8, <1>q, <2>1 DEF Prepare
  <2>6. ActiveOn(leaf)' = ActiveOn(leaf)
    BY <2>5 DEF ActiveOn, On, BoundariesOn, WithdrawnOn, Trunk
  <2>7. leaf \in 0..MaxEntries /\ Active \subseteq 1..MaxEntries
    BY <1>t, <2>2
  <2>8. ReviewKnows'
    BY <1>r, <1>t, <2>2, <2>4, <2>5, <2>6 DEF ReviewKnows
  <2>9. NotesAreRead'
    BY <2>4, <2>5 DEF NotesAreRead
  <2> QED BY <1>t, <2>4, <2>5, <2>8, <2>9, JournalStays
<1>9. ASSUME NEW pc \in {"run", "discover", "confirm", "read"}, ReviewTo(pc),
             review.pc \in {"launch", "run", "discover", "confirm"},
             UNCHANGED <<session, journal, leaf, judged, saved, vanished>>,
             hunk' \in [open : BOOLEAN, notes : SUBSET UserNote]
      PROVE  JournalInv'
  <2>1. PICK q : q = [r EXCEPT !.pc = pc]
    OBVIOUS
  <2>2. /\ q \in ReviewRecord /\ q.pc = pc /\ q.session = r.session /\ q.cutoff = r.cutoff
        /\ q.shows = r.shows /\ review' = q
    BY <1>9, <1>q, <2>1 DEF ReviewRecord, ReviewTo
  <2>3. NotesAreRead'
    BY <2>2 DEF NotesAreRead
  <2> QED BY <1>9, <1>q, <1>r, <2>2, <2>3, ReviewMoves
<1>10. ASSUME Stop, UNCHANGED <<session, journal, leaf, judged, saved, vanished>>,
              hunk' \in [open : BOOLEAN, notes : SUBSET UserNote]
       PROVE  JournalInv'
  <2>1. NotesAreRead' /\ review' = NoTransaction /\ 0 \in 0..session
    BY <1>10, <1>k, <1>t DEF NotesAreRead, Stop
  <2> QED BY <1>10, <1>k, <2>1, ReviewMoves
<1>11. CASE SplitPane \/ DiscoverHunk \/ ConfirmReview
  BY <1>9, <1>11, <1>t DEF SplitPane, DiscoverHunk, ConfirmReview, AtStage
<1>12. CASE RunHunk
  <2>1. hunk' \in [open : BOOLEAN, notes : SUBSET UserNote]
    BY <1>12 DEF RunHunk, NoHunk
  <2> QED BY <1>9, <1>10, <1>12, <2>1 DEF RunHunk, AtStage
<1>13. CASE StopEarly
  BY <1>10, <1>13, <1>t DEF StopEarly
<1>14. CASE ReadReview
  <2>1. PICK q : q = [r EXCEPT !.pc = "persist", !.read = hunk.notes]
    OBVIOUS
  <2>2. /\ q \in ReviewRecord /\ q.pc = "persist" /\ q.session = r.session /\ q.cutoff = r.cutoff
        /\ q.shows = r.shows /\ q.read = hunk.notes
    BY <1>t, <2>1 DEF ReviewRecord
  <2>3. review' = q /\ UNCHANGED <<session, journal, leaf, hunk, judged, saved, vanished>> /\ r.pc = "read"
    BY <1>14, <1>q, <2>1 DEF ReadReview, AtStage
  <2>4. NotesAreRead'
    BY <2>2, <2>3 DEF NotesAreRead
  <2> QED BY <1>q, <1>r, <1>t, <2>2, <2>3, <2>4, ReviewMoves
<1>15. CASE Persist
  <2>1. PICK q : q = [r EXCEPT !.pc = "close"]
    OBVIOUS
  <2>2. /\ q \in ReviewRecord /\ q.pc = "close" /\ q.session = r.session /\ q.cutoff = r.cutoff
        /\ q.shows = r.shows /\ q.late = r.late
    BY <2>1 DEF ReviewRecord
  <2>3. /\ saved' = saved \cup r.read /\ judged' = judged \cup r.shows /\ review' = q
        /\ UNCHANGED <<session, journal, leaf, hunk, vanished>> /\ r.pc = "persist"
    BY <1>15, <1>q, <2>1 DEF Persist, ReviewTo, AtStage
  <2>4. r.shows \subseteq Nat /\ r.read \subseteq UserNote
    BY DEF ReviewRecord
  <2>5. NotesAreRead'
    BY <1>q, <1>t, <2>2, <2>3 DEF NotesAreRead
  <2>6. \A x \in 0..Len(journal) : ActiveOn(x)' = ActiveOn(x)
    BY <2>3, OldBranchesStay
  <2>7. ReviewKnows'
    BY <1>q, <1>t, <2>2, <2>3, <2>6 DEF ReviewKnows
  <2> QED BY <1>t, <2>2, <2>3, <2>4, <2>5, <2>7, JournalStays
<1>16. CASE ClosePane
  <2>1. PICK q : q = [r EXCEPT !.pc = "complete"]
    OBVIOUS
  <2>2. /\ q \in ReviewRecord /\ q.pc = "complete" /\ q.session = r.session /\ q.cutoff = r.cutoff
        /\ q.shows = r.shows
    BY <2>1 DEF ReviewRecord
  <2>3. /\ review' = q /\ r.pc = "close" /\ UNCHANGED <<session, journal, leaf, judged, saved>>
        /\ \/ hunk' = NoHunk /\ vanished' = vanished \cup ((hunk.notes \ saved) \ r.late)
           \/ UNCHANGED <<hunk, vanished>>
    BY <1>16, <1>q, <2>1 DEF ClosePane, ReviewTo, AtStage
  <2>4. vanished' = vanished /\ hunk' \in [open : BOOLEAN, notes : SUBSET UserNote]
    BY <1>k, <1>q, <1>t, <2>3 DEF NotesAreRead
  <2>5. NotesAreRead'
    BY <2>2, <2>3 DEF NotesAreRead
  <2> QED BY <1>q, <1>r, <2>2, <2>3, <2>4, <2>5, ReviewMoves
<1>17. CASE Complete
  BY <1>17, CompleteKeeps
<1> QED
  BY <1>1, <1>2, <1>3, <1>4, <1>5, <1>6, <1>7, <1>8, <1>11, <1>12, <1>13, <1>14, <1>15, <1>16,
     <1>17 DEF JournalNext

LEMMA JournalInvAlways == JournalSpec => []JournalInv
BY InitJournalInv, JournalInvInductive, PTL DEF JournalSpec

\* Journal, review and pane are well typed, for any entries, sessions, remarks and notes.
THEOREM JournalTypeCorrect == JournalSpec => []JournalTypeOK
<1>1. ASSUME JournalInv PROVE JournalTypeOK
  <2>1. ASSUME NEW i \in DOMAIN journal PROVE journal[i].kind \in EntryKind /\ journal[i].above \subseteq 1..i
    <3>1. journal \in Seq(EntryRecord)
      BY <1>1 DEF JournalInv, JournalTyped
    <3>2. i \in 1..Len(journal)
      OBVIOUS
    <3>3. journal[i] \in EntryRecord
      BY <1>1, JournalTypes
    <3> QED BY <1>1, <3>2, <3>3 DEF EntryRecord, JournalInv, JournalIsTree
  <2> QED BY <1>1, <2>1 DEF JournalInv, JournalTyped, ReviewKnows, ReviewRecord, JournalTypeOK
<1> QED BY <1>1, JournalInvAlways, PTL

\* Whatever is recorded, withdrawn or reset, wherever the user goes in the tree and however many
\* sessions there are: no note is destroyed unsaved, and an annotation of the branch stays
\* active until it is withdrawn or a saved review has judged it.
THEOREM ReviewsAreTransactional == JournalSpec => []ReviewIsTransactional
<1>1. ASSUME JournalInv PROVE ReviewIsTransactional
  <2>1. Settled(leaf) /\ vanished = {}
    BY <1>1, JournalTypes DEF JournalInv
  <2> QED BY <2>1, FoldOfBranch DEF Settled, ReviewIsTransactional
<1> QED BY <1>1, JournalInvAlways, PTL

HIDE JournalAssumption

-----------------------------------------------------------------------------
\* The patch of a change in omp: numbers, and induction over them.
Below == {p \in Nat \X Nat : p[1] < p[2]}

\* Induction.
LEMMA Counting ==
  ASSUME NEW T, 0 \in T, \A n \in Nat : n \in T => n + 1 \in T
  PROVE  \A n \in Nat : n \in T
<1> SUFFICES ASSUME Nat \ T # {} PROVE FALSE
  OBVIOUS
<1>1. IsWellFoundedOn(Below, Nat)
  BY NatLessThanWellFounded DEF Below, OpToRel
<1>2. PICK x \in Nat \ T : \A y \in Nat \ T : <<y, x>> \notin Below
  <2>1. Nat \ T \subseteq Nat
    OBVIOUS
  <2> QED BY <1>1, <2>1, WFMin
<1>3. x # 0 /\ x - 1 \in Nat /\ x = (x - 1) + 1 /\ <<x - 1, x>> \in Below
  BY DEF Below
<1> QED BY <1>2, <1>3

\* Every nonempty set of numbers has a least one.
LEMMA LeastNumber ==
  ASSUME NEW T, NEW n \in Nat, n \in T
  PROVE  \E m \in Nat : m \in T /\ m <= n /\ \A k \in Nat : k < m => k \notin T
<1> DEFINE C == {k \in Nat : \A j \in 0..k : j \notin T}
<1> SUFFICES ASSUME \A m \in Nat : m \in T /\ m <= n => \E k \in Nat : k < m /\ k \in T
             PROVE  FALSE
  OBVIOUS
<1>1. 0 \in C
  <2>1. CASE 0 \in T BY <2>1
  <2>2. CASE 0 \notin T BY <2>2
  <2> QED BY <2>1, <2>2
<1>2. \A k \in Nat : k <= n => k \in C
  <2> DEFINE U == {k \in Nat : k <= n => k \in C}
  <2>1. 0 \in U
    BY <1>1
  <2>2. ASSUME NEW k \in Nat, k \in U PROVE k + 1 \in U
    <3> SUFFICES ASSUME k + 1 <= n PROVE k + 1 \in C
      BY DEF U
    <3>1. \A j \in 0..k : j \notin T
      BY <2>2
    <3>2. k + 1 \notin T
      BY <3>1
    <3> QED BY <3>1, <3>2
  <2> HIDE DEF U
  <2>3. \A k \in Nat : k \in U
    BY <2>1, <2>2, Counting
  <2> QED BY <2>3 DEF U
<1> QED BY <1>2

-----------------------------------------------------------------------------
\* FoldLeft

\* f folds the first n lines of the patch, from every set of them.
Folds(f, b, patch, n) ==
  f = [s \in SUBSET (1..n) |-> IF s = {} THEN b ELSE ParseLine(f[s \ {Max(s)}], patch[Max(s)])]

LEMMA FoldExists ==
  ASSUME NEW b, NEW patch
  PROVE  \A n \in Nat : \E f : Folds(f, b, patch, n)
<1> DEFINE T == {n \in Nat : \E f : Folds(f, b, patch, n)}
<1>1. 0 \in T
  <2> DEFINE f == [s \in SUBSET (1..0) |-> b]
  <2>1. \A s \in SUBSET (1..0) : s = {}
    OBVIOUS
  <2>2. Folds(f, b, patch, 0)
    BY <2>1 DEF Folds
  <2> QED BY <2>2
<1>2. ASSUME NEW n \in Nat, n \in T PROVE n + 1 \in T
  <2> PICK f : Folds(f, b, patch, n)
    BY <1>2
  <2> DEFINE g == [s \in SUBSET (1..n + 1) |->
                     IF n + 1 \in s THEN ParseLine(f[s \ {n + 1}], patch[n + 1]) ELSE f[s]]
             F(h, s) == IF s = {} THEN b ELSE ParseLine(h[s \ {Max(s)}], patch[Max(s)])
  <2>1. \A s \in SUBSET (1..n) : f[s] = F(f, s)
    BY DEF Folds
  <2>2. \A s \in SUBSET (1..n) : g[s] = f[s]
    OBVIOUS
  <2>3. ASSUME NEW s \in SUBSET (1..n + 1) PROVE g[s] = F(g, s)
    <3>1. CASE n + 1 \in s
      <4>1. Max(s) = n + 1
        <5>1. \A x \in s : (\A y \in s : x >= y) <=> x = n + 1
          BY <3>1
        <5> QED BY <3>1, <5>1 DEF Max
      <4>2. s \ {n + 1} \in SUBSET (1..n)
        OBVIOUS
      <4>3. g[s] = ParseLine(f[s \ {n + 1}], patch[n + 1])
        BY <3>1
      <4> HIDE DEF g
      <4> QED BY <2>2, <3>1, <4>1, <4>2, <4>3
    <3>2. CASE n + 1 \notin s
      <4>1. s \in SUBSET (1..n)
        BY <3>2
      <4>2. s \ {Max(s)} \in SUBSET (1..n)
        BY <4>1
      <4> HIDE DEF g
      <4> QED BY <2>1, <2>2, <4>1, <4>2
    <3> QED BY <3>1, <3>2
  <2>4. g = [s \in SUBSET (1..n + 1) |-> F(g, s)]
    <3>1. DOMAIN g = SUBSET (1..n + 1)
      OBVIOUS
    <3>2. g = [s \in DOMAIN g |-> g[s]]
      OBVIOUS
    <3> HIDE DEF g
    <3> QED BY <2>3, <3>1, <3>2
  <2> HIDE DEF g
  <2>5. Folds(g, b, patch, n + 1)
    BY <2>4 DEF Folds
  <2> QED BY <2>5
<1> HIDE DEF T
<1>3. \A n \in Nat : n \in T
  BY <1>1, <1>2, Counting
<1> QED BY <1>3 DEF T

\* Two folds agree on what they both fold.
LEMMA FoldsAgree ==
  ASSUME NEW b, NEW p, NEW q, NEW n \in Nat, NEW m \in Nat, n <= m,
         \A i \in 1..n : p[i] = q[i],
         NEW f, Folds(f, b, p, n), NEW g, Folds(g, b, q, m)
  PROVE  f[1..n] = g[1..n]
<1> DEFINE T == {k \in Nat : k <= n => f[1..k] = g[1..k]}
<1>1. 0 \in T
  BY DEF Folds
<1>2. ASSUME NEW k \in Nat, k \in T PROVE k + 1 \in T
  <2> SUFFICES ASSUME k + 1 <= n PROVE f[1..k + 1] = g[1..k + 1]
    OBVIOUS
  <2>1. Max(1..k + 1) = k + 1 /\ (1..k + 1) \ {k + 1} = 1..k /\ 1..k + 1 # {}
    BY DEF Max
  <2>2. 1..k + 1 \in SUBSET (1..n) /\ 1..k + 1 \in SUBSET (1..m)
    OBVIOUS
  <2> DEFINE s == 1..k + 1
  <2>3. f[s] = ParseLine(f[s \ {Max(s)}], p[Max(s)]) /\ g[s] = ParseLine(g[s \ {Max(s)}], q[Max(s)])
    BY <2>1, <2>2 DEF Folds
  <2>4. f[s] = ParseLine(f[1..k], p[k + 1]) /\ g[s] = ParseLine(g[1..k], q[k + 1])
    BY <2>1, <2>3
  <2> QED BY <1>2, <2>3, <2>4
<1> HIDE DEF T
<1>3. n \in T
  BY <1>1, <1>2, Counting
<1> QED BY <1>3 DEF T

Scan(b, patch) == FoldLeft(ParseLine, b, patch)

LEMMA ScanFolds ==
  ASSUME NEW b, NEW n \in Nat, NEW patch, DOMAIN patch = 1..n
  PROVE  \E f : Folds(f, b, patch, n) /\ Scan(b, patch) = f[1..n]
<1> DEFINE f == CHOOSE f : Folds(f, b, patch, n)
<1>1. Folds(f, b, patch, n)
  BY FoldExists
<1>2. Scan(b, patch) = f[1..n]
  BY DEF Scan, FoldLeft, MapThenFoldSet, Folds
<1> QED BY <1>1, <1>2

LEMMA ScanEmpty == ASSUME NEW b PROVE Scan(b, <<>>) = b
<1>1. DOMAIN <<>> = 1..0
  OBVIOUS
<1> PICK f : Folds(f, b, <<>>, 0) /\ Scan(b, <<>>) = f[1..0]
  BY <1>1, ScanFolds
<1> QED BY DEF Folds

LEMMA ScanAppend ==
  ASSUME NEW S, NEW patch \in Seq(S), NEW line \in S, NEW b
  PROVE  Scan(b, Append(patch, line)) = ParseLine(Scan(b, patch), line)
<1> DEFINE n == Len(patch)
           q == Append(patch, line)
<1>1. /\ n \in Nat /\ DOMAIN patch = 1..n /\ DOMAIN q = 1..n + 1
      /\ \A i \in 1..n : patch[i] = q[i]
      /\ q[n + 1] = line
  OBVIOUS
<1> HIDE DEF n, q
<1>2. PICK f : Folds(f, b, patch, n) /\ Scan(b, patch) = f[1..n]
  BY <1>1, ScanFolds
<1>3. PICK g : Folds(g, b, q, n + 1) /\ Scan(b, q) = g[1..n + 1]
  BY <1>1, ScanFolds
<1>4. f[1..n] = g[1..n]
  BY <1>1, <1>2, <1>3, FoldsAgree
<1>5. Max(1..n + 1) = n + 1 /\ (1..n + 1) \ {n + 1} = 1..n /\ 1..n + 1 # {}
  BY <1>1 DEF Max
<1>6. g[1..n + 1] = ParseLine(g[1..n], q[n + 1])
  BY <1>3, <1>5 DEF Folds
<1> QED BY <1>1, <1>2, <1>3, <1>4, <1>6 DEF q

-----------------------------------------------------------------------------
\* FlattenSeq, part by part.
Flattens(f, seqs, n) == f = [i \in 1..n |-> IF i = 1 THEN seqs[i] ELSE f[i - 1] \o seqs[i]]

LEMMA FlattenExists ==
  ASSUME NEW seqs
  PROVE  \A n \in Nat : \E f : Flattens(f, seqs, n)
<1> DEFINE T == {n \in Nat : \E f : Flattens(f, seqs, n)}
<1>1. 0 \in T
  <2> DEFINE f == [i \in 1..0 |-> i]
  <2>1. Flattens(f, seqs, 0)
    BY DEF Flattens
  <2> QED BY <2>1
<1>2. ASSUME NEW n \in Nat, n \in T PROVE n + 1 \in T
  <2> PICK f : Flattens(f, seqs, n)
    BY <1>2
  <2> DEFINE last == IF n + 1 = 1 THEN seqs[n + 1] ELSE f[n] \o seqs[n + 1]
             g == [i \in 1..n + 1 |-> IF i = n + 1 THEN last ELSE f[i]]
             F(h, i) == IF i = 1 THEN seqs[i] ELSE h[i - 1] \o seqs[i]
  <2>1. \A i \in 1..n : f[i] = F(f, i)
    BY DEF Flattens
  <2>2. ASSUME NEW i \in 1..n + 1 PROVE g[i] = F(g, i)
    <3>1. CASE i = 1 /\ n = 0 BY <3>1
    <3>2. CASE i = 1 /\ n # 0 BY <2>1, <3>2
    <3>3. CASE i # 1 /\ i = n + 1
      <4>1. n \in 1..n + 1 /\ n # n + 1 /\ n + 1 # 1 /\ i - 1 = n
        BY <3>3
      <4>2. g[n] = f[n]
        BY <4>1
      <4>3. last = f[n] \o seqs[n + 1]
        BY <4>1
      <4>4. g[n + 1] = last
        <5> HIDE DEF last
        <5> QED BY <4>1
      <4> HIDE DEF g, last
      <4> QED BY <3>3, <4>1, <4>2, <4>3, <4>4
    <3>4. CASE i # 1 /\ i # n + 1
      <4>1. i \in 1..n /\ i - 1 \in 1..n /\ g[i] = f[i] /\ g[i - 1] = f[i - 1]
        BY <3>4
      <4> QED BY <2>1, <3>4, <4>1
    <3> QED BY <3>1, <3>2, <3>3, <3>4
  <2>3. DOMAIN g = 1..n + 1 /\ g = [i \in DOMAIN g |-> g[i]]
    OBVIOUS
  <2> HIDE DEF g
  <2>4. g = [i \in 1..n + 1 |-> F(g, i)]
    BY <2>2, <2>3
  <2>5. Flattens(g, seqs, n + 1)
    BY <2>4 DEF Flattens
  <2> QED BY <2>5
<1> HIDE DEF T
<1>3. \A n \in Nat : n \in T
  BY <1>1, <1>2, Counting
<1> QED BY <1>3 DEF T

\* The first k parts, joined.
Joins(f, seqs, n) ==
  /\ f[0] = <<>> /\ FlattenSeq(seqs) = f[n]
  /\ \A k \in Nat : k < n => f[k + 1] = IF k = 0 THEN seqs[1] ELSE f[k] \o seqs[k + 1]

LEMMA FlattenSteps ==
  ASSUME NEW n \in Nat, NEW seqs, DOMAIN seqs = 1..n, Len(seqs) = n, n = 0 => seqs = <<>>
  PROVE  \E f : Joins(f, seqs, n)
<1> DEFINE f == CHOOSE f : Flattens(f, seqs, n)
           g == [i \in 0..n |-> IF i = 0 THEN <<>> ELSE f[i]]
<1>1. Flattens(f, seqs, n)
  BY FlattenExists
<1>2. n # 0 => FlattenSeq(seqs) = f[n]
  BY DEF FlattenSeq, Flattens
<1>3. n = 0 => FlattenSeq(seqs) = <<>>
  BY DEF FlattenSeq
<1> HIDE DEF f
<1>4. ASSUME NEW k \in Nat, k < n PROVE g[k + 1] = IF k = 0 THEN seqs[1] ELSE g[k] \o seqs[k + 1]
  <2>1. k + 1 \in 1..n /\ g[k + 1] = f[k + 1] /\ (k # 0 => g[k] = f[k])
    BY <1>4
  <2>2. \A i \in 1..n : f[i] = IF i = 1 THEN seqs[i] ELSE f[i - 1] \o seqs[i]
    BY <1>1 DEF Flattens
  <2>3. (k + 1) - 1 = k /\ (k + 1 = 1 <=> k = 0)
    OBVIOUS
  <2> HIDE DEF g
  <2>4. f[k + 1] = IF k = 0 THEN seqs[1] ELSE f[k] \o seqs[k + 1]
    BY <2>1, <2>2, <2>3
  <2> QED BY <2>1, <2>4
<1>5. g[0] = <<>> /\ (n # 0 => g[n] = f[n])
  OBVIOUS
<1> HIDE DEF g
<1> QED BY <1>2, <1>3, <1>4, <1>5 DEF Joins

-----------------------------------------------------------------------------
\* Numbers of the new side.
PatchStep == [is : {"=", "-", "+"}, text : Line]

NewSide(ops, n) == {j \in 1..n : ops[j].is # "-"}

LEMMA NewAtSteps ==
  ASSUME NEW ops
  PROVE  /\ NewAt(ops, 0) = 0
         /\ \A k \in Nat : /\ NewAt(ops, k) \in Nat
                           /\ NewAt(ops, k + 1) = NewAt(ops, k) + IF ops[k + 1].is # "-" THEN 1 ELSE 0
<1>1. NewSide(ops, 0) = {}
  BY DEF NewSide
<1>2. ASSUME NEW k \in Nat
      PROVE  /\ IsFiniteSet(NewSide(ops, k))
             /\ NewSide(ops, k + 1) = IF ops[k + 1].is # "-" THEN NewSide(ops, k) \cup {k + 1} ELSE NewSide(ops, k)
             /\ k + 1 \notin NewSide(ops, k)
  <2>1. IsFiniteSet(1..k) /\ NewSide(ops, k) \in SUBSET (1..k)
    BY FS_Interval DEF NewSide
  <2>2. IsFiniteSet(NewSide(ops, k))
    BY <2>1, FS_Subset
  <2>3. \A j : j \in 1..k + 1 <=> j \in 1..k \/ j = k + 1
    OBVIOUS
  <2>4. k + 1 \notin 1..k
    OBVIOUS
  <2> QED BY <2>2, <2>3, <2>4 DEF NewSide
<1>3. ASSUME NEW k \in Nat
      PROVE  /\ Cardinality(NewSide(ops, k)) \in Nat
             /\ Cardinality(NewSide(ops, k + 1)) =
                  Cardinality(NewSide(ops, k)) + IF ops[k + 1].is # "-" THEN 1 ELSE 0
  <2>1. Cardinality(NewSide(ops, k)) \in Nat
    BY <1>2, FS_CardinalityType
  <2>2. Cardinality(NewSide(ops, k) \cup {k + 1}) = Cardinality(NewSide(ops, k)) + 1
    BY <1>2, FS_AddElement
  <2>3. CASE ops[k + 1].is # "-" BY <1>2, <2>1, <2>2, <2>3
  <2>4. CASE ops[k + 1].is = "-"
    <3>1. NewSide(ops, k + 1) = NewSide(ops, k)
      BY <1>2, <2>4
    <3>2. Cardinality(NewSide(ops, k)) = Cardinality(NewSide(ops, k)) + 0
      BY <2>1
    <3> QED BY <2>1, <2>4, <3>1, <3>2
  <2> QED BY <2>3, <2>4
<1>4. \A k : NewAt(ops, k) = Cardinality(NewSide(ops, k))
  BY DEF NewAt, NewSide
<1> QED BY <1>1, <1>3, <1>4, FS_EmptySet

\* They never go down ...
LEMMA NewAtGrows ==
  ASSUME NEW ops, NEW i \in Nat, NEW j \in Nat, i <= j
  PROVE  NewAt(ops, i) <= NewAt(ops, j)
<1> DEFINE T == {d \in Nat : NewAt(ops, i) <= NewAt(ops, i + d)}
<1>1. 0 \in T
  BY NewAtSteps
<1>2. ASSUME NEW d \in Nat, d \in T PROVE d + 1 \in T
  <2>1. /\ NewAt(ops, i) \in Nat /\ NewAt(ops, i + d) \in Nat
        /\ NewAt(ops, (i + d) + 1) \in {NewAt(ops, i + d), NewAt(ops, i + d) + 1}
    <3>1. i + d \in Nat
      OBVIOUS
    <3> HIDE DEF T
    <3> QED BY <3>1, NewAtSteps
  <2>2. (i + d) + 1 = i + (d + 1)
    OBVIOUS
  <2> QED BY <1>2, <2>1, <2>2
<1> HIDE DEF T
<1>3. j - i \in Nat /\ i + (j - i) = j /\ j - i \in T
  BY <1>1, <1>2, Counting
<1> QED BY <1>3 DEF T

\* ... and leave out none: each is the number of a step of the new side.
LEMMA NewAtHits ==
  ASSUME NEW ops, NEW i \in Nat, NEW j \in Nat, NEW n \in Nat, NewAt(ops, i) < n, n <= NewAt(ops, j)
  PROVE  \E k \in Nat : i < k /\ k <= j /\ ops[k].is # "-" /\ NewAt(ops, k) = n
<1> DEFINE T == {k \in Nat : n <= NewAt(ops, k)}
<1>1. PICK k \in Nat : k \in T /\ k <= j /\ \A x \in Nat : x < k => x \notin T
  BY LeastNumber
<1>2. ASSUME NEW x \in Nat, x <= i PROVE NewAt(ops, x) < n
  <2>1. NewAt(ops, x) <= NewAt(ops, i) /\ NewAt(ops, x) \in Nat /\ NewAt(ops, i) \in Nat
    BY <1>2, NewAtSteps, NewAtGrows
  <2> QED BY <2>1
<1>3. i < k
  BY <1>1, <1>2, NewAtSteps
<1>4. k - 1 \in Nat /\ k - 1 < k /\ (k - 1) + 1 = k
  BY <1>3
<1>5. NewAt(ops, k - 1) < n
  BY <1>1, <1>4, NewAtSteps
<1>6. NewAt(ops, (k - 1) + 1) = NewAt(ops, k - 1) + IF ops[(k - 1) + 1].is # "-" THEN 1 ELSE 0
  BY <1>4, NewAtSteps
<1>7. NewAt(ops, k - 1) \in Nat /\ NewAt(ops, k) \in Nat /\ n <= NewAt(ops, k)
  BY <1>1, <1>4, NewAtSteps
<1>8. ops[k].is # "-" /\ NewAt(ops, k) = n
  BY <1>4, <1>5, <1>6, <1>7
<1> QED BY <1>1, <1>3, <1>8

-----------------------------------------------------------------------------
\* Hunks.
LEMMA HunkEnds ==
  ASSUME NEW len \in Nat, NEW shows \in SUBSET (1..len), NEW k \in shows
  PROVE  /\ HunkEnd(shows, k) \in shows /\ HunkEnd(shows, k) >= k
         /\ k..HunkEnd(shows, k) \subseteq shows /\ HunkEnd(shows, k) + 1 \notin shows
<1> DEFINE T == {x \in Nat : x > k /\ x \notin shows}
<1>1. len + 1 \in T
  OBVIOUS
<1>2. PICK x \in Nat : x \in T /\ \A y \in Nat : y < x => y \notin T
  BY <1>1, LeastNumber
<1>3. x - 1 \in shows /\ x - 1 >= k /\ k..(x - 1) \subseteq shows /\ (x - 1) + 1 \notin shows
  BY <1>2
<1> QED BY <1>3 DEF HunkEnd

LEMMA HunkEndsAt ==
  ASSUME NEW len \in Nat, NEW shows \in SUBSET (1..len), NEW k \in shows,
         NEW b \in shows, b >= k, k..b \subseteq shows, b + 1 \notin shows
  PROVE  HunkEnd(shows, k) = b
<1> DEFINE e == HunkEnd(shows, k)
<1>1. e \in shows /\ e >= k /\ k..e \subseteq shows /\ e + 1 \notin shows
  BY HunkEnds
<1> HIDE DEF e
<1>2. ~ e < b /\ ~ b < e
  BY <1>1
<1>3. e = b
  BY <1>1, <1>2
<1> QED BY <1>3 DEF e

\* Neighbours are in one hunk.
LEMMA SameHunk ==
  ASSUME NEW len \in Nat, NEW shows \in SUBSET (1..len), NEW k \in Nat, k \in shows, k + 1 \in shows
  PROVE  HunkEnd(shows, k + 1) = HunkEnd(shows, k)
<1> DEFINE e == HunkEnd(shows, k)
<1>1. e \in shows /\ e >= k /\ k..e \subseteq shows /\ e + 1 \notin shows
  BY HunkEnds
<1> HIDE DEF e
<1>2. e >= k + 1 /\ (k + 1)..e \subseteq shows
  BY <1>1
<1> QED BY <1>1, <1>2, HunkEndsAt DEF e

\* Every displayed step is in a hunk that begins somewhere.
LEMMA HunkBegins ==
  ASSUME NEW len \in Nat, NEW shows \in SUBSET (1..len), NEW k \in shows
  PROVE  \E a \in shows : a <= k /\ a - 1 \notin shows /\ a..k \subseteq shows /\ k <= HunkEnd(shows, a)
<1> DEFINE T == {x \in Nat : x <= k /\ x # 0 /\ x..k \subseteq shows}
<1>1. k \in Nat /\ k \in T
  OBVIOUS
<1>2. PICK a \in Nat : a \in T /\ \A y \in Nat : y < a => y \notin T
  BY <1>1, LeastNumber
<1>3. a \in shows /\ a <= k /\ a..k \subseteq shows
  BY <1>2
<1>4. a - 1 \notin shows
  <2> SUFFICES ASSUME a - 1 \in shows PROVE FALSE
    OBVIOUS
  <2>1. (a - 1)..k \subseteq shows
    BY <1>3
  <2> QED BY <1>2, <1>3, <2>1
<1> DEFINE e == HunkEnd(shows, a)
<1>5. e \in shows /\ e >= a /\ a..e \subseteq shows /\ e + 1 \notin shows
  BY <1>3, HunkEnds
<1> HIDE DEF e
<1>6. k <= e
  BY <1>3, <1>5
<1> QED BY <1>3, <1>4, <1>6 DEF e

-----------------------------------------------------------------------------
\* The script of a change.

\* ops says what the first n lines of the new side are.
Renders(ops, n, new) ==
  /\ ops \in Seq(PatchStep) /\ n \in Nat /\ NewAt(ops, Len(ops)) = n
  /\ \A k \in 1..Len(ops) : ops[k].is # "-" => NewAt(ops, k) \in 1..n /\ ops[k].text = new[NewAt(ops, k)]

LEMMA NewAtOfPrefix ==
  ASSUME NEW p, NEW q, NEW k \in Nat, \A j \in 1..k : p[j] = q[j]
  PROVE  NewAt(p, k) = NewAt(q, k)
<1>1. {j \in 1..k : p[j].is # "-"} = {j \in 1..k : q[j].is # "-"}
  OBVIOUS
<1> QED BY <1>1 DEF NewAt

LEMMA RendersStep ==
  ASSUME NEW ops, NEW n, NEW new, Renders(ops, n, new), NEW op \in PatchStep,
         op.is # "-" => op.text = new[n + 1]
  PROVE  Renders(Append(ops, op), IF op.is # "-" THEN n + 1 ELSE n, new)
<1> DEFINE q == Append(ops, op)
           l == Len(ops)
<1>1. /\ ops \in Seq(PatchStep) /\ l \in Nat /\ n \in Nat /\ NewAt(ops, l) = n
      /\ \A k \in 1..l : ops[k].is # "-" => NewAt(ops, k) \in 1..n /\ ops[k].text = new[NewAt(ops, k)]
  BY DEF Renders
<1>2. q \in Seq(PatchStep) /\ Len(q) = l + 1 /\ q[l + 1] = op /\ \A j \in 1..l : q[j] = ops[j]
  BY <1>1
<1> HIDE DEF q, l
<1>3. \A k \in 0..l : NewAt(q, k) = NewAt(ops, k)
  <2> TAKE k \in 0..l
  <2>1. k \in Nat /\ \A j \in 1..k : q[j] = ops[j]
    BY <1>1, <1>2
  <2> QED BY <2>1, NewAtOfPrefix
<1>4. NewAt(q, l) = n
  BY <1>1, <1>3
<1>5. NewAt(q, l + 1) = IF op.is # "-" THEN n + 1 ELSE n
  <2>1. NewAt(q, l + 1) = NewAt(q, l) + IF q[l + 1].is # "-" THEN 1 ELSE 0
    BY <1>1, NewAtSteps
  <2>2. CASE op.is # "-" BY <1>2, <1>4, <2>1, <2>2
  <2>3. CASE op.is = "-" BY <1>1, <1>2, <1>4, <2>1, <2>3
  <2> QED BY <2>2, <2>3
<1> DEFINE m == IF op.is # "-" THEN n + 1 ELSE n
<1>6. m \in Nat /\ n <= m /\ (op.is # "-" => m = n + 1)
  BY <1>1
<1> HIDE DEF m
<1>7. ASSUME NEW k \in 1..l + 1, q[k].is # "-"
      PROVE  NewAt(q, k) \in 1..m /\ q[k].text = new[NewAt(q, k)]
  <2>1. CASE k = l + 1
    <3>1. q[k] = op /\ NewAt(q, k) = m
      BY <1>2, <1>5, <2>1 DEF m
    <3> QED BY <1>1, <1>6, <1>7, <3>1
  <2>2. CASE k # l + 1
    <3>1. k \in 1..l /\ k \in 0..l
      BY <1>1, <2>2
    <3>2. q[k] = ops[k] /\ NewAt(q, k) = NewAt(ops, k)
      BY <1>2, <1>3, <3>1
    <3> QED BY <1>1, <1>6, <1>7, <3>1, <3>2
  <2> QED BY <2>1, <2>2
<1>8. NewAt(q, l + 1) = m
  BY <1>5 DEF m
<1>9. Renders(q, m, new)
  BY <1>2, <1>6, <1>7, <1>8 DEF Renders
<1> QED BY <1>9 DEF q, m

LEMMA MarkedLines ==
  ASSUME NEW mark \in {"=", "-", "+"}, NEW lines \in Seq(Line)
  PROVE  /\ Marked(mark, lines) \in Seq(PatchStep) /\ Len(Marked(mark, lines)) = Len(lines)
         /\ \A i \in 1..Len(lines) : Marked(mark, lines)[i] = [is |-> mark, text |-> lines[i]]
<1> DEFINE m == Marked(mark, lines)
           n == Len(lines)
<1>1. n \in Nat /\ DOMAIN m = 1..n /\ \A i \in 1..n : m[i] = [is |-> mark, text |-> lines[i]]
  BY DEF Marked
<1>2. \A i \in 1..n : [is |-> mark, text |-> lines[i]] \in PatchStep
  BY DEF PatchStep
<1>3. m = [i \in 1..n |-> m[i]]
  BY DEF Marked
<1> HIDE DEF m, n
<1>4. m \in [1..n -> PatchStep]
  BY <1>1, <1>2, <1>3
<1>5. m \in Seq(PatchStep)
  BY <1>1, <1>4
<1> QED BY <1>1, <1>5 DEF m, n

\* Lines of one mark.
LEMMA RendersMarked ==
  ASSUME NEW new, NEW mark \in {"=", "-", "+"}, NEW lines \in Seq(Line),
         NEW ops, NEW n, Renders(ops, n, new),
         mark # "-" => \A i \in 1..Len(lines) : lines[i] = new[n + i]
  PROVE  Renders(ops \o Marked(mark, lines), IF mark # "-" THEN n + Len(lines) ELSE n, new)
<1> DEFINE marked == Marked(mark, lines)
           l == Len(lines)
           first(k) == SubSeq(marked, 1, k)
           at(k) == IF mark # "-" THEN n + k ELSE n
           T == {k \in Nat : k <= l => Renders(ops \o first(k), at(k), new)}
<1>1. ops \in Seq(PatchStep) /\ n \in Nat /\ l \in Nat
  BY DEF Renders
<1>2. /\ marked \in Seq(PatchStep) /\ Len(marked) = l
      /\ \A i \in 1..l : marked[i] = [is |-> mark, text |-> lines[i]]
  BY MarkedLines
<1> HIDE DEF marked, l
<1>3. 0 \in T
  <2>1. first(0) = <<>>
    BY SubSeqEmpty
  <2>2. ops \o first(0) = ops
    BY <1>1, <2>1, ConcatEmptySeq
  <2>3. at(0) = n
    BY <1>1
  <2> QED BY <2>2, <2>3
<1>4. ASSUME NEW k \in Nat, k \in T PROVE k + 1 \in T
  <2> SUFFICES ASSUME k + 1 <= l PROVE Renders(ops \o first(k + 1), at(k + 1), new)
    OBVIOUS
  <2> DEFINE op == [is |-> mark, text |-> lines[k + 1]]
  <2>1. k + 1 \in 1..l /\ Renders(ops \o first(k), at(k), new)
    BY <1>1, <1>4
  <2>2. op \in PatchStep /\ marked[k + 1] = op
    <3>1. lines[k + 1] \in Line
      BY <2>1, ElementOfSeq DEF l
    <3> QED BY <1>2, <2>1, <3>1 DEF PatchStep
  <2>3. op.is # "-" => op.text = new[at(k) + 1]
    BY <1>1, <2>1 DEF l
  <2> HIDE DEF op
  <2>4. Renders(Append(ops \o first(k), op), IF op.is # "-" THEN at(k) + 1 ELSE at(k), new)
    BY <2>1, <2>2, <2>3, RendersStep
  <2>5. (IF op.is # "-" THEN at(k) + 1 ELSE at(k)) = at(k + 1)
    BY <1>1 DEF op
  <2>6. Append(ops \o first(k), op) = ops \o first(k + 1)
    <3>1. first(k + 1) = first(k) \o <<op>>
      <4>1. 1 \in 1..Len(marked) /\ k + 1 \in 1..Len(marked) /\ (k + 1) - 1 = k
        BY <1>2, <2>1
      <4> QED BY <1>2, <2>2, <4>1, SubSeqRecursiveSecond
    <3>2. first(k) \in Seq(PatchStep)
      <4>1. \A i \in 1..k : marked[i] \in PatchStep
        BY <1>2, <2>1
      <4> QED BY <4>1, SubSeqProperties
    <3>3. <<op>> \in Seq(PatchStep)
      BY <2>2
    <3>4. ops \o (first(k) \o <<op>>) = (ops \o first(k)) \o <<op>>
      BY <1>1, <3>2, <3>3, ConcatAssociative
    <3>5. ops \o first(k) \in Seq(PatchStep)
      BY <1>1, <3>2
    <3>6. Append(ops \o first(k), op) = (ops \o first(k)) \o <<op>>
      BY <2>2, <3>5, AppendIsConcat
    <3> QED BY <3>1, <3>4, <3>6
  <2> QED BY <2>4, <2>5, <2>6
<1> HIDE DEF T
<1>5. l \in T
  BY <1>1, <1>3, <1>4, Counting
<1>6. Renders(ops \o first(l), at(l), new)
  BY <1>1, <1>5 DEF T
<1>7. first(l) = marked
  BY <1>2, SubSeqFull
<1> QED BY <1>6, <1>7 DEF marked, l

LEMMA RendersNothing == ASSUME NEW new PROVE Renders(<<>>, 0, new)
  BY NewAtSteps DEF Renders

LEMMA TwoLines ==
  ASSUME NEW S, NEW a \in S, NEW b \in S
  PROVE  <<a>> \o <<b>> = <<a, b>>
<1> DEFINE s == <<a>> \o <<b>>
           t == <<a, b>>
<1>1. <<a>> \in Seq(S) /\ <<b>> \in Seq(S) /\ Len(<<a>>) = 1 /\ Len(<<b>>) = 1
  OBVIOUS
<1>2. s \in Seq(S) /\ Len(s) = 2 /\ s[1] = a /\ s[2] = b
  BY <1>1, ConcatProperties
<1>3. t \in Seq(S) /\ Len(t) = 2 /\ t[1] = a /\ t[2] = b
  OBVIOUS
<1> HIDE DEF s, t
<1>4. \A i \in 1..Len(s) : s[i] = t[i]
  BY <1>2, <1>3
<1>5. s = t
  BY <1>2, <1>3, <1>4, SeqEqual
<1> QED BY <1>5 DEF s, t

\* Two lines after a sequence.
LEMMA TwoMore ==
  ASSUME NEW S, NEW seq \in Seq(S), NEW a \in S, NEW b \in S
  PROVE  Append(seq, a) \in Seq(S) /\ Append(Append(seq, a), b) = seq \o <<a, b>>
<1>1. Append(seq, a) \in Seq(S) /\ Append(seq, a) = seq \o <<a>>
  BY AppendIsConcat
<1>2. Append(Append(seq, a), b) = (seq \o <<a>>) \o <<b>>
  BY <1>1, AppendIsConcat
<1>3. (seq \o <<a>>) \o <<b>> = seq \o (<<a>> \o <<b>>)
  BY ConcatAssociative
<1> QED BY <1>1, <1>2, <1>3, TwoLines

LEMMA ScriptOfSame ==
  ASSUME NEW old \in Seq(Line), NEW new \in Seq(Line), Len(old) = Len(new)
  PROVE  Renders(FlattenSeq(Same(old, new)), Len(new), new)
<1> DEFINE n == Len(new)
           seqs == Same(old, new)
<1>1. n \in Nat /\ DOMAIN seqs = 1..n /\ Len(seqs) = n /\ (n = 0 => seqs = <<>>)
  <2>1. n \in Nat /\ DOMAIN seqs = 1..n /\ seqs = [k \in 1..n |-> seqs[k]]
    BY DEF Same
  <2> HIDE DEF n, seqs
  <2>2. Len(seqs) = n
    BY <2>1
  <2>3. seqs \in Seq({seqs[k] : k \in 1..n})
    BY <2>1
  <2> QED BY <2>1, <2>2, <2>3, EmptySeq
<1>2. \A k \in 1..n : seqs[k] = IF old[k] = new[k] THEN <<[is |-> "=", text |-> new[k]]>>
                                 ELSE <<[is |-> "-", text |-> old[k]], [is |-> "+", text |-> new[k]]>>
  BY DEF Same
<1>3. \A k \in 1..n : new[k] \in Line /\ old[k] \in Line
  OBVIOUS
<1> HIDE DEF n, seqs
<1>j. PICK f : Joins(f, seqs, n)
  BY <1>1, FlattenSteps
<1>4. /\ f[0] = <<>> /\ FlattenSeq(seqs) = f[n]
      /\ \A k \in Nat : k < n => f[k + 1] = IF k = 0 THEN seqs[1] ELSE f[k] \o seqs[k + 1]
  BY <1>j DEF Joins
<1> DEFINE T == {k \in Nat : k <= n => Renders(f[k], k, new)}
<1>5. 0 \in T
  BY <1>4, RendersNothing
<1>6. ASSUME NEW k \in Nat, k \in T PROVE k + 1 \in T
  <2> SUFFICES ASSUME k + 1 <= n PROVE Renders(f[k + 1], k + 1, new)
    OBVIOUS
  <2> DEFINE kept == [is |-> "=", text |-> new[k + 1]]
             gone == [is |-> "-", text |-> old[k + 1]]
             come == [is |-> "+", text |-> new[k + 1]]
  <2>1. k + 1 \in 1..n /\ Renders(f[k], k, new)
    BY <1>1, <1>6
  <2>2. kept \in PatchStep /\ gone \in PatchStep /\ come \in PatchStep
    BY <1>3, <2>1 DEF PatchStep
  <2>3. f[k] \in Seq(PatchStep)
    BY <2>1 DEF Renders
  <2>4. f[k + 1] = f[k] \o seqs[k + 1]
    <3>1. seqs[k + 1] \in Seq(PatchStep)
      <4>1. CASE old[k + 1] = new[k + 1]
        <5>1. seqs[k + 1] = <<kept>>
          BY <1>2, <2>1, <4>1
        <5> HIDE DEF kept
        <5> QED BY <2>2, <5>1
      <4>2. CASE old[k + 1] # new[k + 1]
        <5>1. seqs[k + 1] = <<gone, come>>
          BY <1>2, <2>1, <4>2
        <5> HIDE DEF gone, come
        <5> QED BY <2>2, <5>1
      <4> QED BY <4>1, <4>2
    <3>2. f[k + 1] = IF k = 0 THEN seqs[1] ELSE f[k] \o seqs[k + 1]
      BY <1>1, <1>4, <2>1
    <3>3. CASE k = 0
      <4>1. f[k + 1] = seqs[k + 1] /\ f[k] = <<>>
        BY <1>4, <3>2, <3>3
      <4> QED BY <3>1, <4>1
    <3>4. CASE k # 0 BY <3>2, <3>4
    <3> QED BY <3>3, <3>4
  <2>5. CASE old[k + 1] = new[k + 1]
    <3>1. seqs[k + 1] = <<kept>>
      BY <1>2, <2>1, <2>5
    <3>2. f[k + 1] = Append(f[k], kept)
      <4> HIDE DEF kept
      <4> QED BY <2>2, <2>3, <2>4, <3>1
    <3>3. Renders(Append(f[k], kept), IF kept.is # "-" THEN k + 1 ELSE k, new)
      BY <2>1, <2>2, RendersStep
    <3> QED BY <3>2, <3>3
  <2>6. CASE old[k + 1] # new[k + 1]
    <3>1. seqs[k + 1] = <<gone, come>>
      BY <1>2, <2>1, <2>6
    <3>2. f[k + 1] = Append(Append(f[k], gone), come)
      <4> HIDE DEF gone, come
      <4> QED BY <2>2, <2>3, <2>4, <3>1, TwoMore
    <3>3. Renders(Append(f[k], gone), IF gone.is # "-" THEN k + 1 ELSE k, new)
      BY <2>1, <2>2, RendersStep
    <3>4. Renders(Append(f[k], gone), k, new)
      BY <3>3
    <3>5. Renders(Append(Append(f[k], gone), come), IF come.is # "-" THEN k + 1 ELSE k, new)
      BY <2>2, <3>4, RendersStep
    <3> QED BY <3>2, <3>5
  <2> QED BY <2>5, <2>6
<1> HIDE DEF T
<1>7. n \in T
  BY <1>1, <1>5, <1>6, Counting
<1> QED BY <1>1, <1>4, <1>7 DEF T, n, seqs

LEMMA CommonPrefixFits ==
  ASSUME NEW old \in Seq(Line), NEW new \in Seq(Line)
  PROVE  Len(LongestCommonPrefix({old, new})) \in 0..Len(new)
<1> DEFINE C == CommonPrefixes({old, new})
           n == Len(new)
           T == {d \in Nat : \E c \in C : Len(c) = n - d}
<1>1. \A c \in C : Len(c) \in 0..n
  BY DEF CommonPrefixes, IsPrefix, Prefixes
<1>2. <<>> \in C
  BY DEF CommonPrefixes, IsPrefix, Prefixes
<1>3. n \in T
  BY <1>2
<1> HIDE DEF C
<1>4. n \in Nat
  OBVIOUS
<1> HIDE DEF n, T
<1>5. PICK d \in Nat : d \in T /\ \A e \in Nat : e < d => e \notin T
  BY <1>3, <1>4, LeastNumber
<1>6. PICK c \in C : Len(c) = n - d
  BY <1>5 DEF T
<1>7. ASSUME NEW o \in C PROVE Len(o) <= Len(c)
  <2>1. Len(o) \in 0..n /\ Len(c) \in 0..n
    BY <1>1
  <2>2. n - Len(o) \in Nat /\ n - Len(o) \in T
    BY <1>4, <2>1 DEF T
  <2> QED BY <1>4, <1>5, <1>6, <2>1, <2>2
<1>8. LongestCommonPrefix({old, new}) \in C
  BY <1>7 DEF LongestCommonPrefix, C
<1> QED BY <1>1, <1>8 DEF n

LEMMA ScriptRenders ==
  ASSUME NEW old \in Seq(Line), NEW new \in Seq(Line)
  PROVE  Renders(Script(old, new), Len(new), new)
<1>1. CASE Len(old) = Len(new)
  BY <1>1, ScriptOfSame DEF Script
<1>2. CASE Len(old) # Len(new)
  <2> DEFINE p == Len(LongestCommonPrefix({old, new}))
             n == Len(new)
             head == SubSeq(new, 1, p)
             gone == SubSeq(old, p + 1, Len(old))
             come == SubSeq(new, p + 1, n)
             one == Marked("=", head)
             two == Marked("-", gone)
             three == Marked("+", come)
  <2>1. p \in 0..n /\ n \in Nat /\ Len(old) \in Nat
    BY CommonPrefixFits
  <2>2. Script(old, new) = one \o two \o three
    BY <1>2 DEF Script
  <2> HIDE DEF p, n
  <2>3. head \in Seq(Line) /\ Len(head) = p /\ \A i \in 1..p : head[i] = new[i]
    <3>1. \A i \in 1..p : new[i] \in Line
      BY <2>1 DEF n
    <3>2. p \in Int /\ 1 \in Int
      BY <2>1
    <3>3. Len(head) = IF 1 <= p THEN p - 1 + 1 ELSE 0
      BY <3>1, <3>2, SubSeqProperties
    <3>4. head \in Seq(Line) /\ \A i \in 1..p - 1 + 1 : head[i] = new[1 + i - 1]
      BY <3>1, <3>2, SubSeqProperties
    <3> HIDE DEF head
    <3> QED BY <2>1, <3>3, <3>4
  <2>4. gone \in Seq(Line)
    <3>1. \A i \in p + 1..Len(old) : old[i] \in Line
      BY <2>1
    <3>2. p + 1 \in Int /\ Len(old) \in Int
      BY <2>1
    <3> QED BY <3>1, <3>2, SubSeqProperties
  <2>5. come \in Seq(Line) /\ Len(come) = n - p /\ \A i \in 1..n - p : come[i] = new[p + i]
    <3>1. \A i \in p + 1..n : new[i] \in Line
      BY <2>1 DEF n
    <3>2. p + 1 \in Int /\ n \in Int
      BY <2>1
    <3>3. Len(come) = IF p + 1 <= n THEN n - (p + 1) + 1 ELSE 0
      BY <3>1, <3>2, SubSeqProperties
    <3>4. come \in Seq(Line) /\ \A i \in 1..n - (p + 1) + 1 : come[i] = new[p + 1 + i - 1]
      BY <3>1, <3>2, SubSeqProperties
    <3> HIDE DEF come
    <3>5. \A i \in 1..n - p : p + 1 + i - 1 = p + i
      BY <2>1
    <3>6. n - (p + 1) + 1 = n - p
      BY <2>1
    <3> QED BY <2>1, <3>3, <3>4, <3>5, <3>6
  <2>6. one \in Seq(PatchStep)
    BY <2>3, MarkedLines
  <2> HIDE DEF head, gone, come
  <2>7. Renders(one, p, new)
    <3>1. \A i \in 1..Len(head) : head[i] = new[0 + i]
      BY <2>3
    <3>2. Renders(<<>> \o one, 0 + Len(head), new)
      BY <2>3, <3>1, RendersNothing, RendersMarked
    <3>3. <<>> \o one = one /\ 0 + Len(head) = p
      BY <2>1, <2>3, <2>6, ConcatEmptySeq
    <3> QED BY <3>2, <3>3
  <2>8. Renders(one \o two, p, new)
    BY <2>4, <2>7, RendersMarked
  <2>9. Renders((one \o two) \o three, p + Len(come), new)
    BY <2>5, <2>8, RendersMarked
  <2>10. p + Len(come) = n
    BY <2>1, <2>5
  <2> QED BY <2>2, <2>9, <2>10 DEF n
<1> QED BY <1>1, <1>2

-----------------------------------------------------------------------------
\* The lines of a patch.
HeaderLine == [is : {"@@"}, count : Nat, start : Nat]
PatchLine == PatchStep \cup HeaderLine \cup [is : {"diff --git", "---", "+++"}]

LEMMA DisplayedSteps == ASSUME NEW ops PROVE Displayed(ops) \subseteq DOMAIN ops
  BY DEF Displayed

\* The header of the hunk that begins at step k counts the lines of the new side in it.
LEMMA HeaderCounts ==
  ASSUME NEW S, NEW ops \in Seq(S), NEW k \in Displayed(ops)
  PROVE  LET before == NewAt(ops, k - 1)
             last == NewAt(ops, HunkEnd(Displayed(ops), k))
         IN /\ before \in Nat /\ last \in Nat /\ before <= last
            /\ Header(ops, k) \in HeaderLine /\ Header(ops, k).count = last - before
            /\ before < last => Header(ops, k).start = before + 1
<1> DEFINE e == HunkEnd(Displayed(ops), k)
           before == NewAt(ops, k - 1)
           last == NewAt(ops, e)
<1>1. Len(ops) \in Nat /\ Displayed(ops) \in SUBSET (1..Len(ops))
  BY DisplayedSteps
<1>2. e \in Displayed(ops) /\ e >= k
  BY <1>1, HunkEnds
<1> HIDE DEF e
<1>3. e \in Nat /\ k - 1 \in Nat /\ k - 1 <= e
  BY <1>1, <1>2
<1>4. before \in Nat /\ last \in Nat /\ before <= last
  BY <1>3, NewAtSteps, NewAtGrows
<1>5. Header(ops, k) = [is |-> "@@", count |-> last - before,
                        start |-> IF last - before = 0 THEN last ELSE before + 1]
  BY DEF Header, e
<1> HIDE DEF before, last
<1>6. Header(ops, k) \in HeaderLine /\ Header(ops, k).count = last - before
      /\ (before < last => Header(ops, k).start = before + 1)
  BY <1>4, <1>5 DEF HeaderLine
<1> QED BY <1>4, <1>6 DEF before, last, e

LEMMA PatchParts ==
  ASSUME NEW ops \in Seq(PatchStep), NEW k \in 1..Len(ops)
  PROVE  Printed(ops, k) \in Seq(PatchLine)
<1>1. ops[k] \in PatchLine
  BY ElementOfSeq DEF PatchLine
<1>2. k \in Displayed(ops) => Header(ops, k) \in PatchLine
  BY HeaderCounts DEF PatchLine
<1>3. CASE k \notin Displayed(ops) BY <1>3 DEF Printed
<1>4. CASE k \in Displayed(ops) /\ k - 1 \in Displayed(ops)
  <2>1. Printed(ops, k) = <<ops[k]>>
    BY <1>4 DEF Printed
  <2> QED BY <1>1, <2>1
<1>5. CASE k \in Displayed(ops) /\ k - 1 \notin Displayed(ops)
  <2>1. Printed(ops, k) = <<Header(ops, k), ops[k]>>
    BY <1>5 DEF Printed
  <2> QED BY <1>1, <1>2, <1>5, <2>1
<1> QED BY <1>3, <1>4, <1>5

\* What the scanner is at, one file open.
ScanAt(file, at, scanning) == [files |-> <<file>>, open |-> TRUE, at |-> at, scanning |-> scanning]
File(ranges, lines) == [ranges |-> ranges, lines |-> lines]

LEMMA HeaderScans ==
  ASSUME NEW line \in HeaderLine, NEW ranges, NEW lines, NEW at \in Nat, NEW s \in BOOLEAN
  PROVE  ParseLine(ScanAt(File(ranges, lines), at, s), line) =
           ScanAt(File(IF line.count > 0 THEN ranges \cup {<<line.start, line.start + line.count - 1>>} ELSE ranges,
                   lines), line.start, FALSE)
<1> DEFINE st == ScanAt(File(ranges, lines), at, s)
           r == ranges \cup {<<line.start, line.start + line.count - 1>>}
<1>1. line.is = "@@"
  BY DEF HeaderLine
<1>2. ParseLine(st, line) = StartHunk(st, line)
  BY <1>1 DEF ParseLine, BeginsLike
<1>3. CASE line.count > 0
  <2>1. StartHunk(st, line) = [st EXCEPT !.scanning = FALSE, !.at = line.start,
                                         !.files = PutRange(st.files, <<line.start, line.start + line.count - 1>>)]
    BY <1>3 DEF StartHunk, ScanAt
  <2>2. PutRange(st.files, <<line.start, line.start + line.count - 1>>) = <<File(r, lines)>>
    <3> DEFINE fs == st.files
    <3>1. Len(fs) = 1 /\ fs = <<File(ranges, lines)>> /\ fs[1].ranges = ranges
      BY DEF ScanAt, File
    <3> HIDE DEF fs
    <3>2. PutRange(fs, <<line.start, line.start + line.count - 1>>) = [fs EXCEPT ![1].ranges = r]
      BY <3>1 DEF PutRange
    <3> HIDE DEF r
    <3>3. [fs EXCEPT ![1].ranges = r] = <<File(r, lines)>>
      BY <3>1 DEF File
    <3> QED BY <3>2, <3>3 DEF fs
  <2> HIDE DEF r
  <2>3. StartHunk(st, line) = ScanAt(File(r, lines), line.start, FALSE)
    BY <2>1, <2>2 DEF ScanAt
  <2> QED BY <1>2, <1>3, <2>3 DEF r
<1>4. CASE ~ line.count > 0
  <2>1. StartHunk(st, line) = [st EXCEPT !.scanning = FALSE, !.at = line.start, !.files = st.files]
    BY <1>4 DEF StartHunk, ScanAt
  <2>2. StartHunk(st, line) = ScanAt(File(ranges, lines), line.start, FALSE)
    BY <2>1 DEF ScanAt
  <2> QED BY <1>2, <1>4, <2>2
<1> QED BY <1>3, <1>4

LEMMA StepBeginsLike ==
  ASSUME NEW line \in PatchStep
  PROVE  BeginsLike(line) \in {"=", "-", "+", "---", "+++"}
  BY DEF BeginsLike, PatchStep

LEMMA RemovedScans ==
  ASSUME NEW line \in PatchStep, line.is = "-", NEW file, NEW at
  PROVE  ParseLine(ScanAt(file, at, FALSE), line) = ScanAt(file, at, FALSE)
<1>1. ParseLine(ScanAt(file, at, FALSE), line) =
        IF TRUE /\ at # 0 /\ line.is \in {"+", "="} THEN PutLine(ScanAt(file, at, FALSE), line) ELSE ScanAt(file, at, FALSE)
  BY StepBeginsLike DEF ParseLine, ScanAt
<1> QED BY <1>1

\* The lines of the numbers N.
LinesOf(new, N) == [n \in N |-> new[n]]

\* The line of number at is put with them.
Puts(line, ranges, new, N, at) ==
  ParseLine(ScanAt(File(ranges, LinesOf(new, N)), at, FALSE), line)
    = ScanAt(File(ranges, LinesOf(new, N \cup {at})), at + 1, FALSE)

LEMMA LineScans ==
  ASSUME NEW line \in PatchStep, line.is # "-", NEW ranges, NEW new, NEW N, NEW at \in Nat, at # 0, line.text = new[at]
  PROVE  Puts(line, ranges, new, N, at)
<1> DEFINE lines == LinesOf(new, N)
           st == ScanAt(File(ranges, lines), at, FALSE)
           l == [n \in DOMAIN lines \cup {at} |-> IF n = at THEN line.text ELSE lines[n]]
<1>1. line.is \in {"+", "="}
  BY DEF PatchStep
<1>2. ParseLine(st, line) = PutLine(st, line)
  BY <1>1, StepBeginsLike DEF ParseLine, ScanAt
<1>3. st.at = at /\ Len(st.files) = 1 /\ st.files[1].lines = lines
  BY DEF ScanAt, File
<1>4. [st.files EXCEPT ![1].lines = l] = <<File(ranges, l)>>
  <2> HIDE DEF l
  <2> QED BY DEF ScanAt, File
<1>5. PutLine(st, line) = [st EXCEPT !.at = at + 1, !.files = <<File(ranges, l)>>]
  <2>1. PutLine(st, line) = [st EXCEPT !.at = at + 1, !.files = [st.files EXCEPT ![1].lines = l]]
    BY <1>3 DEF PutLine
  <2> QED BY <1>4, <2>1
<1>6. l = LinesOf(new, N \cup {at})
  BY DEF LinesOf
<1> HIDE DEF l
<1>7. PutLine(st, line) = ScanAt(File(ranges, l), at + 1, FALSE)
  BY <1>5 DEF ScanAt
<1> QED BY <1>2, <1>6, <1>7 DEF Puts

\* What the first k steps of a script display of the new side: numbers, lines and ranges.
Numbers(ops, k) == {NewAt(ops, j) : j \in {i \in Displayed(ops) : i <= k /\ ops[i].is # "-"}}
Told(ops, new, k) == LinesOf(new, Numbers(ops, k))
LastOf(ops, a) == NewAt(ops, HunkEnd(Displayed(ops), a))
Begun(ops, k) ==
  {a \in Displayed(ops) : a <= k /\ a - 1 \notin Displayed(ops) /\ NewAt(ops, a - 1) < LastOf(ops, a)}
Ranges(ops, k) == {<<NewAt(ops, a - 1) + 1, LastOf(ops, a)>> : a \in Begun(ops, k)}

LEMMA NumbersGrow ==
  ASSUME NEW ops, NEW len \in Nat, Displayed(ops) \in SUBSET (1..len), NEW k \in Nat
  PROVE  /\ k + 1 \in Displayed(ops) /\ ops[k + 1].is # "-"
              => Numbers(ops, k + 1) = Numbers(ops, k) \cup {NewAt(ops, k + 1)}
         /\ k + 1 \notin Displayed(ops) \/ ops[k + 1].is = "-" => Numbers(ops, k + 1) = Numbers(ops, k)
<1> DEFINE I(m) == {i \in Displayed(ops) : i <= m /\ ops[i].is # "-"}
<1>1. \A i \in Displayed(ops) : i <= k + 1 <=> i <= k \/ i = k + 1
  OBVIOUS
<1>2. k + 1 \in Displayed(ops) /\ ops[k + 1].is # "-" => I(k + 1) = I(k) \cup {k + 1}
  BY <1>1
<1>3. k + 1 \notin Displayed(ops) \/ ops[k + 1].is = "-" => I(k + 1) = I(k)
  BY <1>1
<1>4. \A m : Numbers(ops, m) = {NewAt(ops, j) : j \in I(m)}
  BY DEF Numbers
<1> HIDE DEF I
<1> QED BY <1>2, <1>3, <1>4

LEMMA RangesGrow ==
  ASSUME NEW ops, NEW len \in Nat, Displayed(ops) \in SUBSET (1..len), NEW k \in Nat
  PROVE  /\ /\ k + 1 \in Displayed(ops) /\ k \notin Displayed(ops) /\ NewAt(ops, k) < LastOf(ops, k + 1)
            => Ranges(ops, k + 1) = Ranges(ops, k) \cup {<<NewAt(ops, k) + 1, LastOf(ops, k + 1)>>}
         /\ k + 1 \notin Displayed(ops) \/ k \in Displayed(ops) \/ ~(NewAt(ops, k) < LastOf(ops, k + 1))
            => Ranges(ops, k + 1) = Ranges(ops, k)
<1>1. \A i \in Displayed(ops) : i <= k + 1 <=> i <= k \/ i = k + 1
  OBVIOUS
<1>2. (k + 1) - 1 = k
  OBVIOUS
<1>3. k + 1 \in Displayed(ops) /\ k \notin Displayed(ops) /\ NewAt(ops, k) < LastOf(ops, k + 1)
        => Begun(ops, k + 1) = Begun(ops, k) \cup {k + 1}
  BY <1>1, <1>2 DEF Begun
<1>4. k + 1 \notin Displayed(ops) \/ k \in Displayed(ops) \/ ~(NewAt(ops, k) < LastOf(ops, k + 1))
        => Begun(ops, k + 1) = Begun(ops, k)
  BY <1>1, <1>2 DEF Begun
<1>5. \A m : Ranges(ops, m) = {<<NewAt(ops, a - 1) + 1, LastOf(ops, a)>> : a \in Begun(ops, m)}
  BY DEF Ranges
<1> DEFINE range(a) == <<NewAt(ops, a - 1) + 1, LastOf(ops, a)>>
<1>6. range(k + 1) = <<NewAt(ops, k) + 1, LastOf(ops, k + 1)>>
  BY <1>2
<1>7. \A m : Ranges(ops, m) = {range(a) : a \in Begun(ops, m)}
  BY <1>5
<1> HIDE DEF range
<1> QED BY <1>3, <1>4, <1>6, <1>7

\* A displayed step is read, its hunk's header having been.
NextAt(ops, k, at) == IF ops[k + 1].is # "-" THEN at + 1 ELSE at

ReadsLine(ops, new, k, ranges, at) ==
  /\ NextAt(ops, k, at) \in Nat
  /\ NewAt(ops, k + 1) < LastOf(ops, k + 1) => NextAt(ops, k, at) = NewAt(ops, k + 1) + 1
  /\ ParseLine(ScanAt(File(ranges, Told(ops, new, k)), at, FALSE), ops[k + 1])
       = ScanAt(File(ranges, Told(ops, new, k + 1)), NextAt(ops, k, at), FALSE)

LEMMA ReadLine ==
  ASSUME NEW ops, NEW n, NEW new, Renders(ops, n, new), NEW k \in Nat, k + 1 \in Displayed(ops),
         NEW ranges, NEW at \in Nat,
         NewAt(ops, k) < LastOf(ops, k + 1) => at = NewAt(ops, k) + 1
  PROVE  ReadsLine(ops, new, k, ranges, at)
<1> DEFINE line == ops[k + 1]
           st == ScanAt(File(ranges, Told(ops, new, k)), at, FALSE)
<1>1. ops \in Seq(PatchStep) /\ Len(ops) \in Nat /\ DOMAIN ops = 1..Len(ops)
  BY DEF Renders
<1>2. Displayed(ops) \in SUBSET (1..Len(ops))
  BY <1>1, DisplayedSteps
<1>3. k + 1 \in 1..Len(ops) /\ line \in PatchStep
  BY <1>1, <1>2
<1>4. /\ NewAt(ops, k) \in Nat /\ NewAt(ops, k + 1) \in Nat
      /\ NewAt(ops, k + 1) = NewAt(ops, k) + IF line.is # "-" THEN 1 ELSE 0
  BY NewAtSteps
<1>5. LastOf(ops, k + 1) \in Nat /\ NewAt(ops, k + 1) <= LastOf(ops, k + 1)
  <2> DEFINE e == HunkEnd(Displayed(ops), k + 1)
  <2>1. e \in Displayed(ops) /\ e >= k + 1
    BY <1>1, <1>2, HunkEnds
  <2> HIDE DEF e
  <2>2. e \in Nat /\ k + 1 <= e
    BY <1>2, <2>1
  <2> QED BY <2>2, NewAtSteps, NewAtGrows DEF LastOf, e
<1>6. CASE line.is = "-"
  <2>1. NewAt(ops, k + 1) = NewAt(ops, k)
    BY <1>4, <1>6
  <2>2. ParseLine(st, line) = st
    BY <1>3, <1>6, RemovedScans
  <2>3. Told(ops, new, k + 1) = Told(ops, new, k)
    <3>1. Numbers(ops, k + 1) = Numbers(ops, k)
      BY <1>1, <1>2, <1>6, NumbersGrow
    <3> QED BY <3>1 DEF Told
  <2>4. ParseLine(st, line) = ScanAt(File(ranges, Told(ops, new, k + 1)), at, FALSE)
    BY <2>2, <2>3
  <2>5. NewAt(ops, k + 1) < LastOf(ops, k + 1) => at = NewAt(ops, k + 1) + 1
    BY <2>1
  <2> HIDE DEF st, line
  <2> QED BY <1>6, <2>4, <2>5 DEF st, line, ReadsLine, NextAt
<1>7. CASE line.is # "-"
  <2>1. NewAt(ops, k + 1) = NewAt(ops, k) + 1 /\ line.text = new[NewAt(ops, k + 1)]
    BY <1>3, <1>4, <1>7 DEF Renders
  <2>2. at = NewAt(ops, k + 1) /\ at # 0 /\ line.text = new[at]
    BY <1>4, <1>5, <2>1
  <2>3. ParseLine(st, line) = ScanAt(File(ranges, LinesOf(new, Numbers(ops, k) \cup {at})), at + 1, FALSE)
    <3> HIDE DEF line
    <3>1. Puts(line, ranges, new, Numbers(ops, k), at)
      BY <1>3, <1>7, <2>2, LineScans
    <3> QED BY <3>1 DEF Told, Puts
  <2>4. Numbers(ops, k + 1) = Numbers(ops, k) \cup {at}
    BY <1>1, <1>2, <1>7, <2>2, NumbersGrow
  <2>5. ParseLine(st, line) = ScanAt(File(ranges, Told(ops, new, k + 1)), at + 1, FALSE)
    BY <2>3, <2>4 DEF Told
  <2>6. at + 1 \in Nat /\ at + 1 = NewAt(ops, k + 1) + 1
    BY <2>2
  <2> HIDE DEF st, line
  <2> QED BY <1>7, <2>5, <2>6 DEF st, line, ReadsLine, NextAt
<1> QED BY <1>6, <1>7

\* What a scanner has that has read the first k steps of the patch of a script.
ReadsTo(st, ops, new, k) ==
  \E at \in Nat, s \in BOOLEAN :
    /\ st = ScanAt(File(Ranges(ops, k), Told(ops, new, k)), at, s)
    /\ k \in Displayed(ops) => ~s /\ (NewAt(ops, k) < LastOf(ops, k) => at = NewAt(ops, k) + 1)

LEMMA ReadPart ==
  ASSUME NEW ops, NEW n, NEW new, Renders(ops, n, new), NEW k \in Nat, k + 1 <= Len(ops),
         NEW patch \in Seq(PatchLine), ReadsTo(Scan(Scanner, patch), ops, new, k)
  PROVE  ReadsTo(Scan(Scanner, patch \o Printed(ops, k + 1)), ops, new, k + 1)
<1> DEFINE st == Scan(Scanner, patch)
           line == ops[k + 1]
<1>1. ops \in Seq(PatchStep) /\ Len(ops) \in Nat /\ DOMAIN ops = 1..Len(ops)
  BY DEF Renders
<1>2. Displayed(ops) \in SUBSET (1..Len(ops))
  BY <1>1, DisplayedSteps
<1>3. line \in PatchLine
  <2>1. k + 1 \in 1..Len(ops)
    BY <1>1
  <2> QED BY <1>1, <2>1, ElementOfSeq DEF PatchLine
<1>4. PICK at \in Nat, s \in BOOLEAN :
        /\ st = ScanAt(File(Ranges(ops, k), Told(ops, new, k)), at, s)
        /\ k \in Displayed(ops) => ~s /\ (NewAt(ops, k) < LastOf(ops, k) => at = NewAt(ops, k) + 1)
  BY DEF ReadsTo
<1>5. (k + 1) - 1 = k
  OBVIOUS
<1> HIDE DEF st, line
<1>6. CASE k + 1 \notin Displayed(ops)
  <2>1. patch \o Printed(ops, k + 1) = patch
    BY <1>6, ConcatEmptySeq DEF Printed
  <2>2. Ranges(ops, k + 1) = Ranges(ops, k)
    BY <1>1, <1>2, <1>6, RangesGrow
  <2>3. Told(ops, new, k + 1) = Told(ops, new, k)
    <3>1. Numbers(ops, k + 1) = Numbers(ops, k)
      BY <1>1, <1>2, <1>6, NumbersGrow
    <3> QED BY <3>1 DEF Told
  <2> QED BY <1>4, <1>6, <2>1, <2>2, <2>3 DEF ReadsTo, st
<1>7. CASE k + 1 \in Displayed(ops) /\ k \in Displayed(ops)
  <2>1. Printed(ops, k + 1) = <<line>>
    BY <1>5, <1>7 DEF Printed, line
  <2>2. patch \o Printed(ops, k + 1) = Append(patch, line)
    BY <1>3, <2>1, AppendIsConcat
  <2>3. Scan(Scanner, patch \o Printed(ops, k + 1)) = ParseLine(st, line)
    BY <1>3, <2>2, ScanAppend DEF st
  <2>4. Ranges(ops, k + 1) = Ranges(ops, k)
    BY <1>1, <1>2, <1>7, RangesGrow
  <2>5. LastOf(ops, k + 1) = LastOf(ops, k)
    BY <1>1, <1>2, <1>7, SameHunk DEF LastOf
  <2>6. s = FALSE /\ (NewAt(ops, k) < LastOf(ops, k + 1) => at = NewAt(ops, k) + 1)
    BY <1>4, <1>7, <2>5
  <2> DEFINE next == NextAt(ops, k, at)
  <2>7. ReadsLine(ops, new, k, Ranges(ops, k), at)
    BY <1>7, <2>6, ReadLine
  <2>8. Scan(Scanner, patch \o Printed(ops, k + 1))
          = ScanAt(File(Ranges(ops, k + 1), Told(ops, new, k + 1)), next, FALSE)
    BY <1>4, <2>3, <2>4, <2>6, <2>7 DEF line, ReadsLine
  <2> QED BY <2>7, <2>8 DEF ReadsTo, ReadsLine
<1>8. CASE k + 1 \in Displayed(ops) /\ k \notin Displayed(ops)
  <2> DEFINE header == Header(ops, k + 1)
             before == NewAt(ops, k)
             last == LastOf(ops, k + 1)
             st2 == ParseLine(st, header)
  <2>1. Printed(ops, k + 1) = <<header, line>>
    BY <1>5, <1>8 DEF Printed, line
  <2>2. /\ before \in Nat /\ last \in Nat /\ before <= last
        /\ header \in HeaderLine /\ header.count = last - before
        /\ before < last => header.start = before + 1
    BY <1>1, <1>5, <1>8, HeaderCounts DEF LastOf
  <2>3. header \in PatchLine
    BY <2>2 DEF PatchLine
  <2> HIDE DEF header, before, last
  <2>4. Scan(Scanner, patch \o Printed(ops, k + 1)) = ParseLine(st2, line)
    <3>1. Append(patch, header) \in Seq(PatchLine)
      BY <2>3
    <3>2. Append(Append(patch, header), line) = patch \o <<header, line>>
      BY <1>3, <2>3, TwoMore
    <3>3. Scan(Scanner, Append(patch, header)) = st2
      BY <2>3, ScanAppend DEF st
    <3>4. Scan(Scanner, Append(Append(patch, header), line)) = ParseLine(st2, line)
      BY <1>3, <3>1, <3>3, ScanAppend
    <3> QED BY <2>1, <3>2, <3>4
  <2>5. header.start \in Nat /\ st2 = ScanAt(File(Ranges(ops, k + 1), Told(ops, new, k)), header.start, FALSE)
    <3>1. header.start \in Nat
      BY <2>2 DEF HeaderLine
    <3>2. st2 = ScanAt(File(IF header.count > 0
                          THEN Ranges(ops, k) \cup {<<header.start, header.start + header.count - 1>>}
                          ELSE Ranges(ops, k), Told(ops, new, k)), header.start, FALSE)
      BY <1>4, <2>2, HeaderScans
    <3>3. CASE before < last
      <4>1. header.count > 0 /\ header.start = before + 1 /\ header.start + header.count - 1 = last
        BY <2>2, <3>3
      <4>2. Ranges(ops, k + 1) = Ranges(ops, k) \cup {<<before + 1, last>>}
        BY <1>1, <1>2, <1>8, <3>3, RangesGrow DEF before, last
      <4> QED BY <3>1, <3>2, <4>1, <4>2
    <3>4. CASE ~(before < last)
      <4>1. ~(header.count > 0)
        BY <2>2, <3>4
      <4>2. Ranges(ops, k + 1) = Ranges(ops, k)
        BY <1>1, <1>2, <1>8, <3>4, RangesGrow DEF before, last
      <4> QED BY <3>1, <3>2, <4>1, <4>2
    <3> QED BY <3>3, <3>4
  <2>6. NewAt(ops, k) < LastOf(ops, k + 1) => header.start = NewAt(ops, k) + 1
    BY <2>2 DEF before, last
  <2> DEFINE next == NextAt(ops, k, header.start)
  <2>7. ReadsLine(ops, new, k, Ranges(ops, k + 1), header.start)
    BY <1>8, <2>5, <2>6, ReadLine
  <2>8. Scan(Scanner, patch \o Printed(ops, k + 1))
          = ScanAt(File(Ranges(ops, k + 1), Told(ops, new, k + 1)), next, FALSE)
    BY <2>4, <2>5, <2>7 DEF line, ReadsLine
  <2> QED BY <2>7, <2>8 DEF ReadsTo, ReadsLine
<1> QED BY <1>6, <1>7, <1>8

LEMMA NothingTold == ASSUME NEW new PROVE LinesOf(new, {}) = <<>>
<1> DEFINE f == LinesOf(new, {})
<1>1. DOMAIN f = 1..0 /\ f = [i \in 1..0 |-> f[i]]
  BY DEF LinesOf
<1> HIDE DEF f
<1>2. f \in Seq({})
  BY <1>1
<1>3. Len(f) = 0
  BY <1>1
<1>4. f = <<>>
  BY <1>2, <1>3, EmptySeq
<1> QED BY <1>4 DEF f

\* The lines before the hunks open a file.
LEMMA FileHeaderScans ==
  /\ FileHeader \in Seq(PatchLine)
  /\ Scan(Scanner, FileHeader) = ScanAt(File({}, <<>>), 0, TRUE)
<1> DEFINE one == [is |-> "diff --git"]
           two == [is |-> "---"]
           three == [is |-> "+++"]
           opened == [files |-> <<>>, open |-> FALSE, at |-> 0, scanning |-> TRUE]
<1>1. one \in PatchLine /\ two \in PatchLine /\ three \in PatchLine
  BY DEF PatchLine
<1>2. ParseLine(Scanner, one) = opened
  BY DEF ParseLine, BeginsLike, Scanner
<1>3. ParseLine(opened, two) = opened
  BY DEF ParseLine, BeginsLike
<1>4. ParseLine(opened, three) = ScanAt(File({}, <<>>), 0, TRUE)
  <2>1. ParseLine(opened, three) = [opened EXCEPT !.files = Append(<<>>, NoFile), !.open = TRUE]
    BY DEF ParseLine, BeginsLike
  <2>2. Append(<<>>, NoFile) = <<NoFile>>
    OBVIOUS
  <2> QED BY <2>1, <2>2 DEF ScanAt, File, NoFile
<1> HIDE DEF one, two, three, opened
<1>5. <<one>> \in Seq(PatchLine) /\ <<one>> = Append(<<>>, one) /\ <<>> \in Seq(PatchLine)
  BY <1>1
<1>6. Scan(Scanner, <<one>>) = opened
  BY <1>1, <1>2, <1>5, ScanAppend, ScanEmpty
<1>7. Append(<<one>>, two) \in Seq(PatchLine) /\ Append(Append(<<one>>, two), three) = <<one>> \o <<two, three>>
  BY <1>1, <1>5, TwoMore
<1>8. FileHeader = Append(Append(<<one>>, two), three)
  <2> DEFINE f == Append(Append(<<one>>, two), three)
             g == <<one, two, three>>
  <2>1. f \in Seq(PatchLine) /\ Len(f) = 3 /\ f[1] = one /\ f[2] = two /\ f[3] = three
    BY <1>1, <1>5, <1>7
  <2>2. g \in Seq(PatchLine) /\ Len(g) = 3 /\ g[1] = one /\ g[2] = two /\ g[3] = three
    BY <1>1
  <2>3. FileHeader = g
    BY DEF FileHeader, one, two, three
  <2> HIDE DEF f, g
  <2>4. \A i \in 1..Len(f) : f[i] = g[i]
    BY <2>1, <2>2
  <2>5. f = g
    BY <2>1, <2>2, <2>4, SeqEqual
  <2> QED BY <2>3, <2>5 DEF f
<1>9. Scan(Scanner, Append(<<one>>, two)) = opened
  BY <1>1, <1>3, <1>5, <1>6, ScanAppend
<1>10. Scan(Scanner, Append(Append(<<one>>, two), three)) = ScanAt(File({}, <<>>), 0, TRUE)
  BY <1>1, <1>4, <1>7, <1>9, ScanAppend
<1>11. Append(Append(<<one>>, two), three) \in Seq(PatchLine)
  BY <1>1, <1>7, AppendProperties
<1> QED BY <1>8, <1>10, <1>11

\* The patch of a change is read to the end of its script.
LEMMA PatchReads ==
  ASSUME NEW old \in Seq(Line), NEW new \in Seq(Line), old # new
  PROVE  /\ GitDiff(old, new) \in Seq(PatchLine)
         /\ ReadsTo(Scan(Scanner, GitDiff(old, new)), Script(old, new), new, Len(Script(old, new)))
<1> DEFINE ops == Script(old, new)
           l == Len(ops)
           parts == [k \in 1..l |-> Printed(ops, k)]
<1>1. Renders(ops, Len(new), new)
  BY ScriptRenders
<1>2. GitDiff(old, new) = FileHeader \o FlattenSeq(parts)
  BY DEF GitDiff
<1> HIDE DEF ops
<1>3. ops \in Seq(PatchStep) /\ l \in Nat /\ Displayed(ops) \subseteq 1..l
  BY <1>1, DisplayedSteps DEF Renders
<1>4. /\ DOMAIN parts = 1..l /\ \A k \in 1..l : parts[k] = Printed(ops, k) /\ Printed(ops, k) \in Seq(PatchLine)
      /\ parts = [k \in 1..l |-> parts[k]]
  BY <1>3, PatchParts
<1> HIDE DEF l, parts
<1>5. Len(parts) = l /\ (l = 0 => parts = <<>>)
  <2> DEFINE S == Seq(PatchLine)
  <2>1. parts \in [1..l -> S]
    BY <1>4
  <2> HIDE DEF S
  <2>2. parts \in Seq(S) /\ Len(parts) = l
    BY <1>3, <2>1
  <2> QED BY <1>3, <2>2, EmptySeq
<1>j. PICK f : Joins(f, parts, l)
  BY <1>3, <1>4, <1>5, FlattenSteps
<1>6. /\ f[0] = <<>> /\ FlattenSeq(parts) = f[l]
      /\ \A k \in Nat : k < l => f[k + 1] = IF k = 0 THEN parts[1] ELSE f[k] \o parts[k + 1]
  BY <1>j DEF Joins
<1> DEFINE Good(k) == f[k] \in Seq(PatchLine) /\ ReadsTo(Scan(Scanner, FileHeader \o f[k]), ops, new, k)
           T == {k \in Nat : k <= l => Good(k)}
<1>7. 0 \in T
  <2>1. FileHeader \o f[0] = FileHeader /\ f[0] \in Seq(PatchLine)
    BY <1>6, FileHeaderScans, ConcatEmptySeq
  <2>2. 0 \notin Displayed(ops)
    BY <1>3
  <2>3. Ranges(ops, 0) = {}
    <3>1. Begun(ops, 0) = {}
      BY <1>3 DEF Begun
    <3> QED BY <3>1 DEF Ranges
  <2>4. Told(ops, new, 0) = <<>>
    <3>1. Numbers(ops, 0) = {}
      BY <1>3 DEF Numbers
    <3> QED BY <3>1, NothingTold DEF Told
  <2> QED BY <2>1, <2>2, <2>3, <2>4, FileHeaderScans DEF ReadsTo
<1>8. ASSUME NEW k \in Nat, k \in T PROVE k + 1 \in T
  <2> SUFFICES ASSUME k + 1 <= l PROVE Good(k + 1)
    OBVIOUS
  <2>1. Good(k) /\ k + 1 \in 1..l /\ k + 1 <= Len(ops)
    BY <1>3, <1>8 DEF l
  <2>2. f[k + 1] = f[k] \o Printed(ops, k + 1) /\ Printed(ops, k + 1) \in Seq(PatchLine)
    <3>1. Printed(ops, k + 1) \in Seq(PatchLine) /\ parts[k + 1] = Printed(ops, k + 1)
      BY <1>4, <2>1
    <3>2. f[k + 1] = IF k = 0 THEN parts[1] ELSE f[k] \o parts[k + 1]
      BY <1>3, <1>6, <2>1
    <3>3. CASE k = 0
      <4>1. f[k] = <<>> /\ f[k + 1] = parts[k + 1]
        BY <1>6, <3>2, <3>3
      <4> QED BY <3>1, <4>1, ConcatEmptySeq
    <3>4. CASE k # 0 BY <3>1, <3>2, <3>4
    <3> QED BY <3>3, <3>4
  <2>3. FileHeader \o f[k + 1] = (FileHeader \o f[k]) \o Printed(ops, k + 1)
    <3> DEFINE head == FileHeader
               done == f[k]
               part == Printed(ops, k + 1)
    <3>1. head \in Seq(PatchLine) /\ done \in Seq(PatchLine) /\ part \in Seq(PatchLine)
      BY <2>1, <2>2, FileHeaderScans
    <3> HIDE DEF head, done, part
    <3>2. head \o (done \o part) = (head \o done) \o part
      BY <3>1, ConcatAssociative
    <3> QED BY <2>2, <3>2 DEF head, done, part
  <2>4. FileHeader \o f[k] \in Seq(PatchLine) /\ f[k + 1] \in Seq(PatchLine)
    BY <2>1, <2>2, FileHeaderScans, ConcatProperties
  <2>5. ReadsTo(Scan(Scanner, (FileHeader \o f[k]) \o Printed(ops, k + 1)), ops, new, k + 1)
    BY <1>1, <2>1, <2>4, ReadPart
  <2> QED BY <2>3, <2>4, <2>5
<1> HIDE DEF T
<1>9. l \in T
  BY <1>3, <1>7, <1>8, Counting
<1>10. Good(l)
  BY <1>3, <1>9 DEF T
<1>11. GitDiff(old, new) \in Seq(PatchLine)
  BY <1>2, <1>6, <1>10, FileHeaderScans, ConcatProperties
<1> QED BY <1>2, <1>6, <1>10, <1>11 DEF ops, l

\* The ranges displayed cover the numbers displayed, and nothing else.
LEMMA RangesCover ==
  ASSUME NEW S, NEW ops \in Seq(S)
  PROVE  UNION {r[1]..r[2] : r \in Ranges(ops, Len(ops))} = Numbers(ops, Len(ops))
<1> DEFINE D == Displayed(ops)
           l == Len(ops)
           e(a) == HunkEnd(D, a)
<1>1. l \in Nat /\ D \in SUBSET (1..l)
  BY DisplayedSteps
<1>2. \A a \in D : /\ e(a) \in D /\ e(a) >= a /\ a..e(a) \subseteq D /\ e(a) + 1 \notin D
                   /\ a \in Nat /\ a - 1 \in Nat /\ e(a) \in Nat /\ a <= l
  <2> TAKE a \in D
  <2> HIDE DEF D
  <2>1. e(a) \in D /\ e(a) >= a /\ a..e(a) \subseteq D /\ e(a) + 1 \notin D
    BY <1>1, HunkEnds
  <2> HIDE DEF e
  <2>2. a \in 1..l /\ e(a) \in 1..l
    BY <1>1, <2>1
  <2> QED BY <2>1, <2>2
<1>3. \A k \in Nat : NewAt(ops, k) \in Nat
  BY NewAtSteps
<1>4. Numbers(ops, l) = {NewAt(ops, j) : j \in {i \in D : ops[i].is # "-"}}
  BY <1>2 DEF Numbers
<1>5. UNION {r[1]..r[2] : r \in Ranges(ops, l)} = UNION {(NewAt(ops, a - 1) + 1)..LastOf(ops, a) : a \in Begun(ops, l)}
  <2> DEFINE range(a) == <<NewAt(ops, a - 1) + 1, LastOf(ops, a)>>
  <2>1. \A a : range(a)[1] = NewAt(ops, a - 1) + 1 /\ range(a)[2] = LastOf(ops, a)
    OBVIOUS
  <2>2. Ranges(ops, l) = {range(a) : a \in Begun(ops, l)}
    BY DEF Ranges
  <2> HIDE DEF range
  <2> QED BY <2>1, <2>2
<1>6. \A a \in D : LastOf(ops, a) = NewAt(ops, e(a))
  BY DEF LastOf
<1> HIDE DEF D, l, e
<1>7. ASSUME NEW a \in Begun(ops, l), NEW n \in (NewAt(ops, a - 1) + 1)..LastOf(ops, a)
      PROVE  n \in Numbers(ops, l)
  <2>1. a \in D
    BY DEF Begun, D
  <2>2. NewAt(ops, a - 1) \in Nat /\ NewAt(ops, e(a)) \in Nat /\ n \in Nat /\ NewAt(ops, a - 1) < n /\ n <= NewAt(ops, e(a))
    <3>1. NewAt(ops, a - 1) \in Nat /\ NewAt(ops, e(a)) \in Nat
      BY <1>2, <1>3, <2>1
    <3>2. n \in (NewAt(ops, a - 1) + 1)..NewAt(ops, e(a))
      BY <1>6, <2>1
    <3> QED BY <3>1, <3>2
  <2>3. PICK k \in Nat : a - 1 < k /\ k <= e(a) /\ ops[k].is # "-" /\ NewAt(ops, k) = n
    BY <1>2, <2>1, <2>2, NewAtHits
  <2>4. k \in a..e(a)
    BY <1>2, <2>1, <2>3
  <2>5. k \in D
    BY <1>2, <2>1, <2>4
  <2> QED BY <1>4, <2>3, <2>5
<1>8. ASSUME NEW j \in D, ops[j].is # "-"
      PROVE  \E a \in Begun(ops, l) : NewAt(ops, j) \in (NewAt(ops, a - 1) + 1)..LastOf(ops, a)
  <2>1. PICK a \in D : a <= j /\ a - 1 \notin D /\ a..j \subseteq D /\ j <= e(a)
    BY <1>1, HunkBegins DEF e
  <2>2. a - 1 \in Nat /\ j - 1 \in Nat /\ j \in Nat /\ e(a) \in Nat /\ a - 1 <= j - 1 /\ (j - 1) + 1 = j /\ a <= l
    BY <1>2, <2>1
  <2>3. NewAt(ops, a - 1) <= NewAt(ops, j - 1)
    BY <2>2, NewAtGrows
  <2>4. NewAt(ops, j) <= NewAt(ops, e(a))
    BY <2>1, <2>2, NewAtGrows
  <2>5. NewAt(ops, j) = NewAt(ops, j - 1) + 1
    <3>1. NewAt(ops, (j - 1) + 1) = NewAt(ops, j - 1) + IF ops[(j - 1) + 1].is # "-" THEN 1 ELSE 0
      BY <2>2, NewAtSteps
    <3> QED BY <1>8, <2>2, <3>1
  <2>6. /\ NewAt(ops, a - 1) \in Nat /\ NewAt(ops, j - 1) \in Nat /\ NewAt(ops, j) \in Nat
        /\ NewAt(ops, e(a)) \in Nat
    BY <1>3, <2>2
  <2>7. NewAt(ops, a - 1) < LastOf(ops, a) /\ NewAt(ops, j) \in (NewAt(ops, a - 1) + 1)..LastOf(ops, a)
    BY <1>6, <2>1, <2>3, <2>4, <2>5, <2>6
  <2>8. a \in Begun(ops, l)
    BY <2>1, <2>2, <2>7 DEF Begun, D
  <2> QED BY <2>7, <2>8
<1>9. Numbers(ops, l) = UNION {(NewAt(ops, a - 1) + 1)..LastOf(ops, a) : a \in Begun(ops, l)}
  BY <1>4, <1>7, <1>8
<1> QED BY <1>5, <1>9 DEF l

\* parseDiffFiles inverts git diff, for files of any lines and length and any context: one file, its
\* displayed lines at their numbers in the new version, in ranges that hold these numbers and no others.
THEOREM ParsedDiffIsExact ==
  ASSUME NEW old \in Seq(Line), NEW new \in Seq(Line), old # new
  PROVE  LET files == ParseDiffFiles(GitDiff(old, new))
             ops == Script(old, new)
             numbers == {NewAt(ops, k) : k \in {j \in Displayed(ops) : ops[j].is # "-"}}
         IN /\ Len(files) = 1 /\ files[1].lines = [n \in numbers |-> new[n]]
            /\ UNION {r[1]..r[2] : r \in files[1].ranges} = numbers
<1> DEFINE ops == Script(old, new)
           l == Len(ops)
           numbers == {NewAt(ops, k) : k \in {j \in Displayed(ops) : ops[j].is # "-"}}
           files == ParseDiffFiles(GitDiff(old, new))
<1>1. ReadsTo(Scan(Scanner, GitDiff(old, new)), ops, new, l)
  BY PatchReads
<1>2. ops \in Seq(PatchStep)
  BY ScriptRenders DEF Renders
<1> HIDE DEF ops
<1>3. files = <<File(Ranges(ops, l), Told(ops, new, l))>>
  BY <1>1 DEF ReadsTo, ScanAt, ParseDiffFiles, Scan
<1> HIDE DEF files
<1>4. numbers = Numbers(ops, l)
  <2>1. \A j \in Displayed(ops) : j <= l
    BY <1>2, DisplayedSteps
  <2> QED BY <2>1 DEF Numbers
<1>5. Len(files) = 1 /\ files[1].ranges = Ranges(ops, l) /\ files[1].lines = [n \in numbers |-> new[n]]
  BY <1>3, <1>4 DEF File, Told, LinesOf
<1>6. UNION {r[1]..r[2] : r \in Ranges(ops, l)} = Numbers(ops, l)
  BY <1>2, RangesCover
<1>7. UNION {r[1]..r[2] : r \in files[1].ranges} = numbers
  BY <1>4, <1>5, <1>6
<1> HIDE DEF numbers
<1> QED BY <1>5, <1>7 DEF numbers, ops, files

-----------------------------------------------------------------------------
\* The anchors of annotations in omp.
USE AnchorAssumption

LineRange == (1..MaxLen) \X (1..MaxLen)

\* What a load that begins and ends now finds, and what it takes an annotation to still say.
PatchNow == GitDiff(base, IF tracked THEN worktree ELSE <<>>)
ListedNow == ~tracked /\ worktree # <<>>
FilesNow ==
  ParseDiffFiles(OmitPatchPaths(PatchNow, ListedNow) \o (IF ListedNow THEN GitDiff(<<>>, worktree) ELSE <<>>))
StillSays(a, files) ==
  files # <<>> /\ Addresses(files[1], a.range) /\ Anchor(files[1], a.range) = a.anchor

AnchorsTyped ==
  /\ base \in Content /\ worktree \in Content /\ tracked \in BOOLEAN /\ edits \in 0..MaxEdits
  /\ DOMAIN loads = User
  /\ \A u \in User : /\ DOMAIN loads[u] = {"pc", "since", "patch", "listed", "range"}
                     /\ loads[u].pc \in {"idle", "list", "untracked"}
                     /\ loads[u].pc # "idle" => loads[u].since \in 0..edits
  /\ loads["annotate"].pc # "idle" => loads["annotate"].range \in LineRange
  /\ \A a \in noted : a.range \in LineRange /\ a.since \in 0..edits

\* A load under way in which nothing has changed so far has read what there is.
LoadsAreExact ==
  \A u \in User : loads[u].pc # "idle" /\ loads[u].since = edits =>
    /\ loads[u].patch = PatchNow
    /\ loads[u].pc = "untracked" => loads[u].listed = ListedNow

\* An annotation says what there is, if nothing has changed since its load began.
NotesAreExact == \A a \in noted : a.since = edits => StillSays(a, FilesNow)

AnchorInv == AnchorsTyped /\ LoadsAreExact /\ NotesAreExact /\ FreshAnnotationIsShown

-----------------------------------------------------------------------------
LEMMA InitAnchorInv == AnchorInit => AnchorInv
BY DEF AnchorInit, AnchorInv, AnchorsTyped, LoadsAreExact, NotesAreExact, FreshAnnotationIsShown,
       NoLoad, NothingShown, User

\* A whole load in which nothing has changed finds what there is.
LEMMA ExactLoad ==
  ASSUME AnchorInv, NEW u \in User, loads[u].pc = "untracked", loads[u].since = edits
  PROVE  Files(u) = FilesNow
<1>1. loads[u].patch = PatchNow /\ loads[u].listed = ListedNow
  BY DEF AnchorInv, LoadsAreExact
<1>2. (loads[u].listed /\ worktree # <<>>) = ListedNow
  BY <1>1 DEF ListedNow
<1> QED BY <1>1, <1>2 DEF Files, Patch, FilesNow

\* A change makes every load and annotation older than the last one.
LEMMA ChangeKeeps ==
  ASSUME AnchorInv, edits < MaxEdits, edits' = edits + 1, UNCHANGED <<loads, noted, shown>>,
         base' \in Content, worktree' \in Content, tracked' \in BOOLEAN
  PROVE  AnchorInv'
<1>1. edits' \in 0..MaxEdits /\ edits \in 0..MaxEdits /\ \A n \in 0..edits : n \in 0..edits' /\ n # edits'
  BY DEF AnchorInv, AnchorsTyped
<1>2. AnchorsTyped'
  BY <1>1 DEF AnchorInv, AnchorsTyped
<1>3. LoadsAreExact' /\ NotesAreExact'
  BY <1>1 DEF AnchorInv, AnchorsTyped, LoadsAreExact, NotesAreExact
<1> QED BY <1>2, <1>3 DEF AnchorInv, FreshAnnotationIsShown

LEMMA LoadStarts ==
  ASSUME AnchorInv, NEW u \in User, NEW range, DiffText(u, range), u = "annotate" => range \in LineRange,
         UNCHANGED shown \/ shown' = NothingShown
  PROVE  AnchorInv'
<1> DEFINE new == [pc |-> "list", since |-> edits, listed |-> FALSE, range |-> range, patch |-> PatchNow]
<1>1. /\ loads' = [loads EXCEPT ![u] = new] /\ DOMAIN loads = User /\ edits \in 0..MaxEdits
      /\ UNCHANGED <<base, worktree, tracked, edits, noted>>
  BY DEF DiffText, PatchNow, AnchorInv, AnchorsTyped, fileVars
<1>2. /\ new.pc = "list" /\ new.since = edits /\ new.range = range /\ new.patch = PatchNow
      /\ DOMAIN new = {"pc", "since", "patch", "listed", "range"}
  OBVIOUS
<1> HIDE DEF new
<1>3. DOMAIN loads' = User /\ \A v \in User : loads'[v] = IF v = u THEN new ELSE loads[v]
  BY <1>1
<1>4. AnchorsTyped'
  BY <1>1, <1>2, <1>3 DEF AnchorInv, AnchorsTyped, User
<1>5. PatchNow' = PatchNow /\ ListedNow' = ListedNow /\ FilesNow' = FilesNow
  BY <1>1 DEF PatchNow, ListedNow, FilesNow
<1>6. LoadsAreExact'
  BY <1>1, <1>2, <1>3, <1>5 DEF AnchorInv, LoadsAreExact
<1>7. NotesAreExact'
  BY <1>1, <1>5 DEF AnchorInv, NotesAreExact
<1>8. FreshAnnotationIsShown'
  BY DEF AnchorInv, FreshAnnotationIsShown, NothingShown
<1> QED BY <1>4, <1>6, <1>7, <1>8 DEF AnchorInv

LEMMA LoadLists ==
  ASSUME AnchorInv, NEW u \in User, UntrackedPaths(u) PROVE AnchorInv'
<1> DEFINE new == [loads[u] EXCEPT !.pc = "untracked", !.listed = ListedNow]
<1>1. /\ DOMAIN loads = User /\ loads[u].pc = "list" /\ edits \in 0..MaxEdits
      /\ DOMAIN loads[u] = {"pc", "since", "patch", "listed", "range"}
      /\ UNCHANGED <<base, worktree, tracked, edits, noted, shown>>
  BY DEF UntrackedPaths, Loading, AnchorInv, AnchorsTyped, fileVars
<1>3. loads' = [loads EXCEPT ![u] = new]
  BY <1>1 DEF UntrackedPaths, ListedNow
<1>4. /\ new.pc = "untracked" /\ new.since = loads[u].since /\ new.patch = loads[u].patch
      /\ new.listed = ListedNow /\ new.range = loads[u].range
      /\ DOMAIN new = {"pc", "since", "patch", "listed", "range"}
  BY <1>1
<1> HIDE DEF new
<1>5. DOMAIN loads' = User /\ \A v \in User : loads'[v] = IF v = u THEN new ELSE loads[v]
  BY <1>1, <1>3
<1>6. AnchorsTyped'
  BY <1>1, <1>4, <1>5 DEF AnchorInv, AnchorsTyped, User
<1>7. PatchNow' = PatchNow /\ ListedNow' = ListedNow /\ FilesNow' = FilesNow
  BY <1>1 DEF PatchNow, ListedNow, FilesNow
<1>8. LoadsAreExact'
  BY <1>1, <1>4, <1>5, <1>7 DEF AnchorInv, LoadsAreExact
<1>9. NotesAreExact'
  BY <1>1, <1>7 DEF AnchorInv, NotesAreExact
<1> QED BY <1>1, <1>6, <1>8, <1>9 DEF AnchorInv, FreshAnnotationIsShown

\* A load that ends leaves the other as it is.
LEMMA EndKeeps ==
  ASSUME AnchorInv, NEW u \in User, Loaded(u), UNCHANGED <<base, worktree, tracked, edits>>
  PROVE  /\ LoadsAreExact' /\ FilesNow' = FilesNow
         /\ (\A a \in noted' : a.range \in LineRange /\ a.since \in 0..edits) => AnchorsTyped'
<1>1. /\ loads' = [loads EXCEPT ![u] = NoLoad] /\ DOMAIN loads = User /\ loads[u].pc = "untracked"
      /\ edits \in 0..MaxEdits
  BY DEF Loaded, Loading, AnchorInv, AnchorsTyped
<1>2. DOMAIN loads' = User /\ \A v \in User : loads'[v] = IF v = u THEN NoLoad ELSE loads[v]
  BY <1>1
<1>3. NoLoad.pc = "idle" /\ DOMAIN NoLoad = {"pc", "since", "patch", "listed", "range"}
  BY DEF NoLoad
<1>4. ASSUME \A a \in noted' : a.range \in LineRange /\ a.since \in 0..edits PROVE AnchorsTyped'
  BY <1>1, <1>2, <1>3, <1>4 DEF AnchorInv, AnchorsTyped, User
<1>5. PatchNow' = PatchNow /\ ListedNow' = ListedNow /\ FilesNow' = FilesNow
  BY DEF PatchNow, ListedNow, FilesNow
<1>6. LoadsAreExact'
  BY <1>1, <1>2, <1>3, <1>5 DEF AnchorInv, LoadsAreExact
<1> QED BY <1>4, <1>5, <1>6

\* The tool's load ends with an annotation of what it found, or with none.
LEMMA AnnotateEnds ==
  ASSUME AnchorInv, RefuseTargets \/ Skip \/ RecordAnnotation PROVE AnchorInv'
<1> DEFINE u == "annotate"
           files == Files(u)
           new == [range |-> loads[u].range, since |-> loads[u].since,
                   anchor |-> Anchor(files[1], loads[u].range)]
<1>1. /\ Loaded(u) /\ u \in User /\ UNCHANGED <<base, worktree, tracked, edits, shown>>
      /\ noted' = noted \/ (noted' = noted \cup {new} /\ Valid(files, loads[u].range))
  BY DEF RefuseTargets, Skip, RecordAnnotation, fileVars, User
<1>2. loads[u].pc = "untracked" /\ loads[u].range \in LineRange /\ loads[u].since \in 0..edits
  BY <1>1 DEF Loaded, Loading, AnchorInv, AnchorsTyped, User
<1>3. new.range = loads[u].range /\ new.since = loads[u].since /\ new.anchor = Anchor(files[1], new.range)
  OBVIOUS
<1>4. ASSUME Valid(files, loads[u].range), loads[u].since = edits PROVE StillSays(new, FilesNow)
  <2>1. files = FilesNow
    BY <1>1, <1>2, <1>4, ExactLoad
  <2>2. files # <<>> /\ Addresses(files[1], new.range)
    BY <1>3, <1>4 DEF Valid
  <2> QED BY <1>3, <2>1, <2>2 DEF StillSays
<1> HIDE DEF new
<1>5. \A a \in noted' : a.range \in LineRange /\ a.since \in 0..edits
  BY <1>1, <1>2, <1>3 DEF AnchorInv, AnchorsTyped
<1>6. AnchorsTyped' /\ LoadsAreExact' /\ FilesNow' = FilesNow
  BY <1>1, <1>5, EndKeeps
<1>7. NotesAreExact'
  BY <1>1, <1>3, <1>4, <1>6 DEF AnchorInv, NotesAreExact, StillSays
<1> QED BY <1>1, <1>6, <1>7 DEF AnchorInv, FreshAnnotationIsShown

\* The review's load ends, and shows what still says what it was written on.
LEMMA ReviewEnds ==
  ASSUME AnchorInv, ShowReview \/ NoChanges PROVE AnchorInv'
<1> DEFINE u == "review"
<1>1. /\ Loaded(u) /\ u \in User /\ UNCHANGED <<base, worktree, tracked, edits, noted>>
  BY DEF ShowReview, NoChanges, fileVars, User
<1>2. AnchorsTyped' /\ LoadsAreExact' /\ FilesNow' = FilesNow
  BY <1>1, EndKeeps DEF AnchorInv, AnchorsTyped
<1>3. NotesAreExact'
  BY <1>1, <1>2 DEF AnchorInv, NotesAreExact, StillSays
<1>4. CASE NoChanges
  BY <1>2, <1>3, <1>4 DEF AnchorInv, FreshAnnotationIsShown, NoChanges
<1>5. CASE ShowReview
  <2> DEFINE stale == noted \ Current(Files(u))
  <2>1. /\ shown' = [there |-> TRUE, files |-> Files(u), since |-> loads[u].since, till |-> edits,
                    stale |-> stale]
        /\ loads[u].pc = "untracked" /\ loads[u].since \in 0..edits /\ edits \in 0..MaxEdits
    BY <1>1, <1>5 DEF ShowReview, Loaded, Loading, AnchorInv, AnchorsTyped
  <2>2. ASSUME NEW a \in stale PROVE a.since < edits \/ loads[u].since < edits
    <3>1. a \in noted /\ a.since \in 0..edits /\ ~StillSays(a, Files(u))
      BY <2>2 DEF Current, StillSays, AnchorInv, AnchorsTyped
    <3>2. CASE a.since = edits /\ loads[u].since = edits
      BY <1>1, <2>1, <3>1, <3>2, ExactLoad DEF AnchorInv, NotesAreExact
    <3> QED BY <2>1, <3>1, <3>2
  <2> HIDE DEF stale
  <2>3. shown'.stale = stale /\ shown'.since = loads[u].since /\ shown'.till = edits
    BY <2>1
  <2>4. FreshAnnotationIsShown'
    BY <2>2, <2>3 DEF FreshAnnotationIsShown
  <2> QED BY <1>2, <1>3, <2>4 DEF AnchorInv
<1> QED BY <1>4, <1>5

LEMMA AnchorInvInductive == AnchorInv /\ [AnchorNext]_anchorVars => AnchorInv'
<1> SUFFICES ASSUME AnchorInv, [AnchorNext]_anchorVars PROVE AnchorInv'
  OBVIOUS
<1>t. base \in Content /\ worktree \in Content /\ tracked \in BOOLEAN
  BY DEF AnchorInv, AnchorsTyped
<1>1. ASSUME NEW from \in 1..MaxLen, NEW to \in 1..MaxLen, AnnotateDiff(<<from, to>>) PROVE AnchorInv'
  <2>1. <<from, to>> \in LineRange
    BY DEF LineRange
  <2> QED BY <1>1, <2>1, LoadStarts DEF AnnotateDiff, User
<1>2. ASSUME NEW u \in User, UntrackedPaths(u) PROVE AnchorInv'
  BY <1>2, LoadLists
<1>3. ASSUME NEW a \in noted, RemoveAnnotation(a) PROVE AnchorInv'
  <2>1. noted' \subseteq noted /\ UNCHANGED <<base, worktree, tracked, edits, loads, shown>>
    BY <1>3 DEF RemoveAnnotation, fileVars
  <2>2. AnchorsTyped'
    BY <2>1 DEF AnchorInv, AnchorsTyped
  <2>3. LoadsAreExact' /\ NotesAreExact'
    BY <2>1 DEF AnchorInv, LoadsAreExact, NotesAreExact, StillSays, PatchNow, ListedNow, FilesNow
  <2> QED BY <2>1, <2>2, <2>3 DEF AnchorInv, FreshAnnotationIsShown
<1>4. ASSUME NEW content \in Content, Edit(content) PROVE AnchorInv'
  BY <1>4, <1>t, ChangeKeeps DEF Edit
<1>5. CASE Index
  BY <1>5, <1>t, ChangeKeeps DEF Index
<1>6. CASE StartReview
  BY <1>6, LoadStarts DEF StartReview, User
<1>7. CASE RefuseTargets \/ Skip \/ RecordAnnotation
  BY <1>7, AnnotateEnds
<1>8. CASE ShowReview \/ NoChanges
  BY <1>8, ReviewEnds
<1>9. CASE UNCHANGED anchorVars
  BY <1>9 DEF anchorVars, AnchorInv, AnchorsTyped, LoadsAreExact, NotesAreExact, StillSays, PatchNow,
              ListedNow, FilesNow, FreshAnnotationIsShown
<1> QED BY <1>1, <1>2, <1>3, <1>4, <1>5, <1>6, <1>7, <1>8, <1>9 DEF AnchorNext

LEMMA AnchorInvAlways == AnchorSpec => []AnchorInv
BY InitAnchorInv, AnchorInvInductive, PTL DEF AnchorSpec

\* The file, the loads and the annotations are well typed, for files of any lines and length.
THEOREM AnchorTypeCorrect == AnchorSpec => []AnchorTypeOK
<1>1. AnchorInv => AnchorTypeOK
  BY DEF AnchorInv, AnchorsTyped, AnchorTypeOK, LineRange
<1> QED BY <1>1, AnchorInvAlways, PTL

\* Whatever a patch looks like: if nothing changed from the load that an annotation was made on to
\* the end of the review's, the review shows it.
THEOREM FreshAnnotationsAreShown == AnchorSpec => []FreshAnnotationIsShown
<1>1. AnchorInv => FreshAnnotationIsShown
  BY DEF AnchorInv
<1> QED BY <1>1, AnchorInvAlways, PTL

-----------------------------------------------------------------------------
\* The diff that is displayed.
WholePatchNow ==
  OmitPatchPaths(PatchNow, ListedNow) \o (IF ListedNow THEN GitDiff(<<>>, worktree) ELSE <<>>)

\* A diff displayed since when nothing has changed is the one of a load that begins now.
ShownIsNow ==
  shown.there => /\ shown.since \in 0..edits
                 /\ shown.since = edits => shown.files = FilesNow /\ WholePatchNow # <<>>

LEMMA ShownStaysNow == AnchorInv /\ ShownIsNow /\ [AnchorNext]_anchorVars => ShownIsNow'
<1> SUFFICES ASSUME AnchorInv, ShownIsNow, [AnchorNext]_anchorVars PROVE ShownIsNow'
  OBVIOUS
<1>e. edits \in 0..MaxEdits
  BY DEF AnchorInv, AnchorsTyped
<1>1. ASSUME UNCHANGED <<base, worktree, tracked, edits, shown>> PROVE ShownIsNow'
  BY <1>1 DEF ShownIsNow, FilesNow, WholePatchNow, PatchNow, ListedNow
<1>2. ASSUME shown' = NothingShown PROVE ShownIsNow'
  BY <1>2 DEF ShownIsNow, NothingShown
<1>3. ASSUME edits' = edits + 1, UNCHANGED shown PROVE ShownIsNow'
  BY <1>e, <1>3 DEF ShownIsNow
<1>4. CASE ShowReview
  <2> DEFINE u == "review"
             files == Files(u)
             stale == noted \ Current(files)
  <2>1. /\ shown' = [there |-> TRUE, files |-> files, since |-> loads[u].since, till |-> edits, stale |-> stale]
        /\ loads[u].pc = "untracked" /\ u \in User /\ loads[u].since \in 0..edits /\ Patch(u) # <<>>
        /\ UNCHANGED <<base, worktree, tracked, edits>>
    BY <1>4 DEF ShowReview, Loaded, Loading, AnchorInv, AnchorsTyped, User, fileVars
  <2>2. loads[u].since = edits => files = FilesNow
    BY <2>1, ExactLoad
  <2>3. loads[u].since = edits => Patch(u) = WholePatchNow
    <3> SUFFICES ASSUME loads[u].since = edits PROVE Patch(u) = WholePatchNow
      OBVIOUS
    <3>1. loads[u].patch = PatchNow /\ loads[u].listed = ListedNow
      BY <2>1 DEF AnchorInv, LoadsAreExact
    <3>2. (loads[u].listed /\ worktree # <<>>) = ListedNow
      BY <3>1 DEF ListedNow
    <3> QED BY <3>1, <3>2 DEF Patch, WholePatchNow
  <2>4. FilesNow' = FilesNow /\ WholePatchNow' = WholePatchNow
    BY <2>1 DEF FilesNow, WholePatchNow, PatchNow, ListedNow
  <2> HIDE DEF u, files, stale
  <2>5. shown'.files = files /\ shown'.since = loads[u].since
    BY <2>1
  <2> QED BY <2>1, <2>2, <2>3, <2>4, <2>5 DEF ShownIsNow
<1>5. ASSUME NEW range, DiffText("annotate", range), UNCHANGED shown PROVE ShownIsNow'
  BY <1>1, <1>5 DEF DiffText, fileVars
<1>6. ASSUME NEW u \in User, UntrackedPaths(u) PROVE ShownIsNow'
  BY <1>1, <1>6 DEF UntrackedPaths, fileVars
<1>7. ASSUME NEW a \in noted, RemoveAnnotation(a) PROVE ShownIsNow'
  BY <1>1, <1>7 DEF RemoveAnnotation, fileVars
<1>8. CASE RefuseTargets \/ Skip \/ RecordAnnotation \/ NoChanges
  BY <1>1, <1>8 DEF RefuseTargets, Skip, RecordAnnotation, NoChanges, fileVars
<1>9. CASE StartReview
  BY <1>2, <1>9 DEF StartReview
<1>10. ASSUME NEW content \in Content, Edit(content) PROVE ShownIsNow'
  BY <1>3, <1>10 DEF Edit
<1>11. CASE Index
  BY <1>3, <1>11 DEF Index
<1>12. CASE UNCHANGED anchorVars
  BY <1>1, <1>12 DEF anchorVars
<1> QED BY <1>4, <1>5, <1>6, <1>7, <1>8, <1>9, <1>10, <1>11, <1>12 DEF AnchorNext, AnnotateDiff

\* A load of now reads the file's new side off the patch.
LEMMA NowIsExact ==
  ASSUME AnchorsTyped, WholePatchNow # <<>>, worktree # <<>>
  PROVE  LET ops == Script(IF tracked THEN base ELSE <<>>, worktree)
             numbers == {NewAt(ops, k) : k \in {j \in Displayed(ops) : ops[j].is # "-"}}
         IN /\ Len(FilesNow) = 1 /\ FilesNow[1].lines = [n \in numbers |-> worktree[n]]
            /\ UNION {r[1]..r[2] : r \in FilesNow[1].ranges} = numbers
<1> DEFINE old == IF tracked THEN base ELSE <<>>
<1>1. base \in Seq(Line) /\ worktree \in Seq(Line) /\ <<>> \in Seq(Line)
  BY DEF AnchorsTyped, Content
<1>2. old \in Seq(Line)
  BY <1>1
<1>3. WholePatchNow = IF tracked THEN GitDiff(base, worktree) \o <<>> ELSE <<>> \o GitDiff(<<>>, worktree)
  BY DEF AnchorsTyped, WholePatchNow, PatchNow, ListedNow, OmitPatchPaths
<1>4. old # worktree
  <2>1. CASE tracked /\ base = worktree
    <3>1. WholePatchNow = <<>> \o <<>>
      BY <1>3, <2>1 DEF GitDiff
    <3>2. <<>> \o <<>> = <<>>
      BY <1>1, ConcatEmptySeq
    <3> QED BY <3>1, <3>2
  <2> QED BY <2>1
<1>5. WholePatchNow = GitDiff(old, worktree)
  <2>1. GitDiff(old, worktree) \in Seq(PatchLine)
    BY <1>1, <1>2, <1>4, PatchReads
  <2>2. CASE tracked
    <3>1. WholePatchNow = GitDiff(old, worktree) \o <<>>
      BY <1>3, <2>2
    <3> QED BY <2>1, <3>1, ConcatEmptySeq
  <2>3. CASE ~tracked
    <3>1. WholePatchNow = <<>> \o GitDiff(old, worktree)
      BY <1>3, <2>3
    <3> QED BY <2>1, <3>1, ConcatEmptySeq
  <2> QED BY <2>2, <2>3
<1>6. FilesNow = ParseDiffFiles(GitDiff(old, worktree))
  BY <1>5 DEF FilesNow, WholePatchNow
<1> HIDE DEF old
<1>7. LET ops == Script(old, worktree)
          numbers == {NewAt(ops, k) : k \in {j \in Displayed(ops) : ops[j].is # "-"}}
      IN /\ Len(FilesNow) = 1 /\ FilesNow[1].lines = [n \in numbers |-> worktree[n]]
         /\ UNION {r[1]..r[2] : r \in FilesNow[1].ranges} = numbers
  BY <1>1, <1>2, <1>4, <1>6, ParsedDiffIsExact
<1> QED BY <1>7 DEF old

\* Whatever the lines of a file are, those that begin like the markers of a patch included: a diff
\* loaded while nothing changed displays the file's new side, at its numbers, in its hunks.
THEOREM FrozenDiffsAreExact == AnchorSpec => []FrozenDiffIsExact
<1>1. AnchorInit => ShownIsNow
  BY DEF AnchorInit, ShownIsNow, NothingShown
<1>2. AnchorInv /\ ShownIsNow => FrozenDiffIsExact
  BY NowIsExact DEF AnchorInv, ShownIsNow, FrozenDiffIsExact
<1> QED BY <1>1, <1>2, AnchorInvAlways, ShownStaysNow, PTL DEF AnchorSpec
=============================================================================
