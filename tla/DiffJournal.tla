------------------------------ MODULE DiffJournal ------------------------------
(***************************************************************************)
(* omp's /diff: one frozen review as a transaction on the session journal. *)
(* The agent's annotations are entries of the session's tree; a completed  *)
(* review consumes those up to the leaf captured when it opened.  The user *)
(* may move to another branch, reset the context or change the session     *)
(* while hunk is open.  Entry ids grow along every branch, so a branch is  *)
(* the set of the ids above its leaf.                                      *)
(***************************************************************************)
EXTENDS Naturals, Sequences

CONSTANTS
  Remark,      \* what agents annotate: an id of annotationId
  UserNote,    \* what the user writes in hunk
  MaxEntries,  \* bound on journal entries
  MaxSessions  \* bound on sessions

ASSUME JournalAssumption ==
  MaxEntries \in Nat /\ MaxSessions \in Nat \ {0}

VARIABLES
  session,   \* the session the program is in
  journal,   \* its entries
  leaf,      \* the entry the branch ends with, 0 if there is none
  hunk,      \* the review's pane: NoHunk, or the notes in it
  review,    \* the /diff that runs
  judged,    \* entries a saved review displayed, or reported as stale
  saved,     \* notes in saved reviews
  vanished   \* notes that /diff destroyed unsaved though it could have read them

journalVars == <<session, journal, leaf, hunk, review, judged, saved, vanished>>

NoHunk == [open |-> FALSE, notes |-> {}]
NoTransaction == [pc |-> "idle", session |-> 0, cutoff |-> 0, shows |-> {},
                  read |-> {}, late |-> {}]
EntryKind == {"reset", "recorded", "withdrawn", "completed"}

JournalTypeOK ==
  /\ session \in 1..MaxSessions
  /\ leaf \in 0..Len(journal) /\ Len(journal) <= MaxEntries
  /\ \A i \in DOMAIN journal : journal[i].kind \in EntryKind /\ journal[i].above \subseteq 1..i
  /\ hunk.open \in BOOLEAN /\ hunk.notes \subseteq UserNote
  /\ review.pc \in {"idle", "prepare", "launch", "run", "discover", "confirm", "read", "persist",
                    "close", "complete"}
  /\ review.cutoff \in 0..MaxEntries /\ review.shows \subseteq 1..MaxEntries
  /\ saved \subseteq UserNote /\ vanished \subseteq UserNote

JournalInit ==
  /\ session = 1 /\ journal = <<>> /\ leaf = 0
  /\ hunk = NoHunk /\ review = NoTransaction /\ judged = {} /\ saved = {} /\ vanished = {}

-----------------------------------------------------------------------------
\* The journal's fold.

Path == IF leaf = 0 THEN {} ELSE journal[leaf].above
Entries(kind) == {i \in Path : journal[i].kind = kind}

\* diffJournalBoundaryIndex, the greatest of these: the last reset, and every completed review's
\* cutoff that lies on this branch before it.
Boundaries ==
  Entries("reset") \cup {journal[i].through : i \in {j \in Entries("completed") : journal[j].through \in Path}}

\* Withdrawn after it was recorded.
WithdrawnLater(i) == \E j \in Entries("withdrawn") : j > i /\ journal[j].remark = journal[i].remark

\* activeAnnotations, as the entries that recorded them.
Active == {i \in Entries("recorded") : (\A b \in Boundaries : b < i) /\ ~WithdrawnLater(i)}
ActiveRemarks == {journal[i].remark : i \in Active}

AppendEntry(entry) ==
  LET i == Len(journal) + 1 IN
  /\ i <= MaxEntries /\ leaf' = i
  /\ journal' = Append(journal, [entry EXCEPT !.above = Path \cup {i}])

Entry(kind) == [kind |-> kind, remark |-> "", through |-> 0, above |-> {}]

-----------------------------------------------------------------------------
\* The agent and the user, at any time.

\* annotate_diff: what is active already is skipped.
Record(r) ==
  /\ r \notin ActiveRemarks
  /\ AppendEntry([Entry("recorded") EXCEPT !.remark = r])
  /\ UNCHANGED <<session, hunk, review, judged, saved, vanished>>

WithdrawRemark(r) ==
  /\ r \in ActiveRemarks /\ AppendEntry([Entry("withdrawn") EXCEPT !.remark = r])
  /\ UNCHANGED <<session, hunk, review, judged, saved, vanished>>

Reset ==
  /\ AppendEntry(Entry("reset"))
  /\ UNCHANGED <<session, hunk, review, judged, saved, vanished>>

\* The user goes to another entry of the tree; the next entry forks a branch there.
Navigate ==
  /\ leaf' \in DOMAIN journal \ {leaf}
  /\ UNCHANGED <<session, journal, hunk, review, judged, saved, vanished>>

ChangeSession ==
  /\ session < MaxSessions /\ session' = session + 1 /\ journal' = <<>> /\ leaf' = 0 /\ judged' = {}
  /\ UNCHANGED <<hunk, review, saved, vanished>>

\* A note written after /diff read them is late.
Scribble(n) ==
  /\ hunk.open /\ n \notin saved \cup vanished \cup hunk.notes
  /\ hunk' = [hunk EXCEPT !.notes = @ \cup {n}]
  /\ review' = IF review.pc \in {"persist", "close"} THEN [review EXCEPT !.late = @ \cup {n}] ELSE review
  /\ UNCHANGED <<session, journal, leaf, judged, saved, vanished>>

-----------------------------------------------------------------------------
\* The command.

AtStage(pc) == review.pc = pc
ReviewTo(pc) == review' = [review EXCEPT !.pc = pc]
Stop == review' = NoTransaction
worldVars == <<session, journal, leaf>>

\* loadDiff freezes the diff; no changes, no hunk or no session list end the command.
Load ==
  /\ AtStage("idle") /\ review' = [review EXCEPT !.pc = "prepare", !.session = session]
  /\ hunk' = NoHunk   \* the pane of an earlier review, if it was left open, is not this one's
  /\ UNCHANGED <<worldVars, judged, saved, vanished>>

\* The journal as it is now, and the leaf it ends with.
Prepare ==
  /\ AtStage("prepare") /\ review.session = session
  /\ review' = [review EXCEPT !.pc = "launch", !.cutoff = leaf, !.shows = Active]
  /\ UNCHANGED <<worldVars, hunk, judged, saved, vanished>>

\* herdr splits a pane beside the session's.
SplitPane == AtStage("launch") /\ ReviewTo("run") /\ UNCHANGED <<worldVars, hunk, judged, saved, vanished>>

\* Hunk starts in it, on the frozen patch; if herdr cannot tell, it may still have started.
RunHunk ==
  /\ AtStage("run") /\ hunk' = [NoHunk EXCEPT !.open = TRUE] /\ (ReviewTo("discover") \/ Stop)
  /\ UNCHANGED <<worldVars, judged, saved, vanished>>

\* awaitLaunchedSession: the session that is new and whose process runs in the pane.
DiscoverHunk == AtStage("discover") /\ ReviewTo("confirm") /\ UNCHANGED <<worldVars, hunk, judged, saved, vanished>>

\* Submit or cancel.
ConfirmReview ==
  /\ AtStage("confirm") /\ ReviewTo("read") /\ UNCHANGED <<worldVars, hunk, judged, saved, vanished>>

ReadReview ==
  /\ AtStage("read") /\ hunk.open
  /\ review' = [review EXCEPT !.pc = "persist", !.read = hunk.notes]
  /\ UNCHANGED <<worldVars, hunk, judged, saved, vanished>>

\* The session is the one it started in, and the captured leaf is on the branch.
OwnsOrigin == session = review.session /\ (review.cutoff = 0 \/ review.cutoff \in Path)

\* The artifact names what was displayed and what was stale; it is saved before the pane closes.
Persist ==
  /\ AtStage("persist") /\ OwnsOrigin
  /\ saved' = saved \cup review.read /\ judged' = judged \cup review.shows /\ ReviewTo("close")
  /\ UNCHANGED <<worldVars, hunk, vanished>>

\* herdr pane close; if it fails the review goes on.
ClosePane ==
  /\ AtStage("close") /\ OwnsOrigin /\ ReviewTo("complete")
  /\ \/ hunk' = NoHunk /\ vanished' = vanished \cup ((hunk.notes \ saved) \ review.late)
     \/ UNCHANGED <<hunk, vanished>>
  /\ UNCHANGED <<worldVars, judged, saved>>

\* Mutant: a completed review consumes everything up to its own entry.
CompleteNow ==
  /\ AtStage("complete") /\ OwnsOrigin /\ Stop
  /\ AppendEntry([Entry("completed") EXCEPT !.through = leaf])
  /\ UNCHANGED <<session, hunk, judged, saved, vanished>>

\* recordDiffCompleted consumes through the captured leaf; the notes go to the agent.
Complete ==
  /\ AtStage("complete") /\ OwnsOrigin /\ Stop
  /\ AppendEntry([Entry("completed") EXCEPT !.through = review.cutoff])
  /\ UNCHANGED <<session, hunk, judged, saved, vanished>>

\* Every step may fail: the command ends, the pane stays open.
StopEarly == ~AtStage("idle") /\ Stop /\ UNCHANGED <<worldVars, hunk, judged, saved, vanished>>

JournalNext ==
  \/ \E r \in Remark : Record(r) \/ WithdrawRemark(r)
  \/ \E n \in UserNote : Scribble(n)
  \/ Reset \/ Navigate \/ ChangeSession
  \/ Load \/ Prepare \/ SplitPane \/ RunHunk \/ DiscoverHunk \/ ConfirmReview \/ ReadReview \/ Persist \/ ClosePane
  \/ Complete \/ StopEarly

JournalSpec == JournalInit /\ [][JournalNext]_journalVars

-----------------------------------------------------------------------------
\* A review is a transaction, whatever the agent records and wherever the user goes while
\* hunk is open: no note is destroyed before it is saved, and an annotation recorded since
\* the last reset stays active until it is withdrawn, or a saved review has judged it.
ReviewIsTransactional ==
  /\ vanished = {}
  /\ \A i \in Entries("recorded") :
       (\A j \in Entries("reset") : j < i) => i \in Active \cup judged \/ WithdrawnLater(i)
=============================================================================
