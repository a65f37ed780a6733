------------------------------ MODULE DiffReview ------------------------------
(***************************************************************************)
(* pi's /diff on one worktree.  The agent annotates its changeset in a     *)
(* sidecar file while it works; /diff opens the diff in a hunk pane, which *)
(* shows the sidecar, waits for the user, reads his notes back, closes the *)
(* pane and consumes the sidecar.  The notes live in hunk's memory only.   *)
(* The pane a /diff owns survives a failed one, and is drained by the next.*)
(* One /diff at a time; hunk sessions /diff did not open are left out.     *)
(***************************************************************************)
EXTENDS Naturals, FiniteSets

CONSTANTS
  Pane,       \* panes, one per /diff that opens one; its hunk session has its name
  Note,       \* the user's notes
  Annotation, \* the agent's annotations
  Base,       \* review bases (merge-bases)
  MaxCommits, \* bound on commits
  Missing

ASSUME DiffAssumption == MaxCommits \in Nat /\ Missing \notin Pane \cup Base

VARIABLES
  work,       \* the worktree's review base and its commits since
  commits,    \* how many commits there are
  sidecar,    \* annotations and the base they were recorded against
  pane,       \* each pane: its state and the notes in its hunk
  registered, \* panes whose hunk session the hunk daemon lists
  owned,      \* ownedReview: pane, session, and the launch's baseline
  checkpoint, \* base and HEAD of the last completed review
  diff,       \* the /diff that runs
  told,       \* notes delivered to the agent
  lost,       \* notes that /diff destroyed though it could have read them
  unseen,     \* annotations that /diff cleared and no review showed
  seen        \* commits a completed review showed

gitVars == <<work, commits, seen>>
diffVars == <<work, commits, sidecar, pane, registered, owned, checkpoint, diff, told, lost,
              unseen, seen>>

NoSidecar == [base |-> Missing, notes |-> {}]
NoReview == [pane |-> Missing, session |-> Missing, before |-> {}, known |-> FALSE]
NoCheckpoint == [base |-> Missing, last |-> {}]
NoDiff == [pc |-> "idle", last |-> FALSE, live |-> {}, base |-> Missing, head |-> {},
           advances |-> FALSE, pane |-> Missing, session |-> Missing, attached |-> FALSE,
           shown |-> {}, span |-> {}, read |-> {}, lateNotes |-> {}, lateRationale |-> {}]

DiffPc == {"idle", "resolve", "ancestor", "drain", "drainRead", "drainClose", "split", "launch",
           "discover", "confirm", "read", "close"}

DiffTypeOK ==
  /\ work \in [base : Base, hist : SUBSET (1..MaxCommits)] /\ commits \in 0..MaxCommits
  /\ sidecar \in [base : Base \cup {Missing}, notes : SUBSET Annotation]
  /\ pane \in [Pane -> [at : {"none", "shell", "typed", "hunk", "gone"}, notes : SUBSET Note]]
  /\ registered \subseteq Pane
  /\ owned \in [pane : Pane \cup {Missing}, session : Pane \cup {Missing}, before : SUBSET Pane,
                known : BOOLEAN]
  /\ checkpoint \in [base : Base \cup {Missing}, last : SUBSET (1..MaxCommits)]
  /\ diff.pc \in DiffPc /\ diff.session \in Pane \cup {Missing} /\ diff.read \subseteq Note
  /\ told \subseteq Note /\ lost \subseteq Note /\ unseen \subseteq Annotation
  /\ seen \subseteq 1..MaxCommits

DiffInit ==
  /\ work \in [base : Base, hist : {{}}] /\ commits = 0
  /\ sidecar = NoSidecar /\ pane = [p \in Pane |-> [at |-> "none", notes |-> {}]]
  /\ registered = {} /\ owned = NoReview /\ checkpoint = NoCheckpoint /\ diff = NoDiff
  /\ told = {} /\ lost = {} /\ unseen = {} /\ seen = {}

-----------------------------------------------------------------------------
\* The agent.

\* annotate_changeset: calls of one review base accumulate, another base replaces them.
\* An annotation recorded while a review shows the sidecar comes too late for it.
Annotate(a) ==
  /\ a \notin sidecar.notes
  /\ sidecar' = [base |-> work.base,
                 notes |-> {a} \cup IF sidecar.base = work.base THEN sidecar.notes ELSE {}]
  /\ diff' = IF diff.attached THEN [diff EXCEPT !.lateRationale = @ \cup {a}] ELSE diff
  /\ UNCHANGED <<pane, registered, owned, checkpoint, told, lost, unseen, gitVars>>

\* remove_annotation: the last one takes the sidecar with it.
Withdraw(a) ==
  /\ a \in sidecar.notes
  /\ sidecar' = IF sidecar.notes = {a} THEN NoSidecar ELSE [sidecar EXCEPT !.notes = @ \ {a}]
  /\ UNCHANGED <<pane, registered, owned, checkpoint, diff, told, lost, unseen, gitVars>>

Commit ==
  /\ commits < MaxCommits /\ commits' = commits + 1
  /\ work' = [work EXCEPT !.hist = @ \cup {commits + 1}]
  /\ UNCHANGED <<sidecar, pane, registered, owned, checkpoint, diff, told, lost, unseen, seen>>

\* An amend, a rebase, or another branch in the reused directory; not while /diff starts up.
Rewrite ==
  /\ commits < MaxCommits /\ commits' = commits + 1
  /\ diff.pc \in {"idle", "confirm"}
  /\ \E b \in Base : work' = [base |-> b, hist |-> {commits + 1}]
  /\ UNCHANGED <<sidecar, pane, registered, owned, checkpoint, diff, told, lost, unseen, seen>>

-----------------------------------------------------------------------------
\* Hunk and the user.

\* Hunk starts in the pane, reads the sidecar it was given, and registers.
HunkStarts(p) ==
  /\ pane[p].at = "typed" /\ pane' = [pane EXCEPT ![p].at = "hunk"]
  /\ diff' = IF diff.pane # p THEN diff
             ELSE [diff EXCEPT !.span = work.hist, !.lateRationale = {},
                               !.shown = IF diff.attached THEN sidecar.notes ELSE {}]
  /\ UNCHANGED <<sidecar, registered, owned, checkpoint, told, lost, unseen, gitVars>>

\* The hunk daemon comes and goes, its sessions register anew.
Register(p) ==
  /\ pane[p].at = "hunk" /\ p \notin registered /\ registered' = registered \cup {p}
  /\ UNCHANGED <<sidecar, pane, owned, checkpoint, diff, told, lost, unseen, gitVars>>

Unregister(p) ==
  /\ p \in registered /\ registered' = registered \ {p}
  /\ UNCHANGED <<sidecar, pane, owned, checkpoint, diff, told, lost, unseen, gitVars>>

\* A note written after /diff read the pane's notes is late.
WriteNote(p, n) ==
  /\ pane[p].at = "hunk" /\ n \notin told \cup lost /\ \A q \in Pane : n \notin pane[q].notes
  /\ pane' = [pane EXCEPT ![p].notes = @ \cup {n}]
  /\ diff' = IF diff.pc \in {"close", "drainClose"} THEN [diff EXCEPT !.lateNotes = @ \cup {n}] ELSE diff
  /\ UNCHANGED <<sidecar, registered, owned, checkpoint, told, lost, unseen, gitVars>>

\* The user closes the pane; his notes go with it.
UserCloses(p) ==
  /\ pane[p].at \in {"shell", "typed", "hunk"}
  /\ pane' = [pane EXCEPT ![p] = [at |-> "gone", notes |-> {}]] /\ registered' = registered \ {p}
  /\ UNCHANGED <<sidecar, owned, checkpoint, diff, told, lost, unseen, gitVars>>

-----------------------------------------------------------------------------
\* The command.

Goto(pc) == diff' = [diff EXCEPT !.pc = pc]
DiffEnds == diff' = NoDiff

\* Any step that runs a program may fail, and ends the command.
Fails ==
  /\ diff.pc \in {"resolve", "ancestor", "drainRead", "split", "read"} /\ DiffEnds
  /\ UNCHANGED <<sidecar, pane, registered, owned, checkpoint, told, lost, unseen, gitVars>>

\* /diff and /diff last: hunk's sessions are listed.
DiffStarts ==
  /\ diff.pc = "idle"
  /\ \E last \in BOOLEAN : diff' = [diff EXCEPT !.pc = "resolve", !.last = last, !.live = registered]
  /\ UNCHANGED <<sidecar, pane, registered, owned, checkpoint, told, lost, unseen, gitVars>>

\* resolveDiffTarget: the base, HEAD, and a checkpoint of another base is dropped.
Resolve ==
  /\ diff.pc = "resolve"
  /\ LET valid == checkpoint.base = work.base IN
       /\ checkpoint' = IF valid THEN checkpoint ELSE NoCheckpoint
       /\ diff' = [diff EXCEPT !.base = work.base, !.head = work.hist, !.advances = TRUE,
                               !.pc = IF diff.last /\ valid THEN "ancestor" ELSE "drain"]
  /\ UNCHANGED <<sidecar, pane, registered, owned, told, lost, unseen, gitVars>>

\* git merge-base --is-ancestor: /diff last follows a checkpoint in HEAD's history only.
IsAncestor ==
  /\ diff.pc = "ancestor"
  /\ LET follows == checkpoint.last \subseteq work.hist IN
       /\ checkpoint' = IF follows THEN checkpoint ELSE NoCheckpoint
       /\ diff' = [diff EXCEPT !.pc = "drain", !.advances = ~follows]
  /\ UNCHANGED <<sidecar, pane, registered, owned, told, lost, unseen, gitVars>>

\* drainOwnedReview: a pane that is gone is forgotten; else its session must be known and listed.
Drain ==
  LET fresh == diff.live \ owned.before
      found == owned.session = Missing /\ owned.known /\ Cardinality(fresh) = 1
      sessionId == IF found THEN CHOOSE p \in fresh : TRUE ELSE owned.session
  IN
  /\ diff.pc = "drain"
  /\ \/ owned = NoReview /\ Goto("split") /\ UNCHANGED owned
     \/ /\ owned # NoReview /\ owned.session \notin diff.live /\ pane[owned.pane].at = "gone"
        /\ owned' = NoReview /\ Goto("split")
     \/ /\ owned # NoReview /\ (owned.session \in diff.live \/ pane[owned.pane].at # "gone")
        /\ owned' = IF found THEN [owned EXCEPT !.session = sessionId, !.before = {}, !.known = FALSE]
                    ELSE owned
        /\ IF sessionId \in diff.live THEN Goto("drainRead") ELSE DiffEnds
  /\ UNCHANGED <<sidecar, pane, registered, checkpoint, told, lost, unseen, gitVars>>

\* hunk session comment list: it answers for a registered session.
Listed(p) == p \in registered

DrainRead ==
  /\ diff.pc = "drainRead" /\ Listed(owned.session)
  /\ diff' = [diff EXCEPT !.pc = "drainClose", !.read = pane[owned.session].notes]
  /\ UNCHANGED <<sidecar, pane, registered, owned, checkpoint, told, lost, unseen, gitVars>>

\* herdr pane close, which fails on a pane that is gone: what hunk held is destroyed.
Closes(p) ==
  /\ pane[p].at # "gone"
  /\ pane' = [pane EXCEPT ![p] = [at |-> "gone", notes |-> {}]]
  /\ registered' = registered \ {p} /\ lost' = lost \cup ((pane[p].notes \ diff.read) \ diff.lateNotes)
  /\ owned' = NoReview
NotClosed == UNCHANGED <<pane, registered, lost, owned>>

\* Notes that were recovered are delivered, and end the command.
DrainClose ==
  /\ diff.pc = "drainClose" /\ told' = told \cup diff.read
  /\ \/ /\ Closes(owned.pane)
        /\ IF diff.read = {} THEN diff' = [diff EXCEPT !.pc = "split", !.lateNotes = {}] ELSE DiffEnds
     \/ NotClosed /\ DiffEnds
  /\ UNCHANGED <<sidecar, checkpoint, unseen, gitVars>>

\* herdr pane split; rememberPane with the listing as the launch's baseline.
Split(p) ==
  /\ diff.pc = "split" /\ pane[p].at = "none" /\ pane' = [pane EXCEPT ![p].at = "shell"]
  /\ owned' = [pane |-> p, session |-> Missing, before |-> diff.live, known |-> TRUE]
  /\ diff' = [diff EXCEPT !.pc = "launch", !.pane = p]
  /\ UNCHANGED <<sidecar, registered, checkpoint, told, lost, unseen, gitVars>>

\* hunk diff <target>, with the sidecar if it was recorded against the base.
Launch ==
  /\ diff.pc = "launch"
  /\ \/ /\ pane[diff.pane].at = "shell" /\ pane' = [pane EXCEPT ![diff.pane].at = "typed"]
        /\ diff' = [diff EXCEPT !.pc = "discover", !.attached = sidecar.base = diff.base]
        /\ UNCHANGED <<registered, lost, owned>>
     \/ (Closes(diff.pane) \/ NotClosed) /\ DiffEnds
  /\ UNCHANGED <<sidecar, checkpoint, told, unseen, gitVars>>

\* awaitLaunchedSession polls: the one session that is new, an ambiguity, or it gives up.
Discover ==
  LET fresh == registered \ diff.live IN
  /\ diff.pc = "discover"
  /\ \/ /\ Cardinality(fresh) = 1
        /\ \E p \in fresh :
             /\ diff' = [diff EXCEPT !.pc = "confirm", !.session = p]
             /\ owned' = [owned EXCEPT !.session = p, !.before = {}, !.known = FALSE]
     \/ Cardinality(fresh) # 1 /\ DiffEnds /\ UNCHANGED owned
  /\ UNCHANGED <<sidecar, pane, registered, checkpoint, told, lost, unseen, gitVars>>

\* The user comes back; a cancel is read like a confirmation.
Confirm ==
  /\ diff.pc = "confirm" /\ Goto("read")
  /\ UNCHANGED <<sidecar, pane, registered, owned, checkpoint, told, lost, unseen, gitVars>>

\* Mutant: a read that fails counts as a review without notes.
ReadOrEmpty ==
  /\ diff.pc = "read"
  /\ diff' = [diff EXCEPT !.pc = "close", !.read = IF Listed(diff.session) THEN pane[diff.session].notes ELSE {}]
  /\ UNCHANGED <<sidecar, pane, registered, owned, checkpoint, told, lost, unseen, gitVars>>

ReadNotes ==
  /\ diff.pc = "read" /\ Listed(diff.session)
  /\ diff' = [diff EXCEPT !.pc = "close", !.read = pane[diff.session].notes]
  /\ UNCHANGED <<sidecar, pane, registered, owned, checkpoint, told, lost, unseen, gitVars>>

\* The pane is closed, the notes delivered, then consumeReview: the sidecar goes if this
\* review showed it, and a review of the full span moves the checkpoint to its HEAD.
CloseReview ==
  /\ diff.pc = "close" /\ (Closes(diff.pane) \/ NotClosed)
  /\ told' = told \cup diff.read
  /\ IF diff.attached
     THEN sidecar' = NoSidecar /\ unseen' = unseen \cup ((sidecar.notes \ diff.shown) \ diff.lateRationale)
     ELSE UNCHANGED <<sidecar, unseen>>
  /\ IF diff.advances
     THEN checkpoint' = [base |-> diff.base, last |-> diff.head] /\ seen' = seen \cup diff.span
     ELSE UNCHANGED <<checkpoint, seen>>
  /\ DiffEnds /\ UNCHANGED <<work, commits>>

DiffNext ==
  \/ \E a \in Annotation : Annotate(a) \/ Withdraw(a)
  \/ Commit \/ Rewrite
  \/ \E p \in Pane : \/ HunkStarts(p) \/ Register(p) \/ Unregister(p) \/ UserCloses(p) \/ Split(p)
                     \/ \E n \in Note : WriteNote(p, n)
  \/ Fails \/ DiffStarts \/ Resolve \/ IsAncestor \/ Drain \/ DrainRead \/ DrainClose
  \/ Launch \/ Discover \/ Confirm \/ ReadNotes \/ CloseReview

DiffSpec == DiffInit /\ [][DiffNext]_diffVars

-----------------------------------------------------------------------------
\* A review loses nothing to the program's own doing, whatever fails or is run again:
\* no note is destroyed but one written after the notes were read, no rationale is cleared
\* unshown but what was recorded while hunk had the sidecar open, and the checkpoint that
\* /diff last starts from leaves no commit behind that no completed review showed.
ReviewLosesNothing == lost = {} /\ unseen = {} /\ checkpoint.last \subseteq seen
=============================================================================
