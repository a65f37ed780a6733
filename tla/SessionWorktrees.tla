--------------------------- MODULE SessionWorktrees ---------------------------
(***************************************************************************)
(* The worktrees of top-level sessions in one repository.  A session       *)
(* adopts, attaches, creates or rebuilds a worktree and leases it by its   *)
(* git lock; launch_workstream stages one under a lock of its own.  A      *)
(* worktree goes when its session quits, when the sweep at the start of    *)
(* any session finds it cold and clean, or when a user prunes it.  The     *)
(* processes share nothing but git, and act on it one command at a time.   *)
(***************************************************************************)
EXTENDS Naturals

CONSTANTS
  Session,
  Label,      \* worktree directories
  Legacy,     \* labels that are still below the bare repository name
  Branch,
  NoBranch,   \* a detached head, or no branch asked for
  MaxUses     \* bound on commands, session starts and expiries taken together

ASSUME SessionWorktreesAssumption ==
  /\ Legacy \subseteq Label /\ "none" \notin Label /\ NoBranch \notin Branch /\ MaxUses \in Nat
  /\ Session \cap {"nobody", "staged", "foreign"} = {}

VARIABLES
  dir,        \* the registered worktrees
  branches,   \* the branches that exist
  sess,       \* the sessions
  overtook,   \* <<s, l>>: l was locked anew after s had listed it as one to remove
  wasted,     \* labels whose uncommitted work went without a confirmation
  written,    \* labels written to after somebody had found them clean
  uses        \* commands, session starts and expiries so far

treeVars == <<dir, branches, sess, overtook, wasted, written, uses>>

\* A lock reason: whose, and whether its timestamp is within the time to live.
NotLocked == [by |-> "nobody", fresh |-> FALSE]
Lock == [by : Session \cup {"nobody", "staged", "foreign"}, fresh : BOOLEAN]
Nowhere == [there |-> FALSE, branch |-> NoBranch, lock |-> NotLocked, dirty |-> FALSE, legacy |-> FALSE]

SessionPc == {"off", "leaseRead", "leaseUnlock", "leaseLock", "migrate", "enter", "resolve", "get", "add",
              "stageRead", "stageUnlock", "stageLock", "list", "next", "status", "unlock", "remove",
              "deleteBranch", "idle"}
\* What the steps are for.
Purpose == {"adopt", "attach", "activate", "stage", "sweep", "quit", "prune"}

NoWant == [label |-> "none", branch |-> NoBranch]
OffSession == [pc |-> "off", for |-> "adopt", starting |-> FALSE, at |-> "none", want |-> NoWant,
               saved |-> NoWant, doomed |-> {}, victim |-> "none", sure |-> {}]

SessionWorktreesTypeOK ==
  /\ \A l \in Label : /\ dir[l].there \in BOOLEAN /\ dir[l].branch \in Branch \cup {NoBranch}
                      /\ dir[l].lock \in Lock /\ dir[l].dirty \in BOOLEAN
  /\ branches \subseteq Branch
  /\ \A s \in Session : /\ sess[s].pc \in SessionPc /\ sess[s].for \in Purpose
                        /\ sess[s].at \in Label \cup {"none"} /\ sess[s].doomed \subseteq Label
  /\ overtook \subseteq Session \X Label /\ wasted \cup written \subseteq Label

\* One worktree may be there: without a lock, or with one that is not a session's.
TreesInit ==
  /\ \E l \in Label, b \in Branch, k \in {NotLocked, [by |-> "foreign", fresh |-> TRUE]}, there \in BOOLEAN :
       /\ dir = [m \in Label |-> IF there /\ m = l
                   THEN [Nowhere EXCEPT !.there = TRUE, !.branch = b, !.lock = k, !.legacy = l \in Legacy]
                   ELSE Nowhere]
       /\ branches = IF there THEN {b} ELSE {}
  /\ sess = [s \in Session |-> OffSession]
  /\ overtook = {} /\ wasted = {} /\ written = {} /\ uses = 0

-----------------------------------------------------------------------------
\* Helpers.

There(l) == l \in Label /\ dir[l].there
InUse(b) == \E l \in Label : dir[l].there /\ dir[l].branch = b

\* classifySessionWorktree; a lock past its time to live is cold, as is no lock.
Classify(l) ==
  IF dir[l].lock.by = "foreign" THEN "foreign" ELSE IF dir[l].lock.fresh THEN "live" ELSE "cold"

Goes(s, new) == sess' = [sess EXCEPT ![s] = new]
At(s, pc) == sess[s].pc = pc
ghosts == <<overtook, wasted, written, uses>>
Use == uses < MaxUses /\ uses' = uses + 1
gitState == <<dir, branches>>

Idle(r) == [r EXCEPT !.pc = "idle", !.for = "attach", !.starting = FALSE, !.want = NoWant,
                     !.victim = "none", !.doomed = {}, !.sure = {}]

\* After a lease or a failed activation: what session_start does next, or the prompt again.
Onward(r) ==
  CASE ~r.starting -> Idle(r)
    [] r.starting /\ r.for = "adopt" -> [r EXCEPT !.pc = "migrate"]
    [] OTHER -> [r EXCEPT !.pc = "list", !.for = "sweep", !.want = NoWant]

\* applyWorktree: the active worktree, remembered in the session's state.
Apply(r, l) ==
  [r EXCEPT !.at = l, !.saved = [label |-> l, branch |-> dir[l].branch], !.pc = "leaseRead"]

\* attachWorktreeDir: only what git lists as a worktree can be attached.
AttachWorktreeDir(s, r, l) == There(l) /\ Goes(s, Apply(r, l))

\* t has read the lock of l, to remove l or to stage it anew.
Judged(t, l) ==
  l \in sess[t].doomed \/ sess[t].victim = l \/ (sess[t].pc = "stageUnlock" /\ sess[t].want.label = l)

Overtakes(l) == overtook' = overtook \cup {<<t, l>> : t \in {u \in Session : Judged(u, l)}}

PutLock(l, by) ==
  /\ dir' = [dir EXCEPT ![l].lock = [by |-> by, fresh |-> TRUE]]
  /\ Overtakes(l)

\* What t read before no longer matters.
Forget(t) == {p \in overtook : p[1] # t}

-----------------------------------------------------------------------------
\* Leases.

\* acquireSessionLease: a lock that is neither a lease nor staged is left alone.
LeaseRead(s) ==
  /\ At(s, "leaseRead")
  /\ Goes(s, IF There(sess[s].at) /\ dir[sess[s].at].lock.by = "foreign"
             THEN Onward(sess[s]) ELSE [sess[s] EXCEPT !.pc = "leaseUnlock"])
  /\ UNCHANGED <<gitState, ghosts>>

\* Git cannot replace a reason, and its "already locked" and "not a worktree" are tolerated.
Unlocked(l) == dir' = IF There(l) THEN [dir EXCEPT ![l].lock = NotLocked] ELSE dir

LeaseUnlock(s) ==
  /\ At(s, "leaseUnlock") /\ Unlocked(sess[s].at) /\ Goes(s, [sess[s] EXCEPT !.pc = "leaseLock"])
  /\ UNCHANGED <<branches, ghosts>>

LeaseLock(s) ==
  /\ At(s, "leaseLock") /\ Goes(s, Onward(sess[s]))
  /\ IF There(sess[s].at) /\ dir[sess[s].at].lock = NotLocked
     THEN PutLock(sess[s].at, s) ELSE UNCHANGED <<dir, overtook>>
  /\ UNCHANGED <<branches, wasted, written, uses>>

\* stageWorktreeLock, over a lock that is cold.
StageRead(s) ==
  /\ At(s, "stageRead")
  /\ LET l == sess[s].want.label IN
     Goes(s, IF There(l) /\ dir[l].lock # NotLocked /\ Classify(l) # "cold"
             THEN Onward(sess[s]) ELSE [sess[s] EXCEPT !.pc = "stageUnlock"])
  /\ overtook' = Forget(s) /\ UNCHANGED <<gitState, wasted, written, uses>>

StageUnlock(s) ==
  /\ At(s, "stageUnlock") /\ Unlocked(sess[s].want.label) /\ Goes(s, [sess[s] EXCEPT !.pc = "stageLock"])
  /\ UNCHANGED <<branches, ghosts>>

StageLock(s) ==
  /\ At(s, "stageLock") /\ Goes(s, Onward(sess[s]))
  /\ LET l == sess[s].want.label IN
     IF There(l) /\ dir[l].lock = NotLocked THEN PutLock(l, "staged") ELSE UNCHANGED <<dir, overtook>>
  /\ UNCHANGED <<branches, wasted, written, uses>>

-----------------------------------------------------------------------------
\* session_start.

\* initialize: a session launched inside a worktree adopts it.  A resumed session has
\* its own saved worktree, a forked one that of the session it came from.
Start(s) ==
  /\ Use /\ At(s, "off")
  /\ \E from \in {sess[t].saved : t \in Session} \cup {NoWant}, l \in Label \cup {"none"} :
       LET r == [OffSession EXCEPT !.starting = TRUE, !.want = from, !.saved = sess[s].saved] IN
       /\ l # "none" => dir[l].there
       /\ Goes(s, IF l = "none" THEN [r EXCEPT !.pc = "migrate"] ELSE [Apply(r, l) EXCEPT !.want = from])
  /\ UNCHANGED <<gitState, overtook, wasted, written>>

\* migrateLegacyWorktrees: git moves no locked worktree, and the session's own stays.
\* A session at work in a moved directory has lost it.
Migrate(s) ==
  /\ At(s, "migrate")
  /\ dir' = [l \in Label |-> IF dir[l].there /\ dir[l].legacy /\ l # sess[s].at /\ dir[l].lock = NotLocked
                             THEN [dir[l] EXCEPT !.legacy = FALSE] ELSE dir[l]]
  /\ Goes(s, [sess[s] EXCEPT !.pc = "enter"])
  /\ UNCHANGED <<branches, ghosts>>

\* --worktree-dir, or the saved worktree (unless it was just adopted), or neither.
Enter(s) ==
  /\ At(s, "enter")
  /\ LET r == [sess[s] EXCEPT !.for = "attach"] IN
     \/ \E l \in Label : AttachWorktreeDir(s, r, l)
     \/ /\ r.want # NoWant /\ r.want.label # r.at
        /\ Goes(s, [r EXCEPT !.for = "activate", !.pc = "get"])
     \/ Goes(s, Onward(r))
  /\ UNCHANGED <<gitState, ghosts>>

-----------------------------------------------------------------------------
\* Activation, by /worktree, a plan's handoff, a resume, or launch_workstream.

\* /worktree <label>, or the picker's existing worktree.
Switch(s) ==
  /\ Use /\ At(s, "idle")
  /\ \E l \in Label \ {sess[s].at} : AttachWorktreeDir(s, [sess[s] EXCEPT !.for = "attach"], l)
  /\ UNCHANGED <<gitState, overtook, wasted, written>>

\* resolveAvailableWorktreeLabel: a free label, or one that holds this branch already.
Available(l, b) == dir[l].there => dir[l].branch = b

\* createWorktreeFlow, or a plan's handoff.
Create(s) ==
  /\ Use /\ At(s, "idle")
  /\ \E l \in Label, b \in Branch :
       /\ Available(l, b)
       /\ Goes(s, [sess[s] EXCEPT !.pc = "get", !.for = "activate", !.want = [label |-> l, branch |-> b]])
  /\ UNCHANGED <<gitState, overtook, wasted, written>>

\* launch_workstream: the branch must not be checked out under another label.
LaunchWorkstream(s) ==
  /\ Use /\ At(s, "idle")
  /\ \E l \in Label, b \in Branch :
       /\ ~\E m \in Label \ {l} : dir[m].there /\ dir[m].branch = b
       /\ Goes(s, [sess[s] EXCEPT !.pc = "get", !.for = "stage", !.want = [label |-> l, branch |-> b]])
  /\ UNCHANGED <<gitState, overtook, wasted, written>>

\* getOrCreateWorktree: a worktree registered at the label is used as it is.
Get(s) ==
  /\ At(s, "get")
  /\ LET r == sess[s] IN
     Goes(s, CASE ~There(r.want.label) /\ r.want.branch = NoBranch -> Onward(r)
               [] ~There(r.want.label) /\ r.want.branch # NoBranch -> [r EXCEPT !.pc = "add"]
               [] r.for = "stage" -> [r EXCEPT !.pc = "stageRead"]
               [] OTHER -> Apply(r, r.want.label))
  /\ UNCHANGED <<gitState, ghosts>>

\* git worktree add, staged ones with their lock; it fails on a branch in use.
Add(s) ==
  /\ At(s, "add")
  /\ LET r == sess[s]
         l == r.want.label
         b == r.want.branch
         new == [there |-> TRUE, branch |-> b, dirty |-> FALSE, legacy |-> FALSE,
                 lock |-> IF r.for = "stage" THEN [by |-> "staged", fresh |-> TRUE] ELSE NotLocked]
     IN  IF dir[l].there \/ InUse(b)
         THEN Goes(s, Onward(r)) /\ UNCHANGED <<gitState, overtook>>
         ELSE /\ dir' = [dir EXCEPT ![l] = new] /\ branches' = branches \cup {b} /\ Overtakes(l)
              /\ Goes(s, IF r.for = "stage" THEN [r EXCEPT !.pc = "stageRead"]
                         ELSE [r EXCEPT !.at = l, !.saved = r.want, !.pc = "leaseRead"])
  /\ UNCHANGED <<wasted, written, uses>>

-----------------------------------------------------------------------------
\* Removal.

\* Mutant: the session's worktree goes whoever holds the lease.
ToRemoveAnyLease(s) ==
  CASE sess[s].for = "sweep" -> {l \in Label : dir[l].there /\ Classify(l) = "cold"}
    [] sess[s].for = "quit"  -> {l \in Label : There(l) /\ l = sess[s].at}
    [] OTHER -> {}

\* reapOwnedSessionWorktree: the session's own worktree, if it holds the lease.
Owned(s) == {l \in Label : There(l) /\ l = sess[s].at /\ dir[l].lock.by = s}

\* sweepSessionWorktrees, unless --nc: what is cold in one listing.
\* runWorktreePrune: any but the active one; not cold needs a confirmation.
ToRemove(s) ==
  CASE sess[s].for = "sweep" -> {l \in Label : dir[l].there /\ Classify(l) = "cold"}
    [] sess[s].for = "quit"  -> Owned(s)
    [] OTHER -> {}

List(s) ==
  /\ At(s, "list")
  /\ \/ Goes(s, [sess[s] EXCEPT !.doomed = ToRemove(s), !.pc = "next"])
     \/ sess[s].for = "sweep" /\ Goes(s, Idle(sess[s]))
  /\ overtook' = Forget(s)
  /\ UNCHANGED <<gitState, wasted, written, uses>>

\* One at a time; then the session is up, or gone.
Next1(s) ==
  /\ At(s, "next")
  /\ LET r == sess[s] IN
     IF r.doomed # {}
     THEN \E l \in r.doomed : Goes(s, [r EXCEPT !.doomed = @ \ {l}, !.victim = l, !.pc = "status"])
     ELSE Goes(s, IF r.for = "quit" THEN [OffSession EXCEPT !.saved = r.saved]
                  ELSE Idle(r))
  /\ UNCHANGED <<gitState, ghosts>>

PruneList(s) ==
  /\ Use /\ At(s, "idle")
  /\ \E l \in Label : /\ There(l) /\ l # sess[s].at
                      /\ Goes(s, [sess[s] EXCEPT !.for = "prune", !.pc = "status", !.victim = l,
                                                 !.sure = IF Classify(l) = "cold" THEN {} ELSE {"inUse"}])
  /\ overtook' = Forget(s)
  /\ UNCHANGED <<gitState, wasted, written>>

Kept(s) == [sess[s] EXCEPT !.pc = "next", !.victim = "none", !.sure = {}]

\* Mutant: a failed git status counts as clean.
StatusUnread(s) ==
  /\ At(s, "status")
  /\ Goes(s, [sess[s] EXCEPT !.pc = "unlock"])
  /\ UNCHANGED <<gitState, ghosts>>

\* isWorktreeClean, also FALSE when git status fails; a user may confirm a dirty one.
Status(s) ==
  /\ At(s, "status")
  /\ LET clean == There(sess[s].victim) /\ ~dir[sess[s].victim].dirty IN
     \/ clean /\ Goes(s, [sess[s] EXCEPT !.pc = "unlock"])
     \/ ~clean /\ sess[s].for = "prune" /\ Goes(s, [sess[s] EXCEPT !.pc = "unlock", !.sure = @ \cup {"dirty"}])
     \/ (~clean \/ sess[s].for = "prune") /\ Goes(s, Kept(s))
  /\ UNCHANGED <<gitState, ghosts>>

\* removeWorktree: unlock, then remove --force, which still refuses a locked worktree.
Unlock(s) ==
  /\ At(s, "unlock") /\ Unlocked(sess[s].victim) /\ Goes(s, [sess[s] EXCEPT !.pc = "remove"])
  /\ UNCHANGED <<branches, ghosts>>

PruneRemove(s) ==
  /\ At(s, "remove")
  /\ LET l == sess[s].victim IN
     IF There(l) /\ dir[l].lock = NotLocked
     THEN /\ dir' = [dir EXCEPT ![l] = Nowhere]
          /\ wasted' = IF dir[l].dirty /\ "dirty" \notin sess[s].sure THEN wasted \cup {l} ELSE wasted
          /\ \/ Goes(s, Kept(s))
             \/ sess[s].for = "prune" /\ dir[l].branch # NoBranch
                /\ Goes(s, [Kept(s) EXCEPT !.pc = "deleteBranch", !.want = [label |-> l, branch |-> dir[l].branch]])
     ELSE Goes(s, Kept(s)) /\ UNCHANGED <<dir, wasted>>
  /\ UNCHANGED <<branches, overtook, written, uses>>

\* git branch -D, on a second confirmation; a branch in use stays.
PruneBranch(s) ==
  /\ At(s, "deleteBranch") /\ Goes(s, Kept(s))
  /\ branches' = IF InUse(sess[s].want.branch) THEN branches ELSE branches \ {sess[s].want.branch}
  /\ UNCHANGED <<dir, ghosts>>

\* session_shutdown: only quit reaps; reload, new, resume and fork do not, nor does a crash.
Quit(s) ==
  /\ At(s, "idle") /\ sess[s].at # "none" /\ Goes(s, [sess[s] EXCEPT !.pc = "list", !.for = "quit"])
  /\ UNCHANGED <<gitState, ghosts>>

SessionEnds(s) ==
  /\ sess[s].pc # "off" /\ Goes(s, [OffSession EXCEPT !.saved = sess[s].saved])
  /\ UNCHANGED <<gitState, ghosts>>

-----------------------------------------------------------------------------
\* Work, and time.

Write(s) ==
  /\ At(s, "idle") /\ There(sess[s].at) /\ ~dir[sess[s].at].dirty
  /\ dir' = [dir EXCEPT ![sess[s].at].dirty = TRUE]
  /\ written' = IF \E t \in Session : sess[t].victim = sess[s].at /\ sess[t].pc \in {"unlock", "remove"}
                THEN written \cup {sess[s].at} ELSE written
  /\ UNCHANGED <<branches, sess, overtook, wasted, uses>>

CommitWork(s) ==
  /\ At(s, "idle") /\ There(sess[s].at) /\ dir[sess[s].at].dirty
  /\ dir' = [dir EXCEPT ![sess[s].at].dirty = FALSE]
  /\ UNCHANGED <<branches, sess, ghosts>>

\* A day passes over a lease, an hour over a staged lock.
LockExpires(l) ==
  /\ Use /\ dir[l].lock.fresh /\ dir[l].lock.by # "foreign" /\ dir' = [dir EXCEPT ![l].lock.fresh = FALSE]
  /\ UNCHANGED <<branches, sess, overtook, wasted, written>>

SessionStep(s) ==
  \/ LeaseRead(s) \/ LeaseUnlock(s) \/ LeaseLock(s) \/ StageRead(s) \/ StageUnlock(s) \/ StageLock(s)
  \/ Start(s) \/ Migrate(s) \/ Enter(s) \/ Switch(s) \/ Create(s) \/ LaunchWorkstream(s) \/ Get(s) \/ Add(s)
  \/ List(s) \/ Next1(s) \/ PruneList(s) \/ Status(s) \/ Unlock(s) \/ PruneRemove(s) \/ PruneBranch(s)
  \/ Quit(s) \/ SessionEnds(s) \/ Write(s) \/ CommitWork(s)

TreesNext == (\E s \in Session : SessionStep(s)) \/ (\E l \in Label : LockExpires(l))

TreesSpec == TreesInit /\ [][TreesNext]_treeVars

-----------------------------------------------------------------------------
\* reapSessionWorktree never discards uncommitted work, and prune only confirmed: what a
\* removal takes along was written after that removal's own git status.
UncommittedWorkKept == wasted \subseteq written

\* A fresh lease or staged lock protects its worktree: nobody breaks it but the session
\* that takes it over, its owner quitting, a user who confirms, or a removal or a staging
\* whose listing is older than the lock.
FreshLockIsKept ==
  [][\A l \in Label : dir[l].lock.fresh /\ dir[l].lock.by # "foreign" /\ dir'[l].lock = NotLocked
       => \E s \in Session :
            \/ sess[s].pc = "leaseUnlock" /\ sess[s].at = l
            \/ sess[s].pc = "stageUnlock" /\ sess[s].want.label = l /\ <<s, l>> \in overtook
            \/ /\ sess[s].pc = "unlock" /\ sess[s].victim = l
               /\ \/ <<s, l>> \in overtook \/ "inUse" \in sess[s].sure
                  \/ sess[s].for = "quit" /\ dir[l].lock.by = s]_treeVars
=============================================================================
