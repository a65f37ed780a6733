---------------------------- MODULE RepositoryStatus ----------------------------
(***************************************************************************)
(* What the footer of a session says about its repository: the branch of   *)
(* the directory the session works in, and that branch's pull request.     *)
(* The tracker follows the workspace and the file HEAD, asks gh, keeps one *)
(* lookup under way, and drops the answers of those it gave up.  Heads     *)
(* move at any time, notices of it come late and together, lookups end in  *)
(* any order.  Left out: gh reads HEAD for itself, so it may look up       *)
(* another branch than it was asked for, one checked out for a while.      *)
(***************************************************************************)
EXTENDS Naturals, FiniteSets, FiniteSetsExt

CONSTANTS
  Directory,
  GitBranch,
  Detached,        \* what a detached HEAD shows as
  Null,            \* null of the code
  MaxMoves,        \* bound on moves of heads
  MaxGeneration    \* bound on the generations of lookups

ASSUME RepositoryStatusAssumption ==
  /\ Detached \notin GitBranch /\ Null \notin GitBranch \cup Directory \cup {Detached}
  /\ MaxMoves \in Nat /\ MaxGeneration \in Nat

VARIABLES
  heads,     \* what is checked out in each directory; Null if HEAD cannot be read
  moves,     \* counter of their moves
  tracker,   \* the fields of RepositoryStatusTracker; owed and newest are ghosts
  lookups,   \* runs of runLookup that have not ended
  noticed    \* the watcher of HEAD has an event to deliver

statusVars == <<heads, moves, tracker, lookups, noticed>>

\* A pull request is told by the lookup that found it.  owed: a refresh was asked for, and no
\* lookup has started since; newest: the last lookup whose answer was shown for the key.
NoTracker ==
  [targetDirectory |-> Null, branchCache |-> Null, fallbackBranch |-> Null, watching |-> FALSE,
   pullRequestKey |-> Null, pullRequest |-> Null, activeLookup |-> 0, lookupGeneration |-> 0,
   refreshPending |-> FALSE, disposed |-> FALSE, owed |-> FALSE, newest |-> 0]

Key == Directory \X GitBranch

RepositoryStatusTypeOK ==
  /\ heads \in [Directory -> GitBranch \cup {Detached, Null}]
  /\ moves \in 0..MaxMoves /\ tracker.lookupGeneration \in 0..MaxGeneration
  /\ tracker.targetDirectory \in Directory \cup {Null} /\ tracker.pullRequestKey \in Key \cup {Null}
  /\ \A l \in lookups : l.generation \in 1..tracker.lookupGeneration /\ l.key \in Key
  /\ noticed \in BOOLEAN

\* Before the footer is set.
StatusInit ==
  /\ heads \in [Directory -> GitBranch] /\ moves = 0
  /\ tracker = NoTracker /\ lookups = {} /\ noticed = FALSE

-----------------------------------------------------------------------------
\* The tracker's methods, on its fields.

GetBranch(t) == IF t.branchCache # Null THEN t.branchCache ELSE t.fallbackBranch

Refresh(t) ==
  IF t.disposed \/ t.targetDirectory = Null \/ t.pullRequestKey = Null THEN t
  ELSE IF t.activeLookup # 0 THEN [t EXCEPT !.refreshPending = TRUE, !.owed = TRUE]
  ELSE [t EXCEPT !.lookupGeneration = @ + 1, !.activeLookup = t.lookupGeneration + 1,
                 !.owed = FALSE]

CancelLookup(t) ==
  [t EXCEPT !.lookupGeneration = @ + 1, !.activeLookup = 0, !.refreshPending = FALSE]

KeyOf(t) ==
  IF t.targetDirectory # Null /\ GetBranch(t) \in GitBranch THEN <<t.targetDirectory, GetBranch(t)>>
  ELSE Null

SyncPullRequestTarget(t) ==
  IF KeyOf(t) = t.pullRequestKey THEN t
  ELSE Refresh([CancelLookup(t) EXCEPT !.pullRequestKey = KeyOf(t), !.pullRequest = Null, !.newest = 0])

\* The tracker's fields from now on, and the lookup they start, if they do.
Become(t, others) ==
  /\ t.lookupGeneration <= MaxGeneration /\ tracker' = t
  /\ lookups' = others \cup
       IF t.activeLookup \in {0, tracker.activeLookup} THEN {}
       ELSE {[generation |-> t.activeLookup, key |-> t.pullRequestKey]}

-----------------------------------------------------------------------------
\* What the tracker hears.

\* resolveGitHeadPath, readBranchFromHead: the branch, a detached head, or neither.
ReadBranchFromHead(d) == heads[d]

\* The workspace, its effective directory or the branch pi knows has changed.  HEAD is read
\* only for another directory, and watched from then on, unless watching fails: somebody
\* may move it in between.
SyncTarget(directory, fallback, watching, slips) ==
  LET t == [tracker EXCEPT !.fallbackBranch = fallback]
      changed == directory # tracker.targetDirectory
  IN /\ ~tracker.disposed
     /\ watching => changed /\ heads[directory] # Null
     /\ IF changed
        THEN Become(SyncPullRequestTarget([t EXCEPT !.targetDirectory = directory,
               !.branchCache = ReadBranchFromHead(directory), !.watching = watching]), lookups)
        ELSE Become(SyncPullRequestTarget(t), lookups)
     /\ noticed' = (noticed /\ ~changed)
     /\ IF slips = heads[directory] THEN UNCHANGED <<heads, moves>>
        ELSE /\ changed /\ moves < MaxMoves /\ moves' = moves + 1
             /\ heads' = [heads EXCEPT ![directory] = slips]

\* The watcher's listener reads HEAD, whatever happened to it.
HeadNoticed ==
  /\ noticed /\ noticed' = FALSE
  /\ Become(SyncPullRequestTarget([tracker EXCEPT !.branchCache = ReadBranchFromHead(tracker.targetDirectory)]), lookups)
  /\ UNCHANGED <<heads, moves>>

\* Every five minutes, and when the agent settles.
RefreshAsked ==
  /\ Refresh(tracker) # tracker /\ Become(Refresh(tracker), lookups)
  /\ UNCHANGED <<heads, moves, noticed>>

\* RepositoryStatusTracker.dispose: it shows nothing, and never will again.
Disposed(t) ==
  [CancelLookup(t) EXCEPT !.disposed = TRUE, !.targetDirectory = Null, !.watching = FALSE,
     !.fallbackBranch = Null, !.branchCache = Null, !.pullRequest = Null, !.pullRequestKey = Null]

\* The footer is disposed of, or the session ends.
Dispose ==
  /\ tracker.targetDirectory # Null /\ Become(Disposed(tracker), lookups)
  /\ noticed' = FALSE /\ UNCHANGED <<heads, moves>>

-----------------------------------------------------------------------------
\* gh pr view.

\* lookupPullRequestStatus: a pull request, or none, which every failure is too.
LookupPullRequestStatus(l) == {l, Null}

\* Mutant: an answer is good for the key it was asked for.
AcceptsByKey(l) == ~tracker.disposed /\ l.key = tracker.pullRequestKey

Accepts(l) ==
  ~tracker.disposed /\ l.generation = tracker.lookupGeneration /\ l.key = tracker.pullRequestKey

\* The answer is shown if it is a pull request; the active lookup gives way to the refresh that
\* waits, and an equal answer changes nothing anyone can tell.
RunLookupEnds(l, answer) ==
  LET shown == IF answer # Null /\ Accepts(l)
               THEN [tracker EXCEPT !.pullRequest = answer, !.newest = Max({@, l.generation})]
               ELSE tracker
      ended == [shown EXCEPT !.activeLookup = 0, !.refreshPending = FALSE]
      next == IF l.generation # tracker.activeLookup THEN shown
              ELSE IF tracker.refreshPending THEN Refresh(ended) ELSE ended
  IN /\ l \in lookups /\ Become(next, lookups \ {l}) /\ UNCHANGED <<heads, moves, noticed>>

-----------------------------------------------------------------------------
MoveHead(d, head) ==
  /\ moves < MaxMoves /\ moves' = moves + 1
  /\ head # heads[d] /\ heads' = [heads EXCEPT ![d] = head]
  /\ noticed' = (noticed \/ (tracker.watching /\ tracker.targetDirectory = d))
  /\ UNCHANGED <<tracker, lookups>>

StatusNext ==
  \/ \E d \in Directory, fallback \in GitBranch \cup {Null}, watching \in BOOLEAN :
       \E slips \in GitBranch \cup {heads[d]} : SyncTarget(d, fallback, watching, slips)
  \/ \E l \in lookups : \E answer \in LookupPullRequestStatus(l) : RunLookupEnds(l, answer)
  \/ \E d \in Directory, head \in GitBranch \cup {Detached, Null} : MoveHead(d, head)
  \/ HeadNoticed \/ RefreshAsked \/ Dispose

StatusSpec == StatusInit /\ [][StatusNext]_statusVars

-----------------------------------------------------------------------------
\* The pull request shown was looked up for the directory and branch shown, by the latest
\* lookup that has found one since they are shown.
ShownFits ==
  /\ tracker.pullRequestKey = KeyOf(tracker)
  /\ tracker.pullRequest # Null =>
       /\ tracker.pullRequest.key = tracker.pullRequestKey
       /\ tracker.pullRequest.generation = tracker.newest

\* The active lookup is under way; without one, no refresh that was asked for is forgotten.
NoRefreshLost ==
  /\ tracker.activeLookup # 0 => \E l \in lookups : l.generation = tracker.activeLookup
  /\ tracker.pullRequestKey # Null /\ tracker.activeLookup = 0 => ~tracker.owed

\* However heads move, sessions change directory, and lookups are late, fail or outlive what
\* they were for: the footer's pull request fits its branch and is the latest one looked up.
FooterIsCurrent == ShownFits /\ NoRefreshLost
===============================================================================
