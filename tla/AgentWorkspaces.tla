--------------------------- MODULE AgentWorkspaces ---------------------------
(***************************************************************************)
(* The git workspaces of dispatched agents.  A dispatch tool provisions a  *)
(* locked worktree, on the handle's branch or detached, and sends the      *)
(* dispatch frame; from acceptance on the daemon owns its teardown.        *)
(* Dispatchers, daemon, its periodic sweep and the runs share one repo and *)
(* act on it one git command at a time; the daemon may crash.              *)
(* A branch is "fresh" at its base, has "work" of its own, or is "merged". *)
(***************************************************************************)
EXTENDS Naturals

CONSTANTS
  Token,     \* workspaces, one per dispatch attempt
  Handle,    \* agent handles; a handle keys the branch agent/<handle>
  Attempts,  \* how often a fresh dispatch tries, on a duplicate handle
  MaxCrash,  \* bound on daemon crashes
  MayAge,    \* whether a run may last longer than STALE_LOCK_SECONDS
  None

ASSUME WorkspaceAssumption ==
  /\ Attempts \in Nat \ {0} /\ MaxCrash \in Nat /\ MayAge \in BOOLEAN
  /\ None \notin Token \cup Handle

VARIABLES
  branch,   \* branch agent/<h>
  tree,     \* the worktree of each token
  att,      \* the dispatch attempt of each token
  agent,    \* handles the daemon knows an agent for
  run,      \* the run's process
  row,      \* the daemon's row of the run
  tear,     \* teardown_agent_workspace of each run
  sweep,    \* _sweep_repo
  crashes,
  discarded,\* handles whose branch was deleted with work of its own
  overtaken \* handles committed to while somebody was about to delete the branch

wsVars == <<branch, tree, att, agent, run, row, tear, sweep, crashes, discarded, overtaken>>

Kind == {"deliverable", "retask", "report"}
AttemptPc == {"idle", "dropMerged", "mint", "continue", "detach", "launch", "sent", "dropTree",
              "dropBranch", "again", "done"}
NoTree == [there |-> FALSE, on |-> None, lock |-> "none"]

WsTypeOK ==
  /\ branch \in [Handle -> {"none", "fresh", "work", "merged"}]
  /\ tree \in [Token -> [there : BOOLEAN, on : Handle \cup {None}, lock : {"none", "fresh", "stale"}]]
  /\ att \in [Token -> [pc : AttemptPc, kind : Kind, handle : Handle \cup {None},
                        created : BOOLEAN, retry : BOOLEAN, try : 1..Attempts]]
  /\ agent \subseteq Handle
  /\ run \in [Token -> {"none", "live", "ended"}]
  /\ row \in [Token -> {"none", "open", "final"}]
  /\ tear \in [Token -> {"no", "remove", "count", "delete"}]
  /\ sweep \in [pc : {"idle", "listed"}, out : SUBSET Handle, trees : SUBSET Token,
                tree : Token \cup {None}, victim : Handle \cup {None}]
  /\ crashes \in Nat /\ discarded \subseteq Handle /\ overtaken \subseteq Handle

NoSweep == [pc |-> "idle", out |-> {}, trees |-> {}, tree |-> None, victim |-> None]

WsInit ==
  /\ branch = [h \in Handle |-> "none"] /\ tree = [t \in Token |-> NoTree]
  /\ att = [t \in Token |-> [pc |-> "idle", kind |-> "report", handle |-> None,
                             created |-> FALSE, retry |-> FALSE, try |-> 1]]
  /\ agent = {} /\ run = [t \in Token |-> "none"] /\ row = [t \in Token |-> "none"]
  /\ tear = [t \in Token |-> "no"] /\ sweep = NoSweep
  /\ crashes = 0 /\ discarded = {} /\ overtaken = {}

-----------------------------------------------------------------------------
\* Git, one command each.

CheckedOut(h) == \E t \in Token : tree[t].there /\ tree[t].on = h
Integrated(h) == branch[h] \in {"fresh", "merged"}

\* git branch -D: refused while a worktree has the branch checked out.
DeleteBranch(h) ==
  IF CheckedOut(h) THEN UNCHANGED <<branch, discarded>>
  ELSE /\ branch' = [branch EXCEPT ![h] = "none"]
       /\ discarded' = IF branch[h] = "work" THEN discarded \cup {h} ELSE discarded

\* git worktree unlock, git worktree remove --force; what its lock was is kept as history.
RemoveTree(t) == tree' = [tree EXCEPT ![t] = [@ EXCEPT !.there = FALSE, !.on = None]]

\* git worktree add --lock: new and locked in one command, so nobody sees it unlocked.
AddTree(t, h) == tree' = [tree EXCEPT ![t] = [there |-> TRUE, on |-> h, lock |-> "fresh"]]

repoVars == <<branch, tree, discarded, overtaken>>
daemonVars == <<agent, run, row, tear, sweep, crashes>>

Step(t, from, to) == att[t].pc = from /\ att' = [att EXCEPT ![t].pc = to]

-----------------------------------------------------------------------------
\* The dispatch tools.

\* dispatch_agent with or without agent_handle, or ask_agent: a handle, and what becomes of it.
\* A retask needs a handle the daemon lists; report and ask workspaces have no branch.
Provision(t) ==
  /\ att[t].pc = "idle"
  /\ \E kind \in Kind, h \in Handle :
       /\ kind = "retask" => h \in agent
       /\ att' = [att EXCEPT ![t] =
            [@ EXCEPT !.kind = kind, !.handle = h,
             !.pc = CASE kind = "report" -> "detach"
                      [] kind = "deliverable" /\ branch[h] # "none" -> "done"
                      [] kind = "retask" /\ Integrated(h) -> "dropMerged"
                      [] kind = "retask" /\ branch[h] = "work" -> "continue"
                      [] OTHER -> "mint"]]
  /\ UNCHANGED <<repoVars, daemonVars>>

\* A merged branch is deleted, to start anew; git's refusal fails the dispatch.
DropMerged(t) ==
  /\ Step(t, "dropMerged", IF CheckedOut(att[t].handle) THEN "done" ELSE "mint")
  /\ DeleteBranch(att[t].handle)
  /\ UNCHANGED <<tree, overtaken, daemonVars>>

\* requireCleanBase, then worktree add -b: it fails if the branch is there by now.
Mint(t) ==
  LET h == att[t].handle IN
  /\ att[t].pc = "mint"
  /\ \/ /\ branch[h] = "none" /\ branch' = [branch EXCEPT ![h] = "fresh"]
        /\ AddTree(t, h)
        /\ att' = [att EXCEPT ![t] = [@ EXCEPT !.pc = "launch", !.created = TRUE]]
     \/ att' = [att EXCEPT ![t].pc = "done"] /\ UNCHANGED <<branch, tree>>
  /\ UNCHANGED <<discarded, overtaken, daemonVars>>

\* worktree add on the outstanding branch: git refuses one that is checked out, or gone.
Continue(t) ==
  LET h == att[t].handle
      free == branch[h] # "none" /\ ~CheckedOut(h) IN
  /\ Step(t, "continue", IF free THEN "launch" ELSE "done")
  /\ IF free THEN AddTree(t, h) ELSE UNCHANGED tree
  /\ UNCHANGED <<branch, discarded, overtaken, daemonVars>>

Detach(t) ==
  /\ Step(t, "detach", "launch") /\ AddTree(t, None)
  /\ UNCHANGED <<branch, discarded, overtaken, daemonVars>>

\* buildAgentLaunchSpec may refuse: nothing was sent, the workspace is discarded.
LaunchFails(t) == Step(t, "launch", "dropTree") /\ UNCHANGED <<repoVars, daemonVars>>

\* The frame is sent; onSent.
Send(t) == Step(t, "launch", "sent") /\ UNCHANGED <<repoVars, daemonVars>>

\* Mutant: the finally block discards whenever the dispatch did not succeed.
NoAckDiscards(t) == Step(t, "sent", "dropTree") /\ UNCHANGED <<repoVars, daemonVars>>

\* The connection closes before the ack: the daemon may own the run, so nothing is discarded.
NoAck(t) == Step(t, "sent", "done") /\ UNCHANGED <<repoVars, daemonVars>>

\* discardAgentWorkspace, best effort: the worktree, then the branch if this dispatch minted it.
DropTree(t) ==
  /\ Step(t, "dropTree", IF att[t].created THEN "dropBranch"
                         ELSE IF att[t].retry THEN "again" ELSE "done")
  /\ RemoveTree(t) /\ UNCHANGED <<branch, discarded, overtaken, daemonVars>>

DropBranch(t) ==
  /\ Step(t, "dropBranch", IF att[t].retry THEN "again" ELSE "done")
  /\ DeleteBranch(att[t].handle) /\ UNCHANGED <<tree, overtaken, daemonVars>>

\* dispatchWithHandleRetry: a new handle, for the next attempt.
Again(t) ==
  /\ att[t].pc = "again"
  /\ att' = [att EXCEPT ![t] = [@ EXCEPT !.pc = "idle", !.handle = None, !.created = FALSE,
                                         !.retry = FALSE, !.try = att[t].try + 1]]
  /\ UNCHANGED <<repoVars, daemonVars>>

-----------------------------------------------------------------------------
\* The daemon.

Up == crashes % 2 = 0   \* crashes counts crashes and restarts

\* handle_dispatch of a frame that was sent, whether or not its sender still waits.
Accept(t) ==
  /\ Up /\ row[t] = "none" /\ att[t].pc \in {"sent", "done"} /\ tree[t].there /\ run[t] = "none"
  /\ att[t].kind = "deliverable" => att[t].handle \notin agent
  /\ run' = [run EXCEPT ![t] = "live"] /\ row' = [row EXCEPT ![t] = "open"]
  /\ agent' = IF att[t].kind = "deliverable" THEN agent \cup {att[t].handle} ELSE agent
  /\ UNCHANGED <<repoVars, att, tear, sweep, crashes>>

Acknowledge(t) ==
  /\ row[t] # "none" /\ Step(t, "sent", "done") /\ UNCHANGED <<repoVars, daemonVars>>

\* A rejection spawned nothing.  A duplicate handle is retried, a workspace may be discarded.
Reject(t) ==
  /\ Up /\ row[t] = "none" /\ att[t].pc = "sent"
  /\ LET duplicate == att[t].kind = "deliverable" /\ att[t].handle \in agent
     IN  att' = [att EXCEPT ![t] = [@ EXCEPT !.pc = "dropTree",
                                             !.retry = duplicate /\ att[t].try < Attempts]]
  /\ UNCHANGED <<repoVars, daemonVars>>

\* Who is about to delete the branch of h, having judged it.
AboutToDelete(h) ==
  \/ \E t \in Token : att[t].handle = h /\ \/ att[t].pc \in {"dropMerged", "dropBranch"}
                                           \/ att[t].pc = "dropTree" /\ att[t].created
  \/ \E t \in Token : tear[t] = "delete" /\ att[t].handle = h
  \/ sweep.victim = h

\* The run commits, the parent merges.
RunCommits(t) ==
  /\ run[t] = "live" /\ tree[t].there /\ tree[t].on # None
  /\ branch' = [branch EXCEPT ![tree[t].on] = "work"]
  /\ overtaken' = IF AboutToDelete(tree[t].on) THEN overtaken \cup {tree[t].on} ELSE overtaken
  /\ UNCHANGED <<tree, att, discarded, daemonVars>>

Merge(h) ==
  /\ branch[h] = "work" /\ branch' = [branch EXCEPT ![h] = "merged"]
  /\ UNCHANGED <<tree, att, discarded, overtaken, daemonVars>>

Exit(t) ==
  /\ run[t] = "live" /\ run' = [run EXCEPT ![t] = "ended"]
  /\ UNCHANGED <<repoVars, att, agent, row, tear, sweep, crashes>>

\* reap_agent_process: the row is final, then the workspace goes.
Reap(t) ==
  /\ Up /\ run[t] = "ended" /\ row[t] = "open" /\ tear[t] = "no"
  /\ row' = [row EXCEPT ![t] = "final"] /\ tear' = [tear EXCEPT ![t] = "remove"]
  /\ UNCHANGED <<repoVars, att, agent, run, sweep, crashes>>

TearTo(t, to) == tear' = [tear EXCEPT ![t] = to]

TearTree(t) ==
  /\ tear[t] = "remove" /\ RemoveTree(t)
  /\ TearTo(t, IF att[t].created THEN "count" ELSE "no")
  /\ UNCHANGED <<branch, discarded, overtaken, att, agent, run, row, sweep, crashes>>

\* Mutant: any branch the run minted is deleted, commits or not.
TearAnyCount(t) ==
  /\ tear[t] = "count" /\ TearTo(t, IF branch[att[t].handle] # "none" THEN "delete" ELSE "no")
  /\ UNCHANGED <<repoVars, att, agent, run, row, sweep, crashes>>

\* rev-list --count base..branch: a branch with no commit of its own is deleted ...
TearCount(t) ==
  /\ tear[t] = "count" /\ TearTo(t, IF branch[att[t].handle] = "fresh" THEN "delete" ELSE "no")
  /\ UNCHANGED <<repoVars, att, agent, run, row, sweep, crashes>>

\* ... unless somebody has checked it out by now.
TearBranch(t) ==
  /\ tear[t] = "delete" /\ DeleteBranch(att[t].handle) /\ TearTo(t, "no")
  /\ UNCHANGED <<tree, overtaken, att, agent, run, row, sweep, crashes>>

\* A crash ends teardowns and sweep; the runs live on.
Crash ==
  /\ Up /\ crashes < MaxCrash /\ crashes' = crashes + 1
  /\ tear' = [t \in Token |-> "no"] /\ sweep' = NoSweep
  /\ UNCHANGED <<repoVars, att, agent, run, row>>

\* reconcile_orphaned_runs: every run is signalled; a workspace is torn down only
\* if its process group is verified dead and the path exists.
Restart ==
  /\ ~Up /\ crashes' = crashes + 1
  /\ \E dead \in SUBSET {t \in Token : row[t] # "none"} :
       /\ {t \in Token : run[t] = "ended" /\ row[t] # "none"} \subseteq dead
       /\ run' = [t \in Token |-> IF t \in dead THEN "ended" ELSE run[t]]
       /\ tear' = [t \in Token |-> IF t \in dead /\ tree[t].there THEN "remove" ELSE "no"]
  /\ row' = [t \in Token |-> IF row[t] = "none" THEN "none" ELSE "final"]
  /\ UNCHANGED <<repoVars, att, agent, sweep>>

-----------------------------------------------------------------------------
\* The sweep: a listing, then integrated orphan branches, then stale worktrees.

sweepRest == <<att, agent, run, row, tear, crashes, overtaken>>

SweepList ==
  /\ Up /\ sweep.pc = "idle"
  /\ sweep' = [sweep EXCEPT !.pc = "listed", !.out = {h \in Handle : CheckedOut(h)},
                            !.trees = {t \in Token : tree[t].there /\ tree[t].lock # "fresh"}]
  /\ UNCHANGED <<branch, tree, discarded, sweepRest>>

Idling == sweep.pc = "listed" /\ sweep.victim = None /\ sweep.tree = None

SweepJudge(h) ==
  /\ Idling /\ h \notin sweep.out /\ Integrated(h) /\ sweep' = [sweep EXCEPT !.victim = h]
  /\ UNCHANGED <<branch, tree, discarded, sweepRest>>

\* A worktree with a stale lock goes if its branch is integrated or it has none.
SweepJudgeTree(t) ==
  /\ Idling /\ t \in sweep.trees /\ (tree[t].on = None \/ (tree[t].on # None /\ Integrated(tree[t].on)))
  /\ sweep' = [sweep EXCEPT !.tree = t, !.trees = @ \ {t}, !.victim = tree[t].on]
  /\ UNCHANGED <<branch, tree, discarded, sweepRest>>

SweepRemove ==
  /\ sweep.tree # None /\ RemoveTree(sweep.tree) /\ sweep' = [sweep EXCEPT !.tree = None]
  /\ UNCHANGED <<branch, discarded, sweepRest>>

SweepDelete ==
  /\ sweep.tree = None /\ sweep.victim # None /\ DeleteBranch(sweep.victim)
  /\ sweep' = [sweep EXCEPT !.victim = None]
  /\ UNCHANGED <<tree, sweepRest>>

SweepEnds ==
  /\ Idling /\ sweep' = NoSweep /\ UNCHANGED <<branch, tree, discarded, sweepRest>>

\* A day passes.
Age(t) ==
  /\ MayAge /\ tree[t].there /\ tree[t].lock = "fresh" /\ att[t].pc = "done"
  /\ tree' = [tree EXCEPT ![t].lock = "stale"]
  /\ UNCHANGED <<branch, discarded, overtaken, att, daemonVars>>

ToolStep(t) ==
  \/ Provision(t) \/ DropMerged(t) \/ Mint(t) \/ Continue(t) \/ Detach(t) \/ LaunchFails(t)
  \/ Send(t) \/ NoAck(t) \/ DropTree(t) \/ DropBranch(t) \/ Again(t)
DaemonStep(t) ==
  Accept(t) \/ Acknowledge(t) \/ Reject(t) \/ Reap(t) \/ TearTree(t) \/ TearCount(t) \/ TearBranch(t)

WsNext ==
  \/ \E t \in Token : ToolStep(t) \/ DaemonStep(t) \/ RunCommits(t) \/ Exit(t) \/ Age(t)
                      \/ SweepJudgeTree(t)
  \/ \E h \in Handle : Merge(h) \/ SweepJudge(h)
  \/ Crash \/ Restart \/ SweepList \/ SweepRemove \/ SweepDelete \/ SweepEnds

WsSpec == WsInit /\ [][WsNext]_wsVars

-----------------------------------------------------------------------------
\* A run's commits outlive every cleanup: dispatcher, teardown, reconcile and sweep
\* delete a branch with work of its own only if that work was committed after they
\* had judged the branch.
CommittedWorkKept == discarded \subseteq overtaken

\* Nobody removes the workspace of a live run: not the tool that lost the answer to its
\* frame, not the restarted daemon, not the sweep, unless the lock is a day old.
RunKeepsWorkspace ==
  \A t \in Token : run[t] = "live" => tree[t].there \/ tree[t].lock = "stale"
=============================================================================
