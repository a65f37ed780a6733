--------------------------- MODULE WorktreeProofs ---------------------------
(***************************************************************************)
(* Worktrees and branches: that no cleanup deletes the commits of a run or *)
(* the workspace under it, for any number of dispatches, handles, retries  *)
(* and crashes; and that no removal takes a session's uncommitted work     *)
(* along or its fresh lock away, for any number of sessions and worktrees. *)
(***************************************************************************)
EXTENDS AgentWorkspaces, SessionWorktrees, TLAPS

-----------------------------------------------------------------------------
\* The workspaces of agents.
USE WorkspaceAssumption

-----------------------------------------------------------------------------
\* The inductive invariant, by what it is about.

TreeRecord == [there : BOOLEAN, on : Handle \cup {None}, lock : {"none", "fresh", "stale"}]
AttemptRecord == [pc : AttemptPc, kind : Kind, handle : Handle \cup {None},
                  created : BOOLEAN, retry : BOOLEAN, try : 1..Attempts]
SweepRecord == [pc : {"idle", "listed"}, out : SUBSET Handle, trees : SUBSET Token,
                tree : Token \cup {None}, victim : Handle \cup {None}]

WorkspaceTyped ==
  /\ branch \in [Handle -> {"none", "fresh", "work", "merged"}]
  /\ tree \in [Token -> TreeRecord] /\ att \in [Token -> AttemptRecord]
  /\ agent \subseteq Handle
  /\ run \in [Token -> {"none", "live", "ended"}]
  /\ row \in [Token -> {"none", "open", "final"}]
  /\ tear \in [Token -> {"no", "remove", "count", "delete"}]
  /\ sweep \in SweepRecord
  /\ crashes \in Nat /\ discarded \subseteq Handle /\ overtaken \subseteq Handle

\* A dispatch knows its handle from the start to the end, retries within the bound, has
\* minted nothing before it mints, and has a row only once it was sent.
AttemptShape ==
  \A t \in Token :
    /\ att[t].pc \notin {"idle", "again"} => att[t].handle \in Handle
    /\ att[t].pc \in {"idle", "dropMerged", "mint", "continue", "detach"} => ~att[t].created
    /\ att[t].pc = "again" => att[t].retry
    /\ att[t].retry => att[t].try < Attempts
    /\ att[t].pc \notin {"sent", "done"} => row[t] = "none"

\* A row has a run, and what is torn down has ended.
RunShape ==
  \A t \in Token : /\ row[t] = "none" <=> run[t] = "none"
                   /\ tear[t] # "no" => run[t] = "ended"

\* A lock gets stale only under a dispatch that is over; a tree on a branch has that branch,
\* and no two trees have the same one.
TreeShape ==
  /\ \A t \in Token : tree[t].there =>
       /\ tree[t].lock = "fresh" \/ (tree[t].lock = "stale" /\ att[t].pc = "done")
       /\ tree[t].on # None => branch[tree[t].on] # "none"
  /\ \A t, u \in Token :
       tree[t].there /\ tree[u].there /\ tree[t].on = tree[u].on /\ tree[t].on # None => t = u

\* The sweep removes stale worktrees only, though its listing may be old.
SweepShape ==
  \A t \in Token : t \in sweep.trees \/ t = sweep.tree =>
    att[t].pc = "done" /\ tree[t].lock = "stale"

\* Until the daemon takes it over, a branch a dispatch minted is checked out and untouched.
MintedShape ==
  \A t \in Token :
    att[t].created /\ att[t].pc \in {"launch", "sent", "dropTree"} /\ row[t] = "none" =>
      /\ tree[t].there /\ tree[t].on = att[t].handle
      /\ branch[att[t].handle] = "fresh"

\* Who is about to delete a branch has judged it, or was overtaken.
JudgedShape ==
  \A h \in Handle : AboutToDelete(h) /\ branch[h] = "work" => h \in overtaken

WorkspaceInv ==
  /\ WorkspaceTyped /\ AttemptShape /\ RunShape /\ TreeShape /\ SweepShape /\ MintedShape
  /\ JudgedShape /\ CommittedWorkKept /\ RunKeepsWorkspace

-----------------------------------------------------------------------------
\* Records that are updated stay records of their kind.

LEMMA AtTyped ==
  ASSUME NEW f \in [Token -> AttemptRecord], NEW t \in Token, NEW p \in AttemptPc
  PROVE  [f EXCEPT ![t].pc = p] \in [Token -> AttemptRecord]
<1>1. [f[t] EXCEPT !.pc = p] \in AttemptRecord
  BY DEF AttemptRecord
<1> QED BY <1>1

LEMMA AddedTyped ==
  ASSUME NEW t \in Token, NEW h \in Handle \cup {None}, tree \in [Token -> TreeRecord],
         AddTree(t, h)
  PROVE  tree' \in [Token -> TreeRecord]
<1>1. [there |-> TRUE, on |-> h, lock |-> "fresh"] \in TreeRecord
  BY DEF TreeRecord
<1> QED BY <1>1 DEF AddTree

LEMMA RemovedTyped ==
  ASSUME NEW t \in Token, tree \in [Token -> TreeRecord], RemoveTree(t)
  PROVE  /\ tree' \in [Token -> TreeRecord]
         /\ tree'[t].there = FALSE /\ tree'[t].on = None /\ tree'[t].lock = tree[t].lock
         /\ \A u \in Token \ {t} : tree'[u] = tree[u]
<1> DEFINE r == [tree[t] EXCEPT !.there = FALSE, !.on = None]
<1>1. r \in TreeRecord /\ r.there = FALSE /\ r.on = None /\ r.lock = tree[t].lock
  BY DEF TreeRecord
<1>2. tree' = [tree EXCEPT ![t] = r]
  BY DEF RemoveTree
<1> HIDE DEF r
<1> QED BY <1>1, <1>2

LEMMA ProvisionKeeps ==
  ASSUME WorkspaceInv, NEW t \in Token, Provision(t)
  PROVE  WorkspaceInv'
<1>1. (att \in [Token -> AttemptRecord])'
  <2>1. PICK kind \in Kind, h \in Handle :
          att' = [att EXCEPT ![t] = [@ EXCEPT !.kind = kind, !.handle = h,
             !.pc = CASE kind = "report" -> "detach"
                      [] kind = "deliverable" /\ branch[h] # "none" -> "done"
                      [] kind = "retask" /\ Integrated(h) -> "dropMerged"
                      [] kind = "retask" /\ branch[h] = "work" -> "continue"
                      [] OTHER -> "mint"]]
    BY DEF Provision
  <2> DEFINE p == CASE kind = "report" -> "detach"
                    [] kind = "deliverable" /\ branch[h] # "none" -> "done"
                    [] kind = "retask" /\ Integrated(h) -> "dropMerged"
                    [] kind = "retask" /\ branch[h] = "work" -> "continue"
                    [] OTHER -> "mint"
             r == [att[t] EXCEPT !.kind = kind, !.handle = h, !.pc = p]
  <2>2. p \in AttemptPc BY DEF AttemptPc
  <2>3. att' = [att EXCEPT ![t] = r] BY <2>1
  <2> HIDE DEF p
  <2>4. att[t] \in AttemptRecord BY DEF WorkspaceInv, WorkspaceTyped
  <2>5. r \in AttemptRecord BY <2>2, <2>4 DEF AttemptRecord
  <2> QED BY <2>3, <2>5 DEF WorkspaceInv, WorkspaceTyped
<1>2. WorkspaceTyped'
  BY <1>1 DEF WorkspaceInv, WorkspaceTyped, Provision, repoVars, daemonVars
<1>3. AttemptShape'
  BY DEF WorkspaceInv, AttemptShape, Provision, daemonVars
<1>4. TreeShape'
  BY DEF WorkspaceInv, TreeShape, Provision, repoVars
<1>5. SweepShape'
  BY DEF WorkspaceInv, SweepShape, Provision, repoVars, daemonVars
<1>6. MintedShape'
  BY DEF WorkspaceInv, MintedShape, Provision, repoVars, daemonVars
<1>7. JudgedShape'
  BY DEF WorkspaceInv, JudgedShape, AttemptShape, RunShape, AboutToDelete, Provision, repoVars, daemonVars
<1>8. RunShape' /\ CommittedWorkKept' /\ RunKeepsWorkspace'
  BY DEF WorkspaceInv, RunShape, CommittedWorkKept, RunKeepsWorkspace, Provision, repoVars, daemonVars
<1> QED BY <1>2, <1>3, <1>4, <1>5, <1>6, <1>7, <1>8 DEF WorkspaceInv

LEMMA DropMergedKeeps ==
  ASSUME WorkspaceInv, NEW t \in Token, DropMerged(t)
  PROVE  WorkspaceInv'
<1>1. (att \in [Token -> AttemptRecord])'
  BY AtTyped DEF WorkspaceInv, WorkspaceTyped, Step, AttemptPc, DropMerged
<1>2. (branch \in [Handle -> {"none", "fresh", "work", "merged"}])'
  BY DEF WorkspaceInv, WorkspaceTyped, RunShape, DropMerged, DeleteBranch
<1>3. (discarded \subseteq Handle)'
  BY DEF WorkspaceInv, WorkspaceTyped, AttemptShape, DropMerged, Step, DeleteBranch
<1>4. WorkspaceTyped'
  BY <1>1, <1>2, <1>3 DEF WorkspaceInv, WorkspaceTyped, DropMerged, daemonVars
<1>5. AttemptShape'
  BY DEF WorkspaceInv, AttemptShape, DropMerged, Step, daemonVars
<1>6. TreeShape'
  BY DEF WorkspaceInv, WorkspaceTyped, TreeRecord, TreeShape, DropMerged, Step, DeleteBranch, CheckedOut
<1>7. SweepShape'
  BY DEF WorkspaceInv, SweepShape, DropMerged, Step, daemonVars
<1>8. MintedShape'
  BY DEF WorkspaceInv, WorkspaceTyped, MintedShape, AttemptShape, DropMerged, Step, DeleteBranch, CheckedOut,
       daemonVars
<1>9. JudgedShape'
  BY DEF WorkspaceInv, WorkspaceTyped, JudgedShape, AboutToDelete, DropMerged, Step, DeleteBranch, daemonVars
<1>10. CommittedWorkKept'
  BY DEF WorkspaceInv, CommittedWorkKept, AttemptShape, JudgedShape, AboutToDelete, DropMerged, Step,
       DeleteBranch
<1>11. RunShape' /\ RunKeepsWorkspace'
  BY DEF WorkspaceInv, RunShape, RunKeepsWorkspace, DropMerged, daemonVars
<1> QED BY <1>4, <1>5, <1>6, <1>7, <1>8, <1>9, <1>10, <1>11 DEF WorkspaceInv

LEMMA MintKeeps ==
  ASSUME WorkspaceInv, NEW t \in Token, Mint(t)
  PROVE  WorkspaceInv'
<1> DEFINE h == att[t].handle
<1>1. CASE att' = [att EXCEPT ![t].pc = "done"] /\ UNCHANGED <<branch, tree>>
  <2>1. (att \in [Token -> AttemptRecord])' BY <1>1, AtTyped DEF WorkspaceInv, WorkspaceTyped, AttemptPc
  <2>2. WorkspaceTyped' BY <1>1, <2>1 DEF WorkspaceInv, WorkspaceTyped, Mint, daemonVars
  <2>3. AttemptShape' /\ RunShape' /\ TreeShape' /\ SweepShape'
    BY <1>1 DEF WorkspaceInv, WorkspaceTyped, AttemptRecord, AttemptShape, RunShape, TreeShape, SweepShape,
                Mint, daemonVars
  <2>4. MintedShape' BY <1>1 DEF WorkspaceInv, WorkspaceTyped, AttemptRecord, MintedShape, Mint, daemonVars
  <2>5. JudgedShape'
    BY <1>1 DEF WorkspaceInv, WorkspaceTyped, AttemptRecord, JudgedShape, AboutToDelete, Mint, daemonVars
  <2>6. CommittedWorkKept' /\ RunKeepsWorkspace'
    BY <1>1 DEF WorkspaceInv, CommittedWorkKept, RunKeepsWorkspace, Mint, daemonVars
  <2> QED BY <2>2, <2>3, <2>4, <2>5, <2>6 DEF WorkspaceInv
<1>2. CASE /\ branch[h] = "none" /\ branch' = [branch EXCEPT ![h] = "fresh"] /\ AddTree(t, h)
           /\ att' = [att EXCEPT ![t] = [@ EXCEPT !.pc = "launch", !.created = TRUE]]
  <2>1. h \in Handle /\ row[t] = "none" /\ run[t] = "none" /\ ~att[t].created
    BY DEF WorkspaceInv, AttemptShape, RunShape, Mint
  <2>2. \A u \in Token : tree[u].there => tree[u].on # h
    BY <1>2, <2>1 DEF WorkspaceInv, TreeShape, WorkspaceTyped, TreeRecord
  <2>3. att' \in [Token -> AttemptRecord]
    <3>1. att[t] \in AttemptRecord BY DEF WorkspaceInv, WorkspaceTyped
    <3>2. [att[t] EXCEPT !.pc = "launch", !.created = TRUE] \in AttemptRecord
      BY <3>1 DEF AttemptRecord, AttemptPc
    <3> QED BY <1>2, <3>2 DEF WorkspaceInv, WorkspaceTyped
  <2>4. /\ att'[t].pc = "launch" /\ att'[t].handle = h /\ att'[t].retry = att[t].retry
        /\ att'[t].try = att[t].try /\ \A u \in Token \ {t} : att'[u] = att[u]
    BY <1>2 DEF WorkspaceInv, WorkspaceTyped, AttemptRecord
  <2>5. /\ tree' \in [Token -> TreeRecord] /\ tree'[t].there /\ tree'[t].on = h
        /\ tree'[t].lock = "fresh" /\ \A u \in Token \ {t} : tree'[u] = tree[u]
    <3>1. tree' \in [Token -> TreeRecord] BY <1>2, <2>1, AddedTyped DEF WorkspaceInv, WorkspaceTyped
    <3> QED BY <1>2, <3>1 DEF WorkspaceInv, WorkspaceTyped, AddTree
  <2>6. /\ branch' \in [Handle -> {"none", "fresh", "work", "merged"}]
        /\ branch'[h] = "fresh" /\ \A g \in Handle \ {h} : branch'[g] = branch[g]
    BY <1>2, <2>1 DEF WorkspaceInv, WorkspaceTyped
  <2>7. UNCHANGED <<agent, run, row, tear, sweep, crashes, discarded, overtaken>>
    BY DEF Mint, daemonVars
  <2> HIDE DEF h
  <2>8. WorkspaceTyped' BY <2>3, <2>5, <2>6, <2>7 DEF WorkspaceInv, WorkspaceTyped
  <2>9. AttemptShape' BY <2>1, <2>4, <2>7 DEF WorkspaceInv, AttemptShape
  <2>10. RunShape' BY <2>7 DEF WorkspaceInv, RunShape
  <2>11. TreeShape'
    <3>1. ASSUME NEW u \in Token, tree'[u].there
          PROVE  /\ tree'[u].lock = "fresh" \/ (tree'[u].lock = "stale" /\ att'[u].pc = "done")
                 /\ tree'[u].on # None => branch'[tree'[u].on] # "none"
      <4>1. CASE u = t BY <4>1, <2>1, <2>5, <2>6
      <4>2. CASE u # t
        <5>1. tree[u].there /\ tree[u].on \in Handle \cup {None} /\ tree[u].on # h
          BY <3>1, <4>2, <2>2, <2>5 DEF WorkspaceInv, WorkspaceTyped, TreeRecord
        <5> QED BY <4>2, <5>1, <2>4, <2>5, <2>6 DEF WorkspaceInv, TreeShape
      <4> QED BY <4>1, <4>2
    <3>2. ASSUME NEW u \in Token, NEW v \in Token, tree'[u].there, tree'[v].there,
                 tree'[u].on = tree'[v].on, tree'[u].on # None
          PROVE  u = v
      BY <3>2, <2>2, <2>5 DEF WorkspaceInv, TreeShape
    <3> QED BY <3>1, <3>2 DEF TreeShape
  <2>12. SweepShape'
    <3>1. att[t].pc # "done" BY DEF Mint
    <3> QED BY <3>1, <2>4, <2>5, <2>7 DEF WorkspaceInv, SweepShape
  <2>13. MintedShape'
    <3>1. \A u \in Token \ {t} : tree[u].there => tree[u].on # h BY <2>2
    <3> QED BY <3>1, <2>4, <2>5, <2>6, <2>7 DEF WorkspaceInv, MintedShape, WorkspaceTyped, AttemptRecord,
         AttemptShape
  <2>14. JudgedShape' BY <2>4, <2>6, <2>7 DEF WorkspaceInv, JudgedShape, AboutToDelete
  <2>15. CommittedWorkKept' BY <2>7 DEF WorkspaceInv, CommittedWorkKept
  <2>16. RunKeepsWorkspace' BY <2>5, <2>7 DEF WorkspaceInv, RunKeepsWorkspace
  <2> QED BY <2>8, <2>9, <2>10, <2>11, <2>12, <2>13, <2>14, <2>15, <2>16 DEF WorkspaceInv
<1> QED BY <1>1, <1>2 DEF Mint

LEMMA ContinueKeeps ==
  ASSUME WorkspaceInv, NEW t \in Token, Continue(t)
  PROVE  WorkspaceInv'
<1> DEFINE h == att[t].handle
           free == branch[h] # "none" /\ ~CheckedOut(h)
<1>1. h \in Handle /\ row[t] = "none" /\ run[t] = "none" /\ ~att[t].created
  BY DEF WorkspaceInv, AttemptShape, RunShape, Continue, Step
<1>2. UNCHANGED <<branch, agent, run, row, tear, sweep, crashes, discarded, overtaken>>
  BY DEF Continue, daemonVars
<1>3. att' = [att EXCEPT ![t].pc = IF free THEN "launch" ELSE "done"] /\ att[t].pc = "continue"
  BY DEF Continue, Step
<1>4. att' \in [Token -> AttemptRecord]
  BY <1>3, AtTyped DEF WorkspaceInv, WorkspaceTyped, AttemptPc
<1>5. /\ att'[t].pc \in {"launch", "done"} /\ att'[t].handle = h /\ h = att[t].handle /\ ~att'[t].created
      /\ att'[t].retry = att[t].retry /\ att'[t].try = att[t].try
      /\ \A u \in Token \ {t} : att'[u] = att[u]
  BY <1>1, <1>3 DEF WorkspaceInv, WorkspaceTyped, AttemptRecord
<1>6. /\ tree' \in [Token -> TreeRecord] /\ \A u \in Token \ {t} : tree'[u] = tree[u]
      /\ \/ tree'[t] = tree[t] /\ att'[t].pc = "done"
         \/ /\ tree'[t].there /\ tree'[t].on = h /\ tree'[t].lock = "fresh" /\ branch[h] # "none"
            /\ \A u \in Token : tree[u].there => tree[u].on # h
  <2>1. CASE free
    <3>1. tree' \in [Token -> TreeRecord] BY <1>1, <2>1, AddedTyped DEF WorkspaceInv, WorkspaceTyped, Continue
    <3> QED BY <1>1, <2>1, <3>1 DEF WorkspaceInv, WorkspaceTyped, Continue, AddTree, CheckedOut
  <2>2. CASE ~free
    <3>1. UNCHANGED tree /\ att'[t].pc = "done"
      BY <1>3, <2>2 DEF WorkspaceInv, WorkspaceTyped, AttemptRecord, Continue
    <3> QED BY <3>1 DEF WorkspaceInv, WorkspaceTyped
  <2> QED BY <2>1, <2>2
<1> HIDE DEF h, free
<1>7. WorkspaceTyped' BY <1>2, <1>4, <1>6 DEF WorkspaceInv, WorkspaceTyped
<1>8. AttemptShape' BY <1>1, <1>2, <1>5 DEF WorkspaceInv, AttemptShape
<1>9. RunShape' BY <1>2 DEF WorkspaceInv, RunShape
<1>10. TreeShape' BY <1>1, <1>2, <1>3, <1>5, <1>6 DEF WorkspaceInv, TreeShape
<1>11. SweepShape' BY <1>2, <1>3, <1>5, <1>6 DEF WorkspaceInv, SweepShape
<1>12. MintedShape' BY <1>2, <1>5, <1>6 DEF WorkspaceInv, MintedShape
<1>13. JudgedShape'
  <2>1. \A g \in Handle : AboutToDelete(g)' => AboutToDelete(g)
    BY <1>2, <1>5 DEF AboutToDelete
  <2> QED BY <2>1, <1>2 DEF WorkspaceInv, JudgedShape
<1>14. CommittedWorkKept' BY <1>2 DEF WorkspaceInv, CommittedWorkKept
<1>15. RunKeepsWorkspace' BY <1>1, <1>2, <1>6 DEF WorkspaceInv, RunKeepsWorkspace
<1> QED BY <1>7, <1>8, <1>9, <1>10, <1>11, <1>12, <1>13, <1>14, <1>15 DEF WorkspaceInv

LEMMA DetachKeeps ==
  ASSUME WorkspaceInv, NEW t \in Token, Detach(t)
  PROVE  WorkspaceInv'
<1>1. (att \in [Token -> AttemptRecord])'
  BY AtTyped DEF WorkspaceInv, WorkspaceTyped, Step, AttemptPc, Detach
<1>2. (tree \in [Token -> TreeRecord])'
  BY AddedTyped DEF WorkspaceInv, WorkspaceTyped, Detach
<1>3. WorkspaceTyped'
  BY <1>1, <1>2 DEF WorkspaceInv, WorkspaceTyped, Detach, daemonVars
<1>4. AttemptShape'
  BY DEF WorkspaceInv, AttemptShape, Detach, Step, daemonVars
<1>5. TreeShape'
  BY DEF WorkspaceInv, TreeShape, Detach, Step, AddTree
<1>6. SweepShape'
  BY DEF WorkspaceInv, SweepShape, Detach, Step, AddTree, daemonVars
<1>7. MintedShape'
  BY DEF WorkspaceInv, MintedShape, AttemptShape, Detach, Step, AddTree, daemonVars
<1>8. JudgedShape'
  BY DEF WorkspaceInv, JudgedShape, AboutToDelete, Detach, Step, daemonVars
<1>9. RunKeepsWorkspace'
  BY DEF WorkspaceInv, RunKeepsWorkspace, Detach, AddTree, daemonVars
<1>10. RunShape' /\ CommittedWorkKept'
  BY DEF WorkspaceInv, RunShape, CommittedWorkKept, Detach, daemonVars
<1> QED BY <1>3, <1>4, <1>5, <1>6, <1>7, <1>8, <1>9, <1>10 DEF WorkspaceInv

LEMMA LaunchFailsKeeps ==
  ASSUME WorkspaceInv, NEW t \in Token, LaunchFails(t)
  PROVE  WorkspaceInv'
<1>1. (att \in [Token -> AttemptRecord])'
  BY AtTyped DEF WorkspaceInv, WorkspaceTyped, Step, AttemptPc, LaunchFails
<1>2. WorkspaceTyped'
  BY <1>1 DEF WorkspaceInv, WorkspaceTyped, LaunchFails, repoVars, daemonVars
<1>3. AttemptShape'
  BY DEF WorkspaceInv, AttemptShape, LaunchFails, Step, daemonVars
<1>4. TreeShape'
  BY DEF WorkspaceInv, TreeShape, LaunchFails, Step, repoVars
<1>5. SweepShape'
  BY DEF WorkspaceInv, SweepShape, LaunchFails, Step, repoVars, daemonVars
<1>6. MintedShape'
  BY DEF WorkspaceInv, MintedShape, LaunchFails, Step, repoVars, daemonVars
<1>7. JudgedShape'
  BY DEF WorkspaceInv, JudgedShape, AttemptShape, MintedShape, AboutToDelete, LaunchFails, Step,
       repoVars, daemonVars
<1>8. RunShape' /\ CommittedWorkKept' /\ RunKeepsWorkspace'
  BY DEF WorkspaceInv, RunShape, CommittedWorkKept, RunKeepsWorkspace, LaunchFails, repoVars, daemonVars
<1> QED BY <1>2, <1>3, <1>4, <1>5, <1>6, <1>7, <1>8 DEF WorkspaceInv

LEMMA SendKeeps ==
  ASSUME WorkspaceInv, NEW t \in Token, Send(t)
  PROVE  WorkspaceInv'
<1>1. (att \in [Token -> AttemptRecord])'
  BY AtTyped DEF WorkspaceInv, WorkspaceTyped, Step, AttemptPc, Send
<1>2. WorkspaceTyped'
  BY <1>1 DEF WorkspaceInv, WorkspaceTyped, Send, repoVars, daemonVars
<1>3. AttemptShape'
  BY DEF WorkspaceInv, AttemptShape, Send, Step, daemonVars
<1>4. TreeShape'
  BY DEF WorkspaceInv, TreeShape, Send, Step, repoVars
<1>5. SweepShape'
  BY DEF WorkspaceInv, SweepShape, Send, Step, repoVars, daemonVars
<1>6. MintedShape'
  BY DEF WorkspaceInv, MintedShape, Send, Step, repoVars, daemonVars
<1>7. JudgedShape'
  BY DEF WorkspaceInv, JudgedShape, AboutToDelete, Send, Step, repoVars, daemonVars
<1>8. RunShape' /\ CommittedWorkKept' /\ RunKeepsWorkspace'
  BY DEF WorkspaceInv, RunShape, CommittedWorkKept, RunKeepsWorkspace, Send, repoVars, daemonVars
<1> QED BY <1>2, <1>3, <1>4, <1>5, <1>6, <1>7, <1>8 DEF WorkspaceInv

LEMMA NoAckKeeps ==
  ASSUME WorkspaceInv, NEW t \in Token, NoAck(t)
  PROVE  WorkspaceInv'
<1>1. (att \in [Token -> AttemptRecord])'
  BY AtTyped DEF WorkspaceInv, WorkspaceTyped, Step, AttemptPc, NoAck
<1>2. WorkspaceTyped'
  BY <1>1 DEF WorkspaceInv, WorkspaceTyped, NoAck, repoVars, daemonVars
<1>3. AttemptShape'
  BY DEF WorkspaceInv, AttemptShape, NoAck, Step, daemonVars
<1>4. TreeShape'
  BY DEF WorkspaceInv, TreeShape, NoAck, Step, repoVars
<1>5. SweepShape'
  BY DEF WorkspaceInv, SweepShape, NoAck, Step, repoVars, daemonVars
<1>6. MintedShape'
  BY DEF WorkspaceInv, MintedShape, NoAck, Step, repoVars, daemonVars
<1>7. JudgedShape'
  BY DEF WorkspaceInv, JudgedShape, AboutToDelete, NoAck, Step, repoVars, daemonVars
<1>8. RunShape' /\ CommittedWorkKept' /\ RunKeepsWorkspace'
  BY DEF WorkspaceInv, RunShape, CommittedWorkKept, RunKeepsWorkspace, NoAck, repoVars, daemonVars
<1> QED BY <1>2, <1>3, <1>4, <1>5, <1>6, <1>7, <1>8 DEF WorkspaceInv

LEMMA DropTreeKeeps ==
  ASSUME WorkspaceInv, NEW t \in Token, DropTree(t)
  PROVE  WorkspaceInv'
<1>1. (att \in [Token -> AttemptRecord])'
  BY AtTyped DEF WorkspaceInv, WorkspaceTyped, Step, AttemptPc, DropTree
<1>2. (tree \in [Token -> TreeRecord])'
  BY RemovedTyped DEF WorkspaceInv, WorkspaceTyped, DropTree
<1>3. WorkspaceTyped'
  BY <1>1, <1>2 DEF WorkspaceInv, WorkspaceTyped, DropTree, daemonVars
<1>4. AttemptShape'
  BY DEF WorkspaceInv, AttemptShape, DropTree, Step, daemonVars
<1>5. TreeShape'
  BY DEF WorkspaceInv, TreeShape, DropTree, Step, RemoveTree
<1>6. SweepShape'
  BY DEF WorkspaceInv, SweepShape, DropTree, Step, RemoveTree, daemonVars
<1>7. MintedShape'
  BY DEF WorkspaceInv, WorkspaceTyped, MintedShape, DropTree, Step, RemoveTree, daemonVars
<1>8. JudgedShape'
  BY DEF WorkspaceInv, JudgedShape, AboutToDelete, DropTree, Step, daemonVars
<1>9. RunKeepsWorkspace'
  BY DEF WorkspaceInv, RunKeepsWorkspace, AttemptShape, RunShape, DropTree, Step, RemoveTree, daemonVars
<1>10. RunShape' /\ CommittedWorkKept'
  BY DEF WorkspaceInv, RunShape, CommittedWorkKept, DropTree, daemonVars
<1> QED BY <1>3, <1>4, <1>5, <1>6, <1>7, <1>8, <1>9, <1>10 DEF WorkspaceInv

LEMMA DropBranchKeeps ==
  ASSUME WorkspaceInv, NEW t \in Token, DropBranch(t)
  PROVE  WorkspaceInv'
<1>1. (att \in [Token -> AttemptRecord])'
  BY AtTyped DEF WorkspaceInv, WorkspaceTyped, Step, AttemptPc, DropBranch
<1>2. (branch \in [Handle -> {"none", "fresh", "work", "merged"}])'
  BY DEF WorkspaceInv, WorkspaceTyped, DropBranch, DeleteBranch
<1>3. (discarded \subseteq Handle)'
  BY DEF WorkspaceInv, WorkspaceTyped, AttemptShape, DropBranch, Step, DeleteBranch
<1>4. WorkspaceTyped'
  BY <1>1, <1>2, <1>3 DEF WorkspaceInv, WorkspaceTyped, DropBranch, daemonVars
<1>5. AttemptShape'
  BY DEF WorkspaceInv, AttemptShape, DropBranch, Step, daemonVars
<1>6. TreeShape'
  BY DEF WorkspaceInv, WorkspaceTyped, TreeRecord, TreeShape, DropBranch, Step, DeleteBranch, CheckedOut
<1>7. SweepShape'
  BY DEF WorkspaceInv, SweepShape, DropBranch, Step, daemonVars
<1>8. MintedShape'
  BY DEF WorkspaceInv, WorkspaceTyped, MintedShape, AttemptShape, DropBranch, Step, DeleteBranch, CheckedOut,
       daemonVars
<1>9. JudgedShape'
  BY DEF WorkspaceInv, WorkspaceTyped, JudgedShape, AboutToDelete, DropBranch, Step, DeleteBranch, daemonVars
<1>10. CommittedWorkKept'
  BY DEF WorkspaceInv, CommittedWorkKept, AttemptShape, JudgedShape, AboutToDelete, DropBranch, Step,
       DeleteBranch
<1>11. RunShape' /\ RunKeepsWorkspace'
  BY DEF WorkspaceInv, RunShape, RunKeepsWorkspace, DropBranch, daemonVars
<1> QED BY <1>4, <1>5, <1>6, <1>7, <1>8, <1>9, <1>10, <1>11 DEF WorkspaceInv

LEMMA AgainKeeps ==
  ASSUME WorkspaceInv, NEW t \in Token, Again(t)
  PROVE  WorkspaceInv'
<1>1. (att \in [Token -> AttemptRecord])'
  <2>1. att[t] \in AttemptRecord /\ att[t].try + 1 \in 1..Attempts
    BY DEF WorkspaceInv, WorkspaceTyped, AttemptRecord, AttemptShape, Again
  <2>2. [att[t] EXCEPT !.pc = "idle", !.handle = None, !.created = FALSE, !.retry = FALSE,
                       !.try = att[t].try + 1] \in AttemptRecord
    BY <2>1 DEF AttemptRecord, AttemptPc
  <2> QED BY <2>2 DEF WorkspaceInv, WorkspaceTyped, Again
<1>2. WorkspaceTyped'
  BY <1>1 DEF WorkspaceInv, WorkspaceTyped, Again, repoVars, daemonVars
<1>3. AttemptShape'
  BY DEF WorkspaceInv, AttemptShape, Again, daemonVars
<1>4. TreeShape'
  BY DEF WorkspaceInv, TreeShape, Again, repoVars
<1>5. SweepShape'
  BY DEF WorkspaceInv, SweepShape, Again, repoVars, daemonVars
<1>6. MintedShape'
  BY DEF WorkspaceInv, MintedShape, Again, repoVars, daemonVars
<1>7. JudgedShape'
  BY DEF WorkspaceInv, JudgedShape, AboutToDelete, Again, repoVars, daemonVars
<1>8. RunShape' /\ CommittedWorkKept' /\ RunKeepsWorkspace'
  BY DEF WorkspaceInv, RunShape, CommittedWorkKept, RunKeepsWorkspace, Again, repoVars, daemonVars
<1> QED BY <1>2, <1>3, <1>4, <1>5, <1>6, <1>7, <1>8 DEF WorkspaceInv

LEMMA AcceptKeeps ==
  ASSUME WorkspaceInv, NEW t \in Token, Accept(t)
  PROVE  WorkspaceInv'
<1>1. WorkspaceTyped'
  BY DEF WorkspaceInv, WorkspaceTyped, AttemptShape, Accept, repoVars
<1>2. AttemptShape'
  BY DEF WorkspaceInv, AttemptShape, Accept
<1>3. RunShape'
  BY DEF WorkspaceInv, WorkspaceTyped, RunShape, Accept
<1>4. MintedShape'
  BY DEF WorkspaceInv, MintedShape, Accept, repoVars
<1>5. RunKeepsWorkspace'
  BY DEF WorkspaceInv, RunKeepsWorkspace, Accept, repoVars
<1>6. TreeShape' /\ SweepShape' /\ JudgedShape' /\ CommittedWorkKept'
  BY DEF WorkspaceInv, TreeShape, SweepShape, JudgedShape, CommittedWorkKept, AboutToDelete, Accept,
       repoVars
<1> QED BY <1>1, <1>2, <1>3, <1>4, <1>5, <1>6 DEF WorkspaceInv

LEMMA AcknowledgeKeeps ==
  ASSUME WorkspaceInv, NEW t \in Token, Acknowledge(t)
  PROVE  WorkspaceInv'
<1>1. (att \in [Token -> AttemptRecord])'
  BY AtTyped DEF WorkspaceInv, WorkspaceTyped, Step, AttemptPc, Acknowledge
<1>2. WorkspaceTyped'
  BY <1>1 DEF WorkspaceInv, WorkspaceTyped, Acknowledge, repoVars, daemonVars
<1>3. AttemptShape'
  BY DEF WorkspaceInv, AttemptShape, Acknowledge, Step, daemonVars
<1>4. TreeShape'
  BY DEF WorkspaceInv, TreeShape, Acknowledge, Step, repoVars
<1>5. SweepShape'
  BY DEF WorkspaceInv, SweepShape, Acknowledge, Step, repoVars, daemonVars
<1>6. MintedShape'
  BY DEF WorkspaceInv, MintedShape, Acknowledge, Step, repoVars, daemonVars
<1>7. JudgedShape'
  BY DEF WorkspaceInv, JudgedShape, AboutToDelete, Acknowledge, Step, repoVars, daemonVars
<1>8. RunShape' /\ CommittedWorkKept' /\ RunKeepsWorkspace'
  BY DEF WorkspaceInv, RunShape, CommittedWorkKept, RunKeepsWorkspace, Acknowledge, repoVars, daemonVars
<1> QED BY <1>2, <1>3, <1>4, <1>5, <1>6, <1>7, <1>8 DEF WorkspaceInv

LEMMA RejectKeeps ==
  ASSUME WorkspaceInv, NEW t \in Token, Reject(t)
  PROVE  WorkspaceInv'
<1>1. (att \in [Token -> AttemptRecord])'
  <2>1. PICK b \in BOOLEAN :
          att' = [att EXCEPT ![t] = [@ EXCEPT !.pc = "dropTree", !.retry = b]]
    BY DEF Reject
  <2>2. att[t] \in AttemptRecord BY DEF WorkspaceInv, WorkspaceTyped
  <2>3. [att[t] EXCEPT !.pc = "dropTree", !.retry = b] \in AttemptRecord
    BY <2>2 DEF AttemptRecord, AttemptPc
  <2> QED BY <2>1, <2>3 DEF WorkspaceInv, WorkspaceTyped
<1>2. WorkspaceTyped'
  BY <1>1 DEF WorkspaceInv, WorkspaceTyped, Reject, repoVars, daemonVars
<1>3. AttemptShape'
  BY DEF WorkspaceInv, WorkspaceTyped, AttemptRecord, AttemptShape, Reject, daemonVars
<1>4. TreeShape'
  BY DEF WorkspaceInv, TreeShape, Reject, repoVars
<1>5. SweepShape'
  BY DEF WorkspaceInv, SweepShape, Reject, repoVars, daemonVars
<1>6. MintedShape'
  BY DEF WorkspaceInv, MintedShape, Reject, repoVars, daemonVars
<1>7. JudgedShape'
  BY DEF WorkspaceInv, JudgedShape, MintedShape, AboutToDelete, Reject, repoVars, daemonVars
<1>8. RunShape' /\ CommittedWorkKept' /\ RunKeepsWorkspace'
  BY DEF WorkspaceInv, RunShape, CommittedWorkKept, RunKeepsWorkspace, Reject, repoVars, daemonVars
<1> QED BY <1>2, <1>3, <1>4, <1>5, <1>6, <1>7, <1>8 DEF WorkspaceInv

LEMMA ReapKeeps ==
  ASSUME WorkspaceInv, NEW t \in Token, Reap(t)
  PROVE  WorkspaceInv'
<1>1. WorkspaceTyped'
  BY DEF WorkspaceInv, WorkspaceTyped, Reap, repoVars
<1>2. AttemptShape'
  BY DEF WorkspaceInv, AttemptShape, Reap
<1>3. RunShape'
  BY DEF WorkspaceInv, RunShape, Reap
<1>4. MintedShape'
  BY DEF WorkspaceInv, MintedShape, Reap, repoVars
<1>5. JudgedShape'
  BY DEF WorkspaceInv, JudgedShape, AboutToDelete, Reap, repoVars
<1>6. TreeShape' /\ SweepShape' /\ CommittedWorkKept' /\ RunKeepsWorkspace'
  BY DEF WorkspaceInv, TreeShape, SweepShape, CommittedWorkKept, RunKeepsWorkspace, Reap, repoVars
<1> QED BY <1>1, <1>2, <1>3, <1>4, <1>5, <1>6 DEF WorkspaceInv

LEMMA TearTreeKeeps ==
  ASSUME WorkspaceInv, NEW t \in Token, TearTree(t)
  PROVE  WorkspaceInv'
<1>1. (tree \in [Token -> TreeRecord])'
  BY RemovedTyped DEF WorkspaceInv, WorkspaceTyped, TearTree
<1>2. WorkspaceTyped'
  BY <1>1 DEF WorkspaceInv, WorkspaceTyped, TearTree, RemoveTree, TearTo
<1>3. RunShape'
  BY DEF WorkspaceInv, RunShape, TearTree, TearTo
<1>4. TreeShape'
  BY DEF WorkspaceInv, TreeShape, TearTree, RemoveTree
<1>5. SweepShape'
  BY DEF WorkspaceInv, SweepShape, TearTree, RemoveTree
<1>6. MintedShape'
  BY DEF WorkspaceInv, MintedShape, RunShape, TearTree, RemoveTree
<1>7. JudgedShape'
  BY DEF WorkspaceInv, JudgedShape, AboutToDelete, TearTree, TearTo
<1>8. RunKeepsWorkspace'
  BY DEF WorkspaceInv, RunKeepsWorkspace, RunShape, TearTree, RemoveTree
<1>9. AttemptShape' /\ CommittedWorkKept'
  BY DEF WorkspaceInv, AttemptShape, CommittedWorkKept, TearTree
<1> QED BY <1>2, <1>3, <1>4, <1>5, <1>6, <1>7, <1>8, <1>9 DEF WorkspaceInv

LEMMA TearCountKeeps ==
  ASSUME WorkspaceInv, NEW t \in Token, TearCount(t)
  PROVE  WorkspaceInv'
<1>1. WorkspaceTyped'
  BY DEF WorkspaceInv, WorkspaceTyped, TearCount, TearTo, repoVars
<1>2. RunShape'
  BY DEF WorkspaceInv, RunShape, TearCount, TearTo
<1>3. JudgedShape'
  BY DEF WorkspaceInv, JudgedShape, AboutToDelete, TearCount, TearTo, repoVars
<1>4. AttemptShape' /\ TreeShape' /\ SweepShape' /\ MintedShape' /\ CommittedWorkKept'
     /\ RunKeepsWorkspace'
  BY DEF WorkspaceInv, AttemptShape, TreeShape, SweepShape, MintedShape, CommittedWorkKept,
       RunKeepsWorkspace, TearCount, repoVars
<1> QED BY <1>1, <1>2, <1>3, <1>4 DEF WorkspaceInv

LEMMA TearBranchKeeps ==
  ASSUME WorkspaceInv, NEW t \in Token, TearBranch(t)
  PROVE  WorkspaceInv'
<1>1. (branch \in [Handle -> {"none", "fresh", "work", "merged"}])'
  BY DEF WorkspaceInv, WorkspaceTyped, RunShape, TearBranch, DeleteBranch
<1>2. (discarded \subseteq Handle)'
  BY DEF WorkspaceInv, WorkspaceTyped, AttemptShape, RunShape, TearBranch, DeleteBranch
<1>3. (tear \in [Token -> {"no", "remove", "count", "delete"}])'
  BY DEF WorkspaceInv, WorkspaceTyped, TearBranch, TearTo
<1>4. WorkspaceTyped'
  BY <1>1, <1>2, <1>3 DEF WorkspaceInv, WorkspaceTyped, TearBranch
<1>5. RunShape'
  BY DEF WorkspaceInv, RunShape, TearBranch, TearTo
<1>6. TreeShape'
  BY DEF WorkspaceInv, WorkspaceTyped, TreeRecord, TreeShape, TearBranch, DeleteBranch, CheckedOut
<1>7. MintedShape'
  BY DEF WorkspaceInv, WorkspaceTyped, MintedShape, AttemptShape, TearBranch, DeleteBranch, CheckedOut
<1>8. JudgedShape'
  BY DEF WorkspaceInv, WorkspaceTyped, JudgedShape, AboutToDelete, TearBranch, DeleteBranch, TearTo
<1>9. CommittedWorkKept'
  BY DEF WorkspaceInv, CommittedWorkKept, AttemptShape, JudgedShape, RunShape, AboutToDelete, TearBranch,
       DeleteBranch
<1>10. AttemptShape' /\ SweepShape' /\ RunKeepsWorkspace'
  BY DEF WorkspaceInv, AttemptShape, SweepShape, RunKeepsWorkspace, TearBranch
<1> QED BY <1>4, <1>5, <1>6, <1>7, <1>8, <1>9, <1>10 DEF WorkspaceInv

LEMMA RunCommitsKeeps ==
  ASSUME WorkspaceInv, NEW t \in Token, RunCommits(t)
  PROVE  WorkspaceInv'
<1>1. WorkspaceTyped'
  BY DEF WorkspaceInv, WorkspaceTyped, TreeRecord, RunCommits, daemonVars
<1>2. TreeShape'
  BY DEF WorkspaceInv, TreeShape, RunCommits
<1>3. MintedShape'
  BY DEF WorkspaceInv, MintedShape, RunShape, TreeShape, RunCommits, daemonVars
<1>4. JudgedShape'
  BY DEF WorkspaceInv, JudgedShape, AboutToDelete, RunCommits, daemonVars
<1>5. CommittedWorkKept'
  BY DEF WorkspaceInv, CommittedWorkKept, RunCommits
<1>6. AttemptShape' /\ RunShape' /\ SweepShape' /\ RunKeepsWorkspace'
  BY DEF WorkspaceInv, AttemptShape, RunShape, SweepShape, RunKeepsWorkspace, RunCommits, daemonVars
<1> QED BY <1>1, <1>2, <1>3, <1>4, <1>5, <1>6 DEF WorkspaceInv

LEMMA ExitKeeps ==
  ASSUME WorkspaceInv, NEW t \in Token, Exit(t)
  PROVE  WorkspaceInv'
<1>1. WorkspaceTyped'
  BY DEF WorkspaceInv, WorkspaceTyped, Exit, repoVars
<1>2. RunShape'
  BY DEF WorkspaceInv, RunShape, Exit
<1>3. RunKeepsWorkspace'
  BY DEF WorkspaceInv, RunKeepsWorkspace, Exit, repoVars
<1>4. AttemptShape' /\ TreeShape' /\ SweepShape' /\ MintedShape' /\ JudgedShape'
     /\ CommittedWorkKept'
  BY DEF WorkspaceInv, AttemptShape, TreeShape, SweepShape, MintedShape, JudgedShape, CommittedWorkKept,
       AboutToDelete, Exit, repoVars
<1> QED BY <1>1, <1>2, <1>3, <1>4 DEF WorkspaceInv

LEMMA AgeKeeps ==
  ASSUME WorkspaceInv, NEW t \in Token, Age(t)
  PROVE  WorkspaceInv'
<1>1. (tree \in [Token -> TreeRecord])'
  BY DEF WorkspaceInv, WorkspaceTyped, TreeRecord, Age
<1>2. WorkspaceTyped'
  BY <1>1 DEF WorkspaceInv, WorkspaceTyped, Age, daemonVars
<1>3. TreeShape'
  BY DEF WorkspaceInv, TreeShape, Age
<1>4. SweepShape'
  BY DEF WorkspaceInv, SweepShape, Age, daemonVars
<1>5. MintedShape'
  BY DEF WorkspaceInv, MintedShape, Age, daemonVars
<1>6. RunKeepsWorkspace'
  BY DEF WorkspaceInv, RunKeepsWorkspace, Age, daemonVars
<1>7. AttemptShape' /\ RunShape' /\ JudgedShape' /\ CommittedWorkKept'
  BY DEF WorkspaceInv, AttemptShape, RunShape, JudgedShape, CommittedWorkKept, AboutToDelete, Age,
       daemonVars
<1> QED BY <1>2, <1>3, <1>4, <1>5, <1>6, <1>7 DEF WorkspaceInv

LEMMA SweepJudgeTreeKeeps ==
  ASSUME WorkspaceInv, NEW t \in Token, SweepJudgeTree(t)
  PROVE  WorkspaceInv'
<1>1. (sweep \in SweepRecord)'
  BY DEF WorkspaceInv, WorkspaceTyped, SweepRecord, TreeRecord, SweepJudgeTree, Idling, Integrated, sweepRest
<1>2. WorkspaceTyped'
  BY <1>1 DEF WorkspaceInv, WorkspaceTyped, SweepJudgeTree, sweepRest
<1>3. SweepShape'
  BY DEF WorkspaceInv, SweepShape, SweepJudgeTree, sweepRest
<1>4. JudgedShape'
  BY DEF WorkspaceInv, JudgedShape, AboutToDelete, SweepJudgeTree, Integrated, sweepRest
<1>5. AttemptShape' /\ RunShape' /\ TreeShape' /\ MintedShape' /\ CommittedWorkKept'
     /\ RunKeepsWorkspace'
  BY DEF WorkspaceInv, AttemptShape, RunShape, TreeShape, MintedShape, CommittedWorkKept,
       RunKeepsWorkspace, SweepJudgeTree, sweepRest
<1> QED BY <1>2, <1>3, <1>4, <1>5 DEF WorkspaceInv

LEMMA MergeKeeps ==
  ASSUME WorkspaceInv, NEW h \in Handle, Merge(h)
  PROVE  WorkspaceInv'
<1>1. WorkspaceTyped'
  BY DEF WorkspaceInv, WorkspaceTyped, Merge, daemonVars
<1>2. TreeShape'
  BY DEF WorkspaceInv, TreeShape, Merge
<1>3. MintedShape'
  BY DEF WorkspaceInv, MintedShape, Merge, daemonVars
<1>4. JudgedShape'
  BY DEF WorkspaceInv, JudgedShape, AboutToDelete, Merge, daemonVars
<1>5. AttemptShape' /\ RunShape' /\ SweepShape' /\ CommittedWorkKept' /\ RunKeepsWorkspace'
  BY DEF WorkspaceInv, AttemptShape, RunShape, SweepShape, CommittedWorkKept, RunKeepsWorkspace, Merge,
       daemonVars
<1> QED BY <1>1, <1>2, <1>3, <1>4, <1>5 DEF WorkspaceInv

LEMMA SweepJudgeKeeps ==
  ASSUME WorkspaceInv, NEW h \in Handle, SweepJudge(h)
  PROVE  WorkspaceInv'
<1>1. (sweep \in SweepRecord)'
  BY DEF WorkspaceInv, WorkspaceTyped, SweepRecord, SweepJudge
<1>2. WorkspaceTyped'
  BY <1>1 DEF WorkspaceInv, WorkspaceTyped, SweepJudge, sweepRest
<1>3. SweepShape'
  BY DEF WorkspaceInv, SweepShape, SweepJudge, sweepRest
<1>4. JudgedShape'
  BY DEF WorkspaceInv, JudgedShape, AboutToDelete, SweepJudge, Integrated, sweepRest
<1>5. AttemptShape' /\ RunShape' /\ TreeShape' /\ MintedShape' /\ CommittedWorkKept'
     /\ RunKeepsWorkspace'
  BY DEF WorkspaceInv, AttemptShape, RunShape, TreeShape, MintedShape, CommittedWorkKept,
       RunKeepsWorkspace, SweepJudge, sweepRest
<1> QED BY <1>2, <1>3, <1>4, <1>5 DEF WorkspaceInv

LEMMA CrashKeeps ==
  ASSUME WorkspaceInv, Crash
  PROVE  WorkspaceInv'
<1>1. (sweep \in SweepRecord)'
  BY DEF SweepRecord, Crash, NoSweep
<1>2. WorkspaceTyped'
  BY <1>1 DEF WorkspaceInv, WorkspaceTyped, Crash, repoVars
<1>3. RunShape'
  BY DEF WorkspaceInv, RunShape, Crash
<1>4. SweepShape'
  BY DEF SweepShape, Crash, NoSweep
<1>5. JudgedShape'
  BY DEF WorkspaceInv, JudgedShape, AboutToDelete, Crash, NoSweep, repoVars
<1>6. AttemptShape' /\ TreeShape' /\ MintedShape' /\ CommittedWorkKept' /\ RunKeepsWorkspace'
  BY DEF WorkspaceInv, AttemptShape, TreeShape, MintedShape, CommittedWorkKept, RunKeepsWorkspace, Crash,
       repoVars
<1> QED BY <1>2, <1>3, <1>4, <1>5, <1>6 DEF WorkspaceInv

LEMMA RestartKeeps ==
  ASSUME WorkspaceInv, Restart
  PROVE  WorkspaceInv'
<1>1. WorkspaceTyped'
  BY DEF WorkspaceInv, WorkspaceTyped, Restart, repoVars
<1>2. AttemptShape'
  BY DEF WorkspaceInv, AttemptShape, Restart
<1>3. RunShape'
  BY DEF WorkspaceInv, RunShape, Restart
<1>4. MintedShape'
  BY DEF WorkspaceInv, MintedShape, Restart, repoVars
<1>5. JudgedShape'
  BY DEF WorkspaceInv, JudgedShape, AboutToDelete, Restart, repoVars
<1>6. RunKeepsWorkspace'
  BY DEF WorkspaceInv, RunKeepsWorkspace, Restart, repoVars
<1>7. TreeShape' /\ SweepShape' /\ CommittedWorkKept'
  BY DEF WorkspaceInv, TreeShape, SweepShape, CommittedWorkKept, Restart, repoVars
<1> QED BY <1>1, <1>2, <1>3, <1>4, <1>5, <1>6, <1>7 DEF WorkspaceInv

LEMMA SweepListKeeps ==
  ASSUME WorkspaceInv, SweepList
  PROVE  WorkspaceInv'
<1>1. (sweep \in SweepRecord)'
  BY DEF WorkspaceInv, WorkspaceTyped, SweepRecord, TreeRecord, SweepList, CheckedOut, sweepRest
<1>2. WorkspaceTyped'
  BY <1>1 DEF WorkspaceInv, WorkspaceTyped, AttemptShape, RunShape, AttemptRecord, TreeRecord, SweepList, sweepRest
<1>3. SweepShape'
  BY DEF WorkspaceInv, SweepShape, TreeShape, SweepList, sweepRest
<1>4. JudgedShape'
  BY DEF WorkspaceInv, JudgedShape, AboutToDelete, SweepList, sweepRest
<1>5. AttemptShape' /\ RunShape' /\ TreeShape' /\ MintedShape' /\ CommittedWorkKept'
     /\ RunKeepsWorkspace'
  BY DEF WorkspaceInv, AttemptShape, RunShape, TreeShape, MintedShape, CommittedWorkKept,
       RunKeepsWorkspace, SweepList, sweepRest
<1> QED BY <1>2, <1>3, <1>4, <1>5 DEF WorkspaceInv

LEMMA SweepRemoveKeeps ==
  ASSUME WorkspaceInv, SweepRemove
  PROVE  WorkspaceInv'
<1>1. (tree \in [Token -> TreeRecord])'
  BY RemovedTyped DEF WorkspaceInv, WorkspaceTyped, SweepRecord, SweepRemove
<1>2. (sweep \in SweepRecord)'
  BY DEF WorkspaceInv, WorkspaceTyped, SweepRecord, SweepRemove
<1>3. WorkspaceTyped'
  BY <1>1, <1>2 DEF WorkspaceInv, WorkspaceTyped, SweepRemove, sweepRest
<1>4. TreeShape'
  BY DEF WorkspaceInv, TreeShape, SweepRemove, RemoveTree, sweepRest
<1>5. SweepShape'
  BY DEF WorkspaceInv, SweepShape, SweepRemove, RemoveTree, sweepRest
<1>6. MintedShape'
  BY DEF WorkspaceInv, MintedShape, SweepShape, SweepRemove, RemoveTree, sweepRest
<1>7. JudgedShape'
  BY DEF WorkspaceInv, JudgedShape, AboutToDelete, SweepRemove, sweepRest
<1>8. RunKeepsWorkspace'
  BY DEF WorkspaceInv, RunKeepsWorkspace, SweepShape, SweepRemove, RemoveTree, sweepRest
<1>9. AttemptShape' /\ RunShape' /\ CommittedWorkKept'
  BY DEF WorkspaceInv, AttemptShape, RunShape, CommittedWorkKept, SweepRemove, sweepRest
<1> QED BY <1>3, <1>4, <1>5, <1>6, <1>7, <1>8, <1>9 DEF WorkspaceInv

LEMMA SweepDeleteKeeps ==
  ASSUME WorkspaceInv, SweepDelete
  PROVE  WorkspaceInv'
<1>1. (sweep \in SweepRecord)'
  BY DEF WorkspaceInv, WorkspaceTyped, SweepRecord, SweepDelete
<1>2. WorkspaceTyped'
  BY <1>1 DEF WorkspaceInv, WorkspaceTyped, RunShape, SweepRecord, SweepDelete, DeleteBranch, sweepRest
<1>3. TreeShape'
  BY DEF WorkspaceInv, WorkspaceTyped, TreeRecord, TreeShape, SweepDelete, DeleteBranch, CheckedOut, sweepRest
<1>4. SweepShape'
  BY DEF WorkspaceInv, SweepShape, SweepDelete, sweepRest
<1>5. MintedShape'
  BY DEF WorkspaceInv, WorkspaceTyped, MintedShape, AttemptShape, SweepDelete, DeleteBranch, CheckedOut, sweepRest
<1>6. JudgedShape'
  BY DEF WorkspaceInv, WorkspaceTyped, JudgedShape, AboutToDelete, SweepDelete, DeleteBranch, sweepRest
<1>7. CommittedWorkKept'
  BY DEF WorkspaceInv, WorkspaceTyped, SweepRecord, CommittedWorkKept, JudgedShape, AboutToDelete, SweepDelete,
       DeleteBranch, sweepRest
<1>8. AttemptShape' /\ RunShape' /\ RunKeepsWorkspace'
  BY DEF WorkspaceInv, AttemptShape, RunShape, RunKeepsWorkspace, SweepDelete, sweepRest
<1> QED BY <1>2, <1>3, <1>4, <1>5, <1>6, <1>7, <1>8 DEF WorkspaceInv

LEMMA SweepEndsKeeps ==
  ASSUME WorkspaceInv, SweepEnds
  PROVE  WorkspaceInv'
<1>1. (sweep \in SweepRecord)'
  BY DEF SweepRecord, SweepEnds, NoSweep
<1>2. WorkspaceTyped'
  BY <1>1 DEF WorkspaceInv, WorkspaceTyped, SweepEnds, sweepRest
<1>3. SweepShape'
  BY DEF SweepShape, SweepEnds, NoSweep
<1>4. JudgedShape'
  BY DEF WorkspaceInv, JudgedShape, AboutToDelete, SweepEnds, NoSweep, sweepRest
<1>5. AttemptShape' /\ RunShape' /\ TreeShape' /\ MintedShape' /\ CommittedWorkKept'
     /\ RunKeepsWorkspace'
  BY DEF WorkspaceInv, AttemptShape, RunShape, TreeShape, MintedShape, CommittedWorkKept,
       RunKeepsWorkspace, SweepEnds, sweepRest
<1> QED BY <1>2, <1>3, <1>4, <1>5 DEF WorkspaceInv


-----------------------------------------------------------------------------
LEMMA TypedMeans == WorkspaceTyped => WsTypeOK
BY DEF WorkspaceTyped, WsTypeOK, TreeRecord, AttemptRecord, SweepRecord

LEMMA WorkspaceInvInitially == WsInit => WorkspaceInv
<1> SUFFICES ASSUME WsInit PROVE WorkspaceInv
  OBVIOUS
<1>1. WorkspaceTyped
  BY DEF WsInit, WorkspaceTyped, NoTree, NoSweep, TreeRecord, AttemptRecord, SweepRecord, AttemptPc, Kind
<1>2. AttemptShape /\ RunShape /\ TreeShape /\ SweepShape /\ MintedShape
  BY DEF WsInit, NoTree, NoSweep, AttemptShape, RunShape, TreeShape, SweepShape, MintedShape
<1>3. JudgedShape /\ CommittedWorkKept /\ RunKeepsWorkspace
  BY DEF WsInit, NoTree, NoSweep, JudgedShape, CommittedWorkKept, RunKeepsWorkspace
<1> QED BY <1>1, <1>2, <1>3 DEF WorkspaceInv

LEMMA WorkspaceInvInductive == WorkspaceInv /\ [WsNext]_wsVars => WorkspaceInv'
<1> SUFFICES ASSUME WorkspaceInv, [WsNext]_wsVars PROVE WorkspaceInv'
  OBVIOUS
<1>1. CASE UNCHANGED wsVars
  BY <1>1 DEF wsVars, WorkspaceInv, WorkspaceTyped, AttemptShape, RunShape, TreeShape, SweepShape, MintedShape,
              JudgedShape, AboutToDelete, CommittedWorkKept, RunKeepsWorkspace
<1>2. ASSUME NEW t \in Token, ToolStep(t) PROVE WorkspaceInv'
  BY <1>2, ProvisionKeeps, DropMergedKeeps, MintKeeps, ContinueKeeps, DetachKeeps,
     LaunchFailsKeeps, SendKeeps, NoAckKeeps, DropTreeKeeps, DropBranchKeeps, AgainKeeps
  DEF ToolStep
<1>3. ASSUME NEW t \in Token, DaemonStep(t) PROVE WorkspaceInv'
  BY <1>3, AcceptKeeps, AcknowledgeKeeps, RejectKeeps, ReapKeeps, TearTreeKeeps,
     TearCountKeeps, TearBranchKeeps DEF DaemonStep
<1>4. ASSUME NEW t \in Token, RunCommits(t) \/ Exit(t) \/ Age(t) \/ SweepJudgeTree(t)
      PROVE WorkspaceInv'
  BY <1>4, RunCommitsKeeps, ExitKeeps, AgeKeeps, SweepJudgeTreeKeeps
<1>5. ASSUME NEW h \in Handle, Merge(h) \/ SweepJudge(h) PROVE WorkspaceInv'
  BY <1>5, MergeKeeps, SweepJudgeKeeps
<1>6. CASE Crash \/ Restart \/ SweepList \/ SweepRemove \/ SweepDelete \/ SweepEnds
  BY <1>6, CrashKeeps, RestartKeeps, SweepListKeeps, SweepRemoveKeeps, SweepDeleteKeeps,
     SweepEndsKeeps
<1> QED BY <1>1, <1>2, <1>3, <1>4, <1>5, <1>6 DEF WsNext

LEMMA WorkspaceInvAlways == WsSpec => []WorkspaceInv
BY WorkspaceInvInitially, WorkspaceInvInductive, PTL DEF WsSpec

\* Attempts, worktrees, rows, teardowns and the sweep are well typed.
THEOREM WsTypeCorrect == WsSpec => []WsTypeOK
<1>1. WorkspaceInv => WsTypeOK BY TypedMeans DEF WorkspaceInv
<1> QED BY <1>1, WorkspaceInvAlways, PTL

\* Whoever deletes a branch, on whatever judgement and however long ago: it had no work of
\* its own, or work that came after the judgement.
THEOREM CommitsAreKept == WsSpec => []CommittedWorkKept
<1>1. WorkspaceInv => CommittedWorkKept BY DEF WorkspaceInv
<1> QED BY <1>1, WorkspaceInvAlways, PTL

\* Nobody removes the workspace of a live run before its lock is stale.
THEOREM LiveRunKeepsWorkspace == WsSpec => []RunKeepsWorkspace
<1>1. WorkspaceInv => RunKeepsWorkspace BY DEF WorkspaceInv
<1> QED BY <1>1, WorkspaceInvAlways, PTL

HIDE WorkspaceAssumption

-----------------------------------------------------------------------------
\* The worktrees of sessions.
USE SessionWorktreesAssumption

WorktreeRecord ==
  [there : BOOLEAN, branch : Branch \cup {NoBranch}, lock : Lock, dirty : BOOLEAN, legacy : BOOLEAN]

WantRecord == [label : Label, branch : Branch \cup {NoBranch}] \cup {NoWant}

SessionRecord ==
  [pc : SessionPc, for : Purpose, starting : BOOLEAN, at : Label \cup {"none"}, want : WantRecord,
   saved : WantRecord, doomed : SUBSET Label, victim : Label \cup {"none"},
   sure : SUBSET {"inUse", "dirty"}]

TreesTyped ==
  /\ dir \in [Label -> WorktreeRecord] /\ branches \subseteq Branch
  /\ sess \in [Session -> SessionRecord]
  /\ overtook \subseteq Session \X Label /\ wasted \subseteq Label /\ written \subseteq Label

\* A directory that is no worktree has nothing, and a fresh lock has an owner.
DirShape ==
  \A l \in Label :
    /\ ~dir[l].there => dir[l] = Nowhere
    /\ dir[l].lock.fresh => dir[l].lock.by # "nobody"

\* The locks that the program must not break.
FreshLock(l) == dir[l].lock.fresh /\ dir[l].lock.by # "foreign"

Removing == {"next", "status", "unlock", "remove", "deleteBranch"}

\* What session s, in state r, has judged holds still, or was overtaken, or its user is sure;
\* and what it is about to add has a branch.
Judgement(s, r) ==
  /\ r.pc \notin Removing => r.doomed = {} /\ r.victim = "none"
  /\ \A l \in r.doomed :
       FreshLock(l) => <<s, l>> \in overtook \/ (r.for = "quit" /\ dir[l].lock.by = s)
  /\ r.victim \in Label /\ FreshLock(r.victim) =>
       \/ <<s, r.victim>> \in overtook \/ "inUse" \in r.sure
       \/ r.for = "quit" /\ dir[r.victim].lock.by = s
  /\ r.pc = "stageUnlock" /\ r.want.label \in Label /\ FreshLock(r.want.label) =>
       <<s, r.want.label>> \in overtook
  /\ r.pc \in {"unlock", "remove"} /\ r.victim \in Label /\ dir[r.victim].dirty =>
       "dirty" \in r.sure \/ r.victim \in written
  /\ r.pc = "add" => r.want.branch # NoBranch

TreesInv ==
  TreesTyped /\ DirShape /\ (\A s \in Session : Judgement(s, sess[s])) /\ UncommittedWorkKept

-----------------------------------------------------------------------------
\* What the helpers return.

LEMMA TreesConstants ==
  /\ NotLocked \in Lock /\ Nowhere \in WorktreeRecord /\ NoWant \in WantRecord
  /\ OffSession \in SessionRecord
  /\ \A s \in Session \cup {"staged"} : [by |-> s, fresh |-> TRUE] \in Lock
BY DEF NotLocked, Lock, Nowhere, WorktreeRecord, WantRecord, OffSession, SessionRecord, SessionPc,
   Purpose

LEMMA TreesTypes ==
  ASSUME TreesInv
  PROVE  /\ dir \in [Label -> WorktreeRecord] /\ sess \in [Session -> SessionRecord]
         /\ \A l \in Label : dir[l] \in WorktreeRecord /\ dir[l].lock \in Lock
                              /\ (dir[l].there \/ dir[l] = Nowhere)
         /\ \A s \in Session : sess[s] \in SessionRecord /\ Judgement(s, sess[s])
<1>1. dir \in [Label -> WorktreeRecord] /\ sess \in [Session -> SessionRecord]
  BY DEF TreesInv, TreesTyped
<1>2. ASSUME NEW l \in Label
      PROVE  dir[l] \in WorktreeRecord /\ dir[l].lock \in Lock /\ (dir[l].there \/ dir[l] = Nowhere)
  <2>1. dir[l] \in WorktreeRecord
    BY <1>1
  <2>2. dir[l].there \in BOOLEAN /\ dir[l].lock \in Lock
    BY <2>1 DEF WorktreeRecord
  <2>3. DirShape
    BY DEF TreesInv
  <2>4. ~dir[l].there => dir[l] = Nowhere
    BY <2>3 DEF DirShape
  <2> QED BY <2>1, <2>2, <2>4
<1>3. ASSUME NEW s \in Session PROVE sess[s] \in SessionRecord /\ Judgement(s, sess[s])
  BY <1>1 DEF TreesInv
<1> QED BY <1>1, <1>2, <1>3

LEMMA IdleTyped ==
  ASSUME NEW r \in SessionRecord
  PROVE  Idle(r) \in SessionRecord /\ Idle(r).pc = "idle" /\ Idle(r).doomed = {}
         /\ Idle(r).victim = "none"
BY TreesConstants DEF Idle, SessionRecord, SessionPc, Purpose

\* A session that removes nothing and stages nothing.
Harmless(r) == r.pc \notin Removing \cup {"stageUnlock", "add"} /\ r.doomed = {} /\ r.victim = "none"

LEMMA OnwardTyped ==
  ASSUME NEW r \in SessionRecord, r.doomed = {}, r.victim = "none"
  PROVE  Onward(r) \in SessionRecord /\ Harmless(Onward(r))
<1>1. CASE ~r.starting
  BY <1>1, IdleTyped DEF Onward, Harmless, Removing
<1>2. CASE r.starting /\ r.for = "adopt"
  <2>1. Onward(r) = [r EXCEPT !.pc = "migrate"]
    BY <1>2 DEF Onward
  <2> QED BY <2>1 DEF SessionRecord, SessionPc, Harmless, Removing
<1>3. CASE r.starting /\ r.for # "adopt"
  <2>1. Onward(r) = [r EXCEPT !.pc = "list", !.for = "sweep", !.want = NoWant]
    BY <1>3 DEF Onward
  <2> QED BY <2>1, TreesConstants DEF SessionRecord, SessionPc, Purpose, Harmless, Removing
<1> QED BY <1>1, <1>2, <1>3

LEMMA ApplyTyped ==
  ASSUME TreesInv, NEW l \in Label, NEW r \in SessionRecord, r.doomed = {}, r.victim = "none"
  PROVE  Apply(r, l) \in SessionRecord /\ Harmless(Apply(r, l))
<1>1. [label |-> l, branch |-> dir[l].branch] \in WantRecord
  BY TreesTypes DEF WantRecord, WorktreeRecord
<1> QED BY <1>1 DEF Apply, SessionRecord, SessionPc, Harmless, Removing

LEMMA KeptTyped ==
  ASSUME TreesInv, NEW s \in Session
  PROVE  /\ Kept(s) \in SessionRecord /\ Kept(s).pc = "next" /\ Kept(s).victim = "none"
         /\ Kept(s).doomed = sess[s].doomed /\ Kept(s).for = sess[s].for
<1>1. sess[s] \in SessionRecord
  BY TreesTypes
<1> QED BY <1>1 DEF Kept, SessionRecord, SessionPc

\* A session at work has judged nothing.
LEMMA AtWorkIsClean ==
  ASSUME TreesInv, NEW s \in Session, sess[s].pc \notin Removing
  PROVE  sess[s].doomed = {} /\ sess[s].victim = "none"
BY TreesTypes DEF Judgement

LEMMA HarmlessJudgement ==
  ASSUME NEW s, NEW r, Harmless(r)
  PROVE  Judgement(s, r)'
BY DEF Harmless, Judgement

-----------------------------------------------------------------------------
\* What a session has judged, when another moves.

\* A judgement outlives a step that makes no lock fresh without overtaking who judged it,
\* and writes to no worktree that was found clean.
LEMMA JudgementStays ==
  ASSUME NEW t \in Session, NEW r, r \in SessionRecord, Judgement(t, r), written \subseteq written',
         \A l \in Label : <<t, l>> \in overtook => <<t, l>> \in overtook',
         \A l \in Label : FreshLock(l)' =>
           \/ FreshLock(l) /\ dir'[l].lock = dir[l].lock
           \/ l \notin r.doomed /\ r.victim # l /\ ~(r.pc = "stageUnlock" /\ r.want.label = l)
           \/ <<t, l>> \in overtook',
         \A l \in Label : dir'[l].dirty =>
           dir[l].dirty \/ (r.victim = l /\ r.pc \in {"unlock", "remove"} => l \in written')
  PROVE  Judgement(t, r)'
<1>1. r.doomed \subseteq Label
  BY DEF SessionRecord
<1> QED BY <1>1 DEF Judgement

\* Only s moves, to r.
LEMMA SessionMoves ==
  ASSUME TreesInv, NEW s \in Session, NEW r \in SessionRecord, Goes(s, r),
         UNCHANGED <<dir, branches, wasted, written>>, overtook' \in {overtook, Forget(s)},
         Judgement(s, r)'
  PROVE  TreesInv'
<1>1. /\ sess' = [sess EXCEPT ![s] = r] /\ overtook' \subseteq overtook
      /\ \A t \in Session \ {s}, l \in Label : <<t, l>> \in overtook => <<t, l>> \in overtook'
  BY DEF Goes, Forget
<1>2. TreesTyped'
  BY <1>1 DEF TreesInv, TreesTyped
<1>3. DirShape' /\ UncommittedWorkKept'
  BY DEF TreesInv, DirShape, UncommittedWorkKept
<1>4. ASSUME NEW t \in Session PROVE Judgement(t, sess[t])'
  <2>1. CASE t = s
    BY <1>1, <2>1, TreesTypes
  <2>2. CASE t # s
    <3>1. sess'[t] = sess[t] /\ sess[t] \in SessionRecord /\ Judgement(t, sess[t])
      BY <1>1, <2>2, TreesTypes
    <3> DEFINE q == sess[t]
    <3>2. Judgement(t, q)'
      BY <1>1, <2>2, <3>1 DEF Judgement, FreshLock, SessionRecord
    <3> QED BY <3>2
  <2> QED BY <2>1, <2>2
<1> QED BY <1>2, <1>3, <1>4 DEF TreesInv

\* The session moves on with nothing judged.
LEMMA HarmlessMove ==
  ASSUME TreesInv, NEW s \in Session, NEW r \in SessionRecord, Harmless(r), Goes(s, r),
         UNCHANGED <<gitState, ghosts>> \/ UNCHANGED <<gitState, overtook, wasted, written>>
  PROVE  TreesInv'
BY HarmlessJudgement, SessionMoves DEF gitState, ghosts

\* A session steps, and the worktrees change.
LEMMA TreeMoves ==
  ASSUME TreesInv, NEW s \in Session, NEW r \in SessionRecord, Goes(s, r), Judgement(s, r)',
         dir' \in [Label -> WorktreeRecord], DirShape', branches' \subseteq Branch,
         overtook \subseteq overtook', overtook' \subseteq Session \X Label,
         written' = written, wasted' \subseteq written,
         \A l \in Label : FreshLock(l)' =>
           \/ FreshLock(l) /\ dir'[l].lock = dir[l].lock
           \/ \A t \in Session \ {s} : Judged(t, l) => <<t, l>> \in overtook',
         \A l \in Label : dir'[l].dirty => dir[l].dirty
  PROVE  TreesInv'
<1>1. sess' = [sess EXCEPT ![s] = r]
  BY DEF Goes
<1>2. wasted' \subseteq Label /\ written' \subseteq Label
  BY DEF TreesInv, TreesTyped
<1>3. TreesTyped'
  BY <1>1 DEF TreesInv, TreesTyped
<1>4. UncommittedWorkKept'
  BY DEF UncommittedWorkKept
<1>5. ASSUME NEW t \in Session PROVE Judgement(t, sess[t])'
  <2>1. CASE t = s
    BY <1>1, <2>1, TreesTypes
  <2>2. CASE t # s
    <3>1. PICK q \in SessionRecord : q = sess[t] /\ q = sess'[t]
      BY <1>1, <2>2, TreesTypes
    <3>2. Judgement(t, q)
      BY <3>1, TreesTypes
    <3>3. \A l \in Label : FreshLock(l)' =>
            \/ FreshLock(l) /\ dir'[l].lock = dir[l].lock
            \/ l \notin q.doomed /\ q.victim # l /\ ~(q.pc = "stageUnlock" /\ q.want.label = l)
            \/ <<t, l>> \in overtook'
      BY <2>2, <3>1 DEF Judged
    <3>4. Judgement(t, q)'
      BY <3>2, <3>3, JudgementStays
    <3> QED BY <3>1, <3>4
  <2> QED BY <2>1, <2>2
<1> QED BY <1>3, <1>4, <1>5 DEF TreesInv

\* A lock that is taken away leaves the worktrees typed, and none fresher.
LEMMA UnlockedTrees ==
  ASSUME TreesInv, NEW l \in Label \cup {"none"}, Unlocked(l)
  PROVE  /\ dir' \in [Label -> WorktreeRecord] /\ DirShape'
         /\ \A m \in Label : /\ FreshLock(m)' => FreshLock(m) /\ dir'[m].lock = dir[m].lock
                             /\ dir'[m].dirty = dir[m].dirty
<1>1. CASE There(l)
  <2> DEFINE d == [dir[l] EXCEPT !.lock = NotLocked]
  <2>1. l \in Label /\ dir[l].there
    BY <1>1 DEF There
  <2>2. d \in WorktreeRecord /\ d.there /\ d.lock = NotLocked /\ d.dirty = dir[l].dirty
    BY <2>1, TreesTypes, TreesConstants DEF WorktreeRecord
  <2>3. dir' = [dir EXCEPT ![l] = d]
    BY <1>1 DEF Unlocked
  <2> HIDE DEF d
  <2>4. dir'[l] = d /\ \A m \in Label \ {l} : dir'[m] = dir[m]
    BY <2>1, <2>3, TreesTypes
  <2>5. DirShape'
    BY <2>2, <2>4 DEF TreesInv, DirShape, NotLocked
  <2>6. dir' \in [Label -> WorktreeRecord]
    BY <2>2, <2>3, TreesTypes
  <2> QED BY <2>2, <2>4, <2>5, <2>6 DEF FreshLock, NotLocked
<1>2. CASE ~There(l)
  BY <1>2, TreesTypes DEF Unlocked, TreesInv, DirShape, FreshLock
<1> QED BY <1>1, <1>2

\* Who has judged a worktree is overtaken by a new lock on it.
LEMMA LockedTrees ==
  ASSUME TreesInv, NEW l \in Label, NEW by \in Session \cup {"staged"}, There(l), PutLock(l, by)
  PROVE  /\ dir' \in [Label -> WorktreeRecord] /\ DirShape'
         /\ overtook \subseteq overtook' /\ overtook' \subseteq Session \X Label
         /\ \A m \in Label : /\ FreshLock(m)' =>
                                  \/ FreshLock(m) /\ dir'[m].lock = dir[m].lock
                                  \/ \A t \in Session : Judged(t, m) => <<t, m>> \in overtook'
                             /\ dir'[m].dirty = dir[m].dirty
<1> DEFINE k == [by |-> by, fresh |-> TRUE]
           d == [dir[l] EXCEPT !.lock = k]
<1>1. k \in Lock /\ k.by # "nobody" /\ dir[l].there
  BY TreesConstants DEF There
<1>2. d \in WorktreeRecord /\ d.there /\ d.lock.by # "nobody" /\ d.dirty = dir[l].dirty
  BY <1>1, TreesTypes DEF WorktreeRecord
<1>3. dir' = [dir EXCEPT ![l] = d]
  BY DEF PutLock
<1> HIDE DEF d
<1>4. dir'[l] = d /\ \A m \in Label \ {l} : dir'[m] = dir[m]
  BY <1>3, TreesTypes
<1>5. DirShape'
  BY <1>2, <1>4 DEF TreesInv, DirShape
<1>6. dir' \in [Label -> WorktreeRecord]
  BY <1>2, <1>3, TreesTypes
<1>7. /\ overtook \subseteq overtook' /\ overtook' \subseteq Session \X Label
      /\ \A t \in Session : Judged(t, l) => <<t, l>> \in overtook'
  BY DEF PutLock, Overtakes, TreesInv, TreesTyped
<1> QED BY <1>2, <1>4, <1>5, <1>6, <1>7 DEF FreshLock

-----------------------------------------------------------------------------
\* Leases.

LEMMA LeaseReadKeeps == ASSUME TreesInv, NEW s \in Session, LeaseRead(s) PROVE TreesInv'
<1>1. sess[s] \in SessionRecord /\ sess[s].doomed = {} /\ sess[s].victim = "none"
  BY TreesTypes, AtWorkIsClean DEF LeaseRead, At, Removing
<1> DEFINE r == [sess[s] EXCEPT !.pc = "leaseUnlock"]
<1>2. r \in SessionRecord /\ Harmless(r)
  BY <1>1 DEF SessionRecord, SessionPc, Harmless, Removing
<1>3. Goes(s, Onward(sess[s])) \/ Goes(s, r)
  BY DEF LeaseRead
<1> HIDE DEF r
<1> QED BY <1>1, <1>2, <1>3, OnwardTyped, HarmlessMove DEF LeaseRead

LEMMA LeaseUnlockKeeps == ASSUME TreesInv, NEW s \in Session, LeaseUnlock(s) PROVE TreesInv'
<1>1. sess[s] \in SessionRecord /\ sess[s].doomed = {} /\ sess[s].victim = "none"
  BY TreesTypes, AtWorkIsClean DEF LeaseUnlock, At, Removing
<1> DEFINE r == [sess[s] EXCEPT !.pc = "leaseLock"]
<1>2. r \in SessionRecord /\ Harmless(r)
  BY <1>1 DEF SessionRecord, SessionPc, Harmless, Removing
<1>3. Goes(s, r) /\ Unlocked(sess[s].at) /\ UNCHANGED <<branches, ghosts>>
  BY DEF LeaseUnlock
<1>4. sess[s].at \in Label \cup {"none"}
  BY <1>1 DEF SessionRecord
<1> HIDE DEF r
<1>5. branches' \subseteq Branch /\ overtook' = overtook /\ overtook \subseteq Session \X Label
      /\ written' = written /\ wasted' \subseteq written
  BY <1>3 DEF ghosts, TreesInv, TreesTyped, UncommittedWorkKept
<1> QED BY <1>2, <1>3, <1>4, <1>5, UnlockedTrees, HarmlessJudgement, TreeMoves

LEMMA LeaseLockKeeps == ASSUME TreesInv, NEW s \in Session, LeaseLock(s) PROVE TreesInv'
<1>1. sess[s] \in SessionRecord /\ sess[s].doomed = {} /\ sess[s].victim = "none"
  BY TreesTypes, AtWorkIsClean DEF LeaseLock, At, Removing
<1>2. Onward(sess[s]) \in SessionRecord /\ Harmless(Onward(sess[s]))
  BY <1>1, OnwardTyped
<1>3. Goes(s, Onward(sess[s])) /\ UNCHANGED <<branches, wasted, written>>
  BY DEF LeaseLock
<1>4. branches' \subseteq Branch /\ overtook \subseteq Session \X Label
      /\ written' = written /\ wasted' \subseteq written
  BY <1>3 DEF TreesInv, TreesTyped, UncommittedWorkKept
<1>5. CASE There(sess[s].at) /\ PutLock(sess[s].at, s)
  <2>1. sess[s].at \in Label
    BY <1>5 DEF There
  <2> QED BY <1>2, <1>3, <1>4, <1>5, <2>1, LockedTrees, HarmlessJudgement, TreeMoves
<1>6. CASE UNCHANGED <<dir, overtook>>
  BY <1>2, <1>3, <1>6, HarmlessJudgement, SessionMoves
<1> QED BY <1>5, <1>6 DEF LeaseLock

LEMMA StageReadKeeps == ASSUME TreesInv, NEW s \in Session, StageRead(s) PROVE TreesInv'
<1> DEFINE l == sess[s].want.label
<1>1. sess[s] \in SessionRecord /\ sess[s].doomed = {} /\ sess[s].victim = "none"
  BY TreesTypes, AtWorkIsClean DEF StageRead, At, Removing
<1>2. UNCHANGED <<dir, branches, wasted, written>> /\ overtook' = Forget(s)
  BY DEF StageRead, gitState
<1>3. CASE Goes(s, Onward(sess[s]))
  BY <1>1, <1>2, <1>3, OnwardTyped, HarmlessJudgement, SessionMoves
<1>4. CASE ~Goes(s, Onward(sess[s]))
  <2>1. [sess[s] EXCEPT !.pc = "stageUnlock"] \in SessionRecord
    BY <1>1 DEF SessionRecord, SessionPc
  <2>2. PICK r \in SessionRecord : r = [sess[s] EXCEPT !.pc = "stageUnlock"]
    BY <2>1
  <2>3. Goes(s, r) /\ ~(There(l) /\ dir[l].lock # NotLocked /\ Classify(l) # "cold")
    BY <1>4, <2>2 DEF StageRead
  <2>4. r.pc = "stageUnlock" /\ r.doomed = {} /\ r.victim = "none" /\ r.want.label = l
    BY <1>1, <2>2
  <2>5. r.want.label \in Label => ~FreshLock(r.want.label)
    BY <2>3, <2>4, TreesTypes DEF There, Classify, FreshLock, NotLocked, Nowhere
  <2>6. "none" \notin Label /\ \A m \in Label : dir'[m] = dir[m]
    BY <1>2
  <2>7. Judgement(s, r)'
    BY <2>4, <2>5, <2>6 DEF Judgement, FreshLock
  <2> QED BY <1>2, <2>3, <2>7, SessionMoves
<1> QED BY <1>3, <1>4

LEMMA StageUnlockKeeps == ASSUME TreesInv, NEW s \in Session, StageUnlock(s) PROVE TreesInv'
<1>1. sess[s] \in SessionRecord /\ sess[s].doomed = {} /\ sess[s].victim = "none"
  BY TreesTypes, AtWorkIsClean DEF StageUnlock, At, Removing
<1> DEFINE r == [sess[s] EXCEPT !.pc = "stageLock"]
<1>2. r \in SessionRecord /\ Harmless(r)
  BY <1>1 DEF SessionRecord, SessionPc, Harmless, Removing
<1>3. Goes(s, r) /\ Unlocked(sess[s].want.label) /\ UNCHANGED <<branches, ghosts>>
  BY DEF StageUnlock
<1>4. sess[s].want.label \in Label \cup {"none"}
  BY <1>1 DEF SessionRecord, WantRecord, NoWant
<1> HIDE DEF r
<1>5. branches' \subseteq Branch /\ overtook' = overtook /\ overtook \subseteq Session \X Label
      /\ written' = written /\ wasted' \subseteq written
  BY <1>3 DEF ghosts, TreesInv, TreesTyped, UncommittedWorkKept
<1> QED BY <1>2, <1>3, <1>4, <1>5, UnlockedTrees, HarmlessJudgement, TreeMoves

LEMMA StageLockKeeps == ASSUME TreesInv, NEW s \in Session, StageLock(s) PROVE TreesInv'
<1> DEFINE l == sess[s].want.label
<1>1. sess[s] \in SessionRecord /\ sess[s].doomed = {} /\ sess[s].victim = "none"
  BY TreesTypes, AtWorkIsClean DEF StageLock, At, Removing
<1>2. Onward(sess[s]) \in SessionRecord /\ Harmless(Onward(sess[s]))
  BY <1>1, OnwardTyped
<1>3. Goes(s, Onward(sess[s])) /\ UNCHANGED <<branches, wasted, written>>
  BY DEF StageLock
<1>4. branches' \subseteq Branch /\ overtook \subseteq Session \X Label
      /\ written' = written /\ wasted' \subseteq written
  BY <1>3 DEF TreesInv, TreesTyped, UncommittedWorkKept
<1>5. CASE There(l) /\ PutLock(l, "staged")
  <2>1. l \in Label
    BY <1>5 DEF There
  <2> HIDE DEF l
  <2> QED BY <1>2, <1>3, <1>4, <1>5, <2>1, LockedTrees, HarmlessJudgement, TreeMoves
<1>6. CASE UNCHANGED <<dir, overtook>>
  BY <1>2, <1>3, <1>6, HarmlessJudgement, SessionMoves
<1> QED BY <1>5, <1>6 DEF StageLock

-----------------------------------------------------------------------------
\* session_start and activation.

LEMMA StartKeeps == ASSUME TreesInv, NEW s \in Session, Start(s) PROVE TreesInv'
<1>1. PICK from \in {sess[t].saved : t \in Session} \cup {NoWant}, l \in Label \cup {"none"} :
        LET r == [OffSession EXCEPT !.starting = TRUE, !.want = from, !.saved = sess[s].saved] IN
        Goes(s, IF l = "none" THEN [r EXCEPT !.pc = "migrate"] ELSE [Apply(r, l) EXCEPT !.want = from])
  BY DEF Start
<1> DEFINE r == [OffSession EXCEPT !.starting = TRUE, !.want = from, !.saved = sess[s].saved]
<1>2. from \in WantRecord /\ sess[s].saved \in WantRecord
  BY TreesTypes, TreesConstants DEF SessionRecord
<1>3. r \in SessionRecord /\ r.doomed = {} /\ r.victim = "none"
  BY <1>2, TreesConstants DEF OffSession, SessionRecord
<1>4. UNCHANGED <<gitState, overtook, wasted, written>>
  BY DEF Start
<1>5. CASE l = "none"
  <2>1. [r EXCEPT !.pc = "migrate"] \in SessionRecord /\ Harmless([r EXCEPT !.pc = "migrate"])
    BY <1>3 DEF SessionRecord, SessionPc, Harmless, Removing
  <2>2. Goes(s, [r EXCEPT !.pc = "migrate"])
    BY <1>1, <1>5
  <2> HIDE DEF r
  <2> QED BY <1>4, <2>1, <2>2, HarmlessMove
<1>6. CASE l # "none"
  <2> DEFINE a == Apply(r, l)
             b == [a EXCEPT !.want = from]
  <2>1. a \in SessionRecord /\ Harmless(a)
    BY <1>3, <1>6, ApplyTyped
  <2>2. Goes(s, b)
    BY <1>1, <1>6
  <2> HIDE DEF a
  <2>3. b \in SessionRecord /\ Harmless(b)
    BY <1>2, <2>1 DEF SessionRecord, Harmless
  <2> HIDE DEF b
  <2> QED BY <1>4, <2>2, <2>3, HarmlessMove
<1> QED BY <1>5, <1>6

LEMMA MigrateKeeps == ASSUME TreesInv, NEW s \in Session, Migrate(s) PROVE TreesInv'
<1>1. sess[s] \in SessionRecord /\ sess[s].doomed = {} /\ sess[s].victim = "none"
  BY TreesTypes, AtWorkIsClean DEF Migrate, At, Removing
<1> DEFINE r == [sess[s] EXCEPT !.pc = "enter"]
<1>2. r \in SessionRecord /\ Harmless(r)
  BY <1>1 DEF SessionRecord, SessionPc, Harmless, Removing
<1>3. Goes(s, r) /\ UNCHANGED <<branches, ghosts>>
  BY DEF Migrate
<1> HIDE DEF r
<1>4. ASSUME NEW l \in Label
      PROVE  dir'[l] \in WorktreeRecord /\ dir'[l].there = dir[l].there /\ dir'[l].lock = dir[l].lock
             /\ dir'[l].dirty = dir[l].dirty /\ (~dir[l].there => dir'[l] = dir[l])
  <2>1. CASE dir'[l] = [dir[l] EXCEPT !.legacy = FALSE] /\ dir[l].there
    BY <2>1, TreesTypes DEF WorktreeRecord
  <2>2. CASE dir'[l] = dir[l]
    BY <2>2, TreesTypes
  <2> QED BY <2>1, <2>2 DEF Migrate
<1>5. dir' \in [Label -> WorktreeRecord]
  BY <1>4 DEF Migrate
<1>6. DirShape'
  BY <1>4 DEF TreesInv, DirShape
<1>7. \A l \in Label : FreshLock(l)' => FreshLock(l) /\ dir'[l].lock = dir[l].lock
  BY <1>4 DEF FreshLock
<1>8. branches' \subseteq Branch /\ overtook' = overtook /\ overtook \subseteq Session \X Label
      /\ written' = written /\ wasted' \subseteq written
  BY <1>3 DEF ghosts, TreesInv, TreesTyped, UncommittedWorkKept
<1> QED BY <1>2, <1>3, <1>4, <1>5, <1>6, <1>7, <1>8, HarmlessJudgement, TreeMoves

LEMMA EnterKeeps == ASSUME TreesInv, NEW s \in Session, Enter(s) PROVE TreesInv'
<1> DEFINE r == [sess[s] EXCEPT !.for = "attach"]
           g == [r EXCEPT !.for = "activate", !.pc = "get"]
<1>1. sess[s] \in SessionRecord /\ sess[s].doomed = {} /\ sess[s].victim = "none"
  BY TreesTypes, AtWorkIsClean DEF Enter, At, Removing
<1>2. r \in SessionRecord /\ r.doomed = {} /\ r.victim = "none"
  BY <1>1 DEF SessionRecord, Purpose
<1>3. UNCHANGED <<gitState, ghosts>>
  BY DEF Enter
<1>4. (\E l \in Label : Goes(s, Apply(r, l))) \/ Goes(s, g) \/ Goes(s, Onward(r))
  BY DEF Enter, AttachWorktreeDir
<1> HIDE DEF r
<1>5. g \in SessionRecord /\ Harmless(g)
  BY <1>2 DEF SessionRecord, SessionPc, Purpose, Harmless, Removing
<1> HIDE DEF g
<1> QED BY <1>2, <1>3, <1>4, <1>5, ApplyTyped, OnwardTyped, HarmlessMove

LEMMA SwitchKeeps == ASSUME TreesInv, NEW s \in Session, Switch(s) PROVE TreesInv'
<1> DEFINE r == [sess[s] EXCEPT !.for = "attach"]
<1>1. sess[s] \in SessionRecord /\ sess[s].doomed = {} /\ sess[s].victim = "none"
  BY TreesTypes, AtWorkIsClean DEF Switch, At, Removing
<1>2. r \in SessionRecord /\ r.doomed = {} /\ r.victim = "none"
  BY <1>1 DEF SessionRecord, Purpose
<1>3. PICK l \in Label : Goes(s, Apply(r, l))
  BY DEF Switch, AttachWorktreeDir
<1> HIDE DEF r
<1>4. UNCHANGED <<gitState, overtook, wasted, written>>
  BY DEF Switch
<1> QED BY <1>2, <1>3, <1>4, ApplyTyped, HarmlessMove

\* Create and LaunchWorkstream ask for a worktree.
LEMMA WantKeeps ==
  ASSUME TreesInv, NEW s \in Session, At(s, "idle"), NEW l \in Label, NEW b \in Branch,
         NEW for \in Purpose,
         Goes(s, [sess[s] EXCEPT !.pc = "get", !.for = for, !.want = [label |-> l, branch |-> b]]),
         UNCHANGED <<gitState, overtook, wasted, written>>
  PROVE  TreesInv'
<1> DEFINE r == [sess[s] EXCEPT !.pc = "get", !.for = for, !.want = [label |-> l, branch |-> b]]
<1>1. sess[s] \in SessionRecord /\ sess[s].doomed = {} /\ sess[s].victim = "none"
  BY TreesTypes, AtWorkIsClean DEF At, Removing
<1>2. [label |-> l, branch |-> b] \in WantRecord
  BY DEF WantRecord
<1>3. r \in SessionRecord /\ Harmless(r)
  BY <1>1, <1>2 DEF SessionRecord, SessionPc, Harmless, Removing
<1> HIDE DEF r
<1> QED BY <1>3, HarmlessMove DEF r

LEMMA CreateKeeps == ASSUME TreesInv, NEW s \in Session, Create(s) PROVE TreesInv'
BY WantKeeps DEF Create, Purpose

LEMMA LaunchWorkstreamKeeps ==
  ASSUME TreesInv, NEW s \in Session, LaunchWorkstream(s) PROVE TreesInv'
BY WantKeeps DEF LaunchWorkstream, Purpose

LEMMA GetKeeps == ASSUME TreesInv, NEW s \in Session, Get(s) PROVE TreesInv'
<1> DEFINE g == [sess[s] EXCEPT !.pc = "stageRead"]
           l == sess[s].want.label
<1>1. sess[s] \in SessionRecord /\ sess[s].doomed = {} /\ sess[s].victim = "none"
  BY TreesTypes, AtWorkIsClean DEF Get, At, Removing
<1>2. g \in SessionRecord /\ Harmless(g) /\ [sess[s] EXCEPT !.pc = "add"] \in SessionRecord
  BY <1>1 DEF SessionRecord, SessionPc, Harmless, Removing
<1>a. PICK a \in SessionRecord : a = [sess[s] EXCEPT !.pc = "add"]
  BY <1>2
<1>3. UNCHANGED <<gitState, ghosts>>
  BY DEF Get
<1>4. \/ Goes(s, Onward(sess[s])) \/ Goes(s, g)
      \/ sess[s].want.branch # NoBranch /\ Goes(s, a)
      \/ l \in Label /\ Goes(s, Apply(sess[s], l))
  <2>1. CASE ~There(l)
    BY <1>a, <2>1 DEF Get
  <2>2. CASE There(l)
    BY <2>2 DEF Get, There
  <2> QED BY <2>1, <2>2
<1> HIDE DEF g, l
<1>5. CASE sess[s].want.branch # NoBranch /\ Goes(s, a)
  <2>1. a.pc = "add" /\ a.doomed = {} /\ a.victim = "none" /\ a.want.branch # NoBranch
    BY <1>1, <1>a, <1>5
  <2>2. Judgement(s, a)'
    BY <2>1 DEF Judgement
  <2> QED BY <1>3, <1>5, <2>2, SessionMoves DEF gitState, ghosts
<1> QED BY <1>1, <1>2, <1>3, <1>4, <1>5, ApplyTyped, OnwardTyped, HarmlessMove

LEMMA AddKeeps == ASSUME TreesInv, NEW s \in Session, Add(s) PROVE TreesInv'
<1> DEFINE r == sess[s]
           l == r.want.label
           new == [there |-> TRUE, branch |-> r.want.branch, dirty |-> FALSE, legacy |-> FALSE,
                   lock |-> IF r.for = "stage" THEN [by |-> "staged", fresh |-> TRUE] ELSE NotLocked]
           g == [r EXCEPT !.pc = "stageRead"]
           h == [r EXCEPT !.at = l, !.saved = r.want, !.pc = "leaseRead"]
<1>1. r \in SessionRecord /\ r.doomed = {} /\ r.victim = "none"
  BY TreesTypes, AtWorkIsClean DEF Add, At, Removing
<1>2. CASE Goes(s, Onward(r)) /\ UNCHANGED <<gitState, overtook>>
  BY <1>1, <1>2, OnwardTyped, HarmlessMove DEF Add
<1>3. CASE ~(Goes(s, Onward(r)) /\ UNCHANGED <<gitState, overtook>>)
  <2>1. /\ dir' = [dir EXCEPT ![l] = new] /\ branches' = branches \cup {r.want.branch} /\ Overtakes(l)
        /\ (Goes(s, g) \/ Goes(s, h))
        /\ ~dir[l].there /\ UNCHANGED <<wasted, written>>
    BY <1>3 DEF Add
  <2>2. r.want.branch \in Branch /\ l \in Label /\ r.want \in WantRecord
    <3>1. r.want \in WantRecord /\ r.want.branch # NoBranch
      BY <1>1, TreesTypes DEF SessionRecord, Judgement, Add, At
    <3> QED BY <3>1 DEF WantRecord, NoWant
  <2>3. new \in WorktreeRecord /\ new.there /\ new.dirty = FALSE
        /\ (new.lock.fresh => new.lock.by # "nobody")
    BY <2>2, TreesConstants DEF WorktreeRecord, NotLocked
  <2>4. g \in SessionRecord /\ Harmless(g) /\ h \in SessionRecord /\ Harmless(h)
    BY <1>1, <2>2 DEF SessionRecord, SessionPc, Harmless, Removing
  <2> HIDE DEF new, g, h, l, r
  <2>5. dir' \in [Label -> WorktreeRecord] /\ dir'[l] = new /\ \A m \in Label \ {l} : dir'[m] = dir[m]
    BY <2>1, <2>2, <2>3, TreesTypes
  <2>6. DirShape'
    BY <2>3, <2>5 DEF TreesInv, DirShape
  <2>7. /\ overtook \subseteq overtook' /\ overtook' \subseteq Session \X Label
        /\ \A t \in Session : Judged(t, l) => <<t, l>> \in overtook'
    BY <2>1, <2>2 DEF Overtakes, TreesInv, TreesTyped
  <2>8. \A m \in Label : FreshLock(m)' =>
          \/ FreshLock(m) /\ dir'[m].lock = dir[m].lock
          \/ \A t \in Session \ {s} : Judged(t, m) => <<t, m>> \in overtook'
    BY <2>5, <2>7 DEF FreshLock
  <2>12. \A m \in Label : dir'[m].dirty => dir[m].dirty
    BY <2>3, <2>5
  <2>9. branches' \subseteq Branch /\ written' = written /\ wasted' \subseteq written
    BY <2>1, <2>2 DEF TreesInv, TreesTyped, UncommittedWorkKept
  <2>10. PICK q \in SessionRecord : Harmless(q) /\ Goes(s, q)
    BY <2>1, <2>4
  <2>11. Judgement(s, q)'
    BY <2>10, HarmlessJudgement
  <2>13. overtook \subseteq overtook' /\ overtook' \subseteq Session \X Label
    BY <2>7
  <2>14. Goes(s, q) /\ dir' \in [Label -> WorktreeRecord]
    BY <2>5, <2>10
  <2> QED BY <2>6, <2>8, <2>9, <2>11, <2>12, <2>13, <2>14, TreeMoves
<1> QED BY <1>2, <1>3

-----------------------------------------------------------------------------
\* Removal.

LEMMA ListKeeps == ASSUME TreesInv, NEW s \in Session, List(s) PROVE TreesInv'
<1>1. sess[s] \in SessionRecord /\ sess[s].doomed = {} /\ sess[s].victim = "none"
  BY TreesTypes, AtWorkIsClean DEF List, At, Removing
<1>2. UNCHANGED <<dir, branches, wasted, written>> /\ overtook' = Forget(s)
  BY DEF List, gitState
<1>3. CASE Goes(s, Idle(sess[s]))
  <2>1. Idle(sess[s]) \in SessionRecord /\ Harmless(Idle(sess[s]))
    BY <1>1, IdleTyped DEF Harmless, Removing
  <2> QED BY <1>2, <1>3, <2>1, HarmlessJudgement, SessionMoves
<1>4. CASE ~Goes(s, Idle(sess[s]))
  <2>1. PICK d : d = ToRemove(s)
    OBVIOUS
  <2>2. d \subseteq Label
        /\ \A l \in d : FreshLock(l) => sess[s].for = "quit" /\ dir[l].lock.by = s
    <3>1. CASE sess[s].for = "sweep"
      <4>1. d = {l \in Label : dir[l].there /\ Classify(l) = "cold"}
        BY <2>1, <3>1 DEF ToRemove
      <4> QED BY <4>1 DEF Classify, FreshLock
    <3>2. CASE sess[s].for = "quit"
      <4>1. d = Owned(s)
        BY <2>1, <3>2 DEF ToRemove
      <4> QED BY <3>2, <4>1 DEF Owned
    <3>3. CASE sess[s].for \notin {"sweep", "quit"}
      BY <2>1, <3>3 DEF ToRemove
    <3> QED BY <3>1, <3>2, <3>3
  <2>3. [sess[s] EXCEPT !.doomed = d, !.pc = "next"] \in SessionRecord
    BY <1>1, <2>2 DEF SessionRecord, SessionPc
  <2>4. PICK r \in SessionRecord : r = [sess[s] EXCEPT !.doomed = d, !.pc = "next"]
    BY <2>3
  <2>5. Goes(s, r)
    BY <1>4, <2>1, <2>4 DEF List
  <2>6. r.pc = "next" /\ r.doomed = d /\ r.victim = "none" /\ r.for = sess[s].for
    BY <1>1, <2>4
  <2>7. Judgement(s, r)'
    BY <1>2, <2>2, <2>6 DEF Judgement, Removing, FreshLock
  <2> QED BY <1>2, <2>5, <2>7, SessionMoves
<1> QED BY <1>3, <1>4

LEMMA NextKeeps == ASSUME TreesInv, NEW s \in Session, Next1(s) PROVE TreesInv'
<1>1. sess[s] \in SessionRecord /\ Judgement(s, sess[s]) /\ sess[s].pc = "next"
  BY TreesTypes DEF Next1, At
<1>2. UNCHANGED <<gitState, ghosts>>
  BY DEF Next1
<1>3. CASE sess[s].doomed # {}
  <2>1. PICK l \in sess[s].doomed :
          Goes(s, [sess[s] EXCEPT !.doomed = @ \ {l}, !.victim = l, !.pc = "status"])
    BY <1>3 DEF Next1
  <2>2. l \in Label /\ sess[s].doomed \subseteq Label
    BY <1>1 DEF SessionRecord
  <2>3. [sess[s] EXCEPT !.doomed = @ \ {l}, !.victim = l, !.pc = "status"] \in SessionRecord
    BY <1>1, <2>2 DEF SessionRecord, SessionPc
  <2>4. PICK r \in SessionRecord : r = [sess[s] EXCEPT !.doomed = @ \ {l}, !.victim = l, !.pc = "status"]
    BY <2>3
  <2>5. r.pc = "status" /\ r.doomed = sess[s].doomed \ {l} /\ r.victim = l /\ r.for = sess[s].for
    BY <2>4
  <2>6. Judgement(s, r)'
    BY <1>1, <1>2, <2>5 DEF Judgement, Removing, FreshLock, gitState, ghosts
  <2> QED BY <1>2, <2>1, <2>4, <2>6, SessionMoves DEF gitState, ghosts
<1>4. CASE sess[s].doomed = {}
  <2> DEFINE o == [OffSession EXCEPT !.saved = sess[s].saved]
  <2>1. Goes(s, o) \/ Goes(s, Idle(sess[s]))
    BY <1>4 DEF Next1
  <2>2. o \in SessionRecord /\ Harmless(o)
    BY <1>1, TreesConstants DEF SessionRecord, OffSession, Harmless, Removing
  <2>3. Idle(sess[s]) \in SessionRecord /\ Harmless(Idle(sess[s]))
    BY <1>1, IdleTyped DEF Harmless, Removing
  <2> HIDE DEF o
  <2> QED BY <1>2, <2>1, <2>2, <2>3, HarmlessMove
<1> QED BY <1>3, <1>4

LEMMA PruneListKeeps == ASSUME TreesInv, NEW s \in Session, PruneList(s) PROVE TreesInv'
<1>1. sess[s] \in SessionRecord /\ sess[s].doomed = {} /\ sess[s].victim = "none"
  BY TreesTypes, AtWorkIsClean DEF PruneList, At, Removing
<1>2. UNCHANGED <<dir, branches, wasted, written>> /\ overtook' = Forget(s)
  BY DEF PruneList, gitState
<1>3. PICK l \in Label, sure \in SUBSET {"inUse", "dirty"} :
        /\ sure = IF Classify(l) = "cold" THEN {} ELSE {"inUse"}
        /\ Goes(s, [sess[s] EXCEPT !.for = "prune", !.pc = "status", !.victim = l, !.sure = sure])
  BY DEF PruneList
<1>4. [sess[s] EXCEPT !.for = "prune", !.pc = "status", !.victim = l, !.sure = sure] \in SessionRecord
  BY <1>1 DEF SessionRecord, SessionPc, Purpose
<1>5. PICK r \in SessionRecord :
        r = [sess[s] EXCEPT !.for = "prune", !.pc = "status", !.victim = l, !.sure = sure]
  BY <1>4
<1>6. r.pc = "status" /\ r.doomed = {} /\ r.victim = l /\ r.sure = sure
  BY <1>1, <1>5
<1>7. FreshLock(l) => "inUse" \in sure
  BY <1>3 DEF Classify, FreshLock
<1>8. Judgement(s, r)'
  BY <1>2, <1>6, <1>7 DEF Judgement, Removing, FreshLock
<1> QED BY <1>2, <1>3, <1>5, <1>8, SessionMoves

\* What is kept, or was removed, leaves the rest of the list as it was judged.
LEMMA KeptJudged ==
  ASSUME TreesInv, NEW s \in Session, NEW r \in SessionRecord, r.pc \in Removing \ {"unlock", "remove"},
         r.victim = "none", r.doomed = sess[s].doomed, r.for = sess[s].for
  PROVE  Judgement(s, r)
BY TreesTypes DEF Judgement, Removing

LEMMA StatusKeeps == ASSUME TreesInv, NEW s \in Session, Status(s) PROVE TreesInv'
<1>1. sess[s] \in SessionRecord /\ Judgement(s, sess[s]) /\ sess[s].pc = "status"
  BY TreesTypes DEF Status, At
<1>2. UNCHANGED <<gitState, ghosts>>
  BY DEF Status
<1>3. CASE Goes(s, Kept(s))
  <2>1. PICK r \in SessionRecord : r = Kept(s)
    BY KeptTyped
  <2>2. Judgement(s, r)
    BY <2>1, KeptTyped, KeptJudged DEF Removing
  <2>3. Judgement(s, r)'
    BY <1>2, <2>2 DEF Judgement, FreshLock, gitState, ghosts
  <2> QED BY <1>2, <1>3, <2>1, <2>3, SessionMoves DEF gitState, ghosts
<1>4. CASE ~Goes(s, Kept(s))
  <2>1. PICK sure \in SUBSET {"inUse", "dirty"} :
          /\ Goes(s, [sess[s] EXCEPT !.pc = "unlock", !.sure = sure])
          /\ sess[s].sure \subseteq sure
          /\ "dirty" \in sure \/ (There(sess[s].victim) /\ ~dir[sess[s].victim].dirty)
    <3>1. sess[s].sure \in SUBSET {"inUse", "dirty"}
      BY <1>1 DEF SessionRecord
    <3>2. CASE There(sess[s].victim) /\ ~dir[sess[s].victim].dirty
               /\ Goes(s, [sess[s] EXCEPT !.pc = "unlock"])
      <4>1. [sess[s] EXCEPT !.pc = "unlock"] = [sess[s] EXCEPT !.pc = "unlock", !.sure = sess[s].sure]
        BY <1>1 DEF SessionRecord
      <4> QED BY <3>1, <3>2, <4>1
    <3>3. CASE Goes(s, [sess[s] EXCEPT !.pc = "unlock", !.sure = @ \cup {"dirty"}])
      BY <3>1, <3>3
    <3> QED BY <1>4, <3>2, <3>3 DEF Status
  <2>2. [sess[s] EXCEPT !.pc = "unlock", !.sure = sure] \in SessionRecord
    BY <1>1 DEF SessionRecord, SessionPc
  <2>3. PICK r \in SessionRecord : r = [sess[s] EXCEPT !.pc = "unlock", !.sure = sure]
    BY <2>2
  <2>4. r.pc = "unlock" /\ r.doomed = sess[s].doomed /\ r.victim = sess[s].victim
        /\ r.for = sess[s].for /\ r.sure = sure
    BY <2>3
  <2>5. Judgement(s, r)
    BY <1>1, <2>1, <2>4 DEF Judgement, Removing
  <2>6. Judgement(s, r)'
    BY <1>2, <2>5 DEF Judgement, FreshLock, gitState, ghosts
  <2> QED BY <1>2, <2>1, <2>3, <2>6, SessionMoves DEF gitState, ghosts
<1> QED BY <1>3, <1>4

LEMMA UnlockKeeps == ASSUME TreesInv, NEW s \in Session, Unlock(s) PROVE TreesInv'
<1>1. sess[s] \in SessionRecord /\ Judgement(s, sess[s]) /\ sess[s].pc = "unlock"
  BY TreesTypes DEF Unlock, At
<1>2. [sess[s] EXCEPT !.pc = "remove"] \in SessionRecord /\ sess[s].victim \in Label \cup {"none"}
  BY <1>1 DEF SessionRecord, SessionPc
<1>3. PICK r \in SessionRecord : r = [sess[s] EXCEPT !.pc = "remove"]
  BY <1>2
<1>4. Goes(s, r) /\ Unlocked(sess[s].victim) /\ UNCHANGED <<branches, ghosts>>
  BY <1>3 DEF Unlock
<1>5. r.pc = "remove" /\ r.doomed = sess[s].doomed /\ r.victim = sess[s].victim
      /\ r.for = sess[s].for /\ r.sure = sess[s].sure
  BY <1>3
<1>6. Judgement(s, r)
  BY <1>1, <1>5 DEF Judgement, Removing
<1>7. /\ dir' \in [Label -> WorktreeRecord] /\ DirShape'
      /\ \A m \in Label : /\ FreshLock(m)' => FreshLock(m) /\ dir'[m].lock = dir[m].lock
                          /\ dir'[m].dirty = dir[m].dirty
  BY <1>2, <1>4, UnlockedTrees
<1>8. branches' \subseteq Branch /\ overtook' = overtook /\ overtook \subseteq Session \X Label
      /\ written' = written /\ wasted' \subseteq written
  BY <1>4 DEF ghosts, TreesInv, TreesTyped, UncommittedWorkKept
<1>9. Judgement(s, r)'
  BY <1>6, <1>7, <1>8, JudgementStays
<1> QED BY <1>4, <1>7, <1>8, <1>9, TreeMoves

LEMMA RemoveKeeps == ASSUME TreesInv, NEW s \in Session, PruneRemove(s) PROVE TreesInv'
<1> DEFINE l == sess[s].victim
           d == [Kept(s) EXCEPT !.pc = "deleteBranch", !.want = [label |-> l, branch |-> dir[l].branch]]
<1>1. sess[s] \in SessionRecord /\ Judgement(s, sess[s]) /\ sess[s].pc = "remove"
  BY TreesTypes DEF PruneRemove, At
<1>2. UNCHANGED <<branches, overtook, written>>
  BY DEF PruneRemove
<1>3. CASE There(l) /\ dir[l].lock = NotLocked
  <2>1. /\ l \in Label /\ dir' = [dir EXCEPT ![l] = Nowhere]
        /\ wasted' \subseteq wasted \cup {l}
        /\ wasted' = wasted \/ (dir[l].dirty /\ "dirty" \notin sess[s].sure)
        /\ Goes(s, Kept(s)) \/ Goes(s, d)
    BY <1>3 DEF PruneRemove, There
  <2>2. l \in Label => [label |-> l, branch |-> dir[l].branch] \in WantRecord
    BY TreesTypes DEF WantRecord, WorktreeRecord
  <2>3. PICK r \in SessionRecord :
          /\ Goes(s, r) /\ r.pc \in {"next", "deleteBranch"} /\ r.victim = "none"
          /\ r.doomed = sess[s].doomed /\ r.for = sess[s].for
    <3>1. CASE Goes(s, Kept(s))
      BY <3>1, KeptTyped
    <3>2. CASE Goes(s, d)
      <4> DEFINE k == Kept(s)
      <4>1. k \in SessionRecord /\ k.victim = "none" /\ k.doomed = sess[s].doomed /\ k.for = sess[s].for
        BY KeptTyped
      <4> HIDE DEF k
      <4>2. PICK w \in WantRecord : w = [label |-> l, branch |-> dir[l].branch]
        BY <2>1, <2>2
      <4>3. d = [k EXCEPT !.pc = "deleteBranch", !.want = w]
        BY <4>2 DEF k
      <4> HIDE DEF d
      <4>4. d \in SessionRecord /\ d.pc = "deleteBranch" /\ d.victim = "none" /\ d.doomed = k.doomed
            /\ d.for = k.for
        BY <4>1, <4>3 DEF SessionRecord, SessionPc
      <4> QED BY <3>2, <4>1, <4>4
    <3> QED BY <2>1, <3>1, <3>2
  <2>4. Judgement(s, r)
    BY <2>3, KeptJudged DEF Removing
  <2> HIDE DEF l
  <2>5. dir' \in [Label -> WorktreeRecord] /\ dir'[l] = Nowhere
        /\ \A m \in Label \ {l} : dir'[m] = dir[m]
    BY <2>1, TreesTypes, TreesConstants
  <2>6. DirShape'
    BY <2>5 DEF TreesInv, DirShape, Nowhere, NotLocked
  <2>7. \A m \in Label : /\ FreshLock(m)' => FreshLock(m) /\ dir'[m].lock = dir[m].lock
                         /\ dir'[m].dirty => dir[m].dirty
    BY <2>5 DEF FreshLock, Nowhere, NotLocked
  <2>8. wasted' \subseteq written
    BY <1>1, <2>1 DEF l, Judgement, TreesInv, UncommittedWorkKept
  <2>9. branches' \subseteq Branch /\ overtook \subseteq Session \X Label
    BY <1>2 DEF TreesInv, TreesTyped
  <2>10. Judgement(s, r)'
    BY <1>2, <2>4, <2>7, JudgementStays
  <2> QED BY <1>2, <2>3, <2>5, <2>6, <2>7, <2>8, <2>9, <2>10, TreeMoves
<1>4. CASE Goes(s, Kept(s)) /\ UNCHANGED <<dir, wasted>>
  <2>1. PICK r \in SessionRecord : r = Kept(s)
    BY KeptTyped
  <2>2. Judgement(s, r)
    BY <2>1, KeptTyped, KeptJudged DEF Removing
  <2>3. Judgement(s, r)'
    BY <1>2, <1>4, <2>2 DEF Judgement, FreshLock
  <2> QED BY <1>2, <1>4, <2>1, <2>3, SessionMoves
<1> QED BY <1>3, <1>4 DEF PruneRemove

LEMMA PruneBranchKeeps == ASSUME TreesInv, NEW s \in Session, PruneBranch(s) PROVE TreesInv'
<1>1. /\ UNCHANGED <<dir, ghosts>> /\ branches' \subseteq branches /\ Goes(s, Kept(s))
  BY DEF PruneBranch
<1>2. PICK r \in SessionRecord : r = Kept(s)
  BY KeptTyped
<1>3. Judgement(s, r)
  BY <1>2, KeptTyped, KeptJudged DEF Removing
<1>4. Judgement(s, r)'
  BY <1>1, <1>3 DEF Judgement, FreshLock, ghosts
<1>5. dir' \in [Label -> WorktreeRecord] /\ DirShape' /\ branches' \subseteq Branch
      /\ overtook' = overtook /\ overtook \subseteq Session \X Label /\ written' = written
      /\ wasted' \subseteq written
  BY <1>1 DEF ghosts, TreesInv, TreesTyped, DirShape, UncommittedWorkKept
<1>6. \A m \in Label : /\ FreshLock(m)' => FreshLock(m) /\ dir'[m].lock = dir[m].lock
                       /\ dir'[m].dirty => dir[m].dirty
  BY <1>1 DEF FreshLock
<1> QED BY <1>1, <1>2, <1>4, <1>5, <1>6, TreeMoves

LEMMA QuitKeeps == ASSUME TreesInv, NEW s \in Session, Quit(s) PROVE TreesInv'
<1> DEFINE r == [sess[s] EXCEPT !.pc = "list", !.for = "quit"]
<1>1. sess[s] \in SessionRecord /\ sess[s].doomed = {} /\ sess[s].victim = "none"
  BY TreesTypes, AtWorkIsClean DEF Quit, At, Removing
<1>2. r \in SessionRecord /\ Harmless(r)
  BY <1>1 DEF SessionRecord, SessionPc, Purpose, Harmless, Removing
<1>3. Goes(s, r) /\ UNCHANGED <<gitState, ghosts>>
  BY DEF Quit
<1> HIDE DEF r
<1> QED BY <1>2, <1>3, HarmlessMove

LEMMA SessionEndsKeeps == ASSUME TreesInv, NEW s \in Session, SessionEnds(s) PROVE TreesInv'
<1> DEFINE r == [OffSession EXCEPT !.saved = sess[s].saved]
<1>1. sess[s].saved \in WantRecord
  BY TreesTypes DEF SessionRecord
<1>2. r \in SessionRecord /\ Harmless(r)
  BY <1>1, TreesConstants DEF SessionRecord, OffSession, Harmless, Removing
<1>3. Goes(s, r) /\ UNCHANGED <<gitState, ghosts>>
  BY DEF SessionEnds
<1> HIDE DEF r
<1> QED BY <1>2, <1>3, HarmlessMove

-----------------------------------------------------------------------------
\* Work, and time.

\* No session steps: a worktree is written to or committed, or its lock expires.
LEMMA WorkStays ==
  ASSUME TreesInv, NEW l \in Label, NEW d \in WorktreeRecord, dir' = [dir EXCEPT ![l] = d],
         d.there = dir[l].there, d.there \/ d = Nowhere, d.lock.fresh => d.lock = dir[l].lock,
         UNCHANGED <<branches, sess, overtook, wasted>>, written \subseteq written',
         written' \subseteq Label,
         d.dirty => \/ dir[l].dirty
                    \/ \A t \in Session : sess[t].victim = l /\ sess[t].pc \in {"unlock", "remove"}
                                            => l \in written'
  PROVE  TreesInv'
<1>1. dir'[l] = d /\ \A m \in Label \ {l} : dir'[m] = dir[m]
  BY TreesTypes
<1>2. dir' \in [Label -> WorktreeRecord]
  BY TreesTypes
<1>3. TreesTyped' /\ UncommittedWorkKept'
  BY DEF TreesInv, TreesTyped, UncommittedWorkKept
<1>4. DirShape'
  BY DEF TreesInv, DirShape
<1>5. ASSUME NEW t \in Session PROVE Judgement(t, sess[t])'
  <2>1. PICK q \in SessionRecord : q = sess[t] /\ q = sess'[t]
    BY TreesTypes
  <2>2. Judgement(t, q)
    BY <2>1, TreesTypes
  <2>3. \A m \in Label : FreshLock(m)' => FreshLock(m) /\ dir'[m].lock = dir[m].lock
    BY DEF FreshLock
  <2>4. \A m \in Label : dir'[m].dirty =>
          dir[m].dirty \/ (q.victim = m /\ q.pc \in {"unlock", "remove"} => m \in written')
    BY <2>1
  <2>5. Judgement(t, q)'
    BY <2>2, <2>3, <2>4, JudgementStays
  <2> QED BY <2>1, <2>5
<1> QED BY <1>3, <1>4, <1>5 DEF TreesInv

LEMMA WriteKeeps == ASSUME TreesInv, NEW s \in Session, Write(s) PROVE TreesInv'
<1> DEFINE l == sess[s].at
           d == [dir[l] EXCEPT !.dirty = TRUE]
<1>1. l \in Label /\ dir[l].there /\ dir[l] \in WorktreeRecord
  BY TreesTypes DEF Write, There
<1>2. d \in WorktreeRecord /\ d.there /\ d.lock = dir[l].lock
  BY <1>1 DEF WorktreeRecord
<1>3. dir' = [dir EXCEPT ![l] = d] /\ UNCHANGED <<branches, sess, overtook, wasted>>
  BY DEF Write
<1>4. written \subseteq written' /\ written' \subseteq Label
      /\ \A t \in Session : sess[t].victim = l /\ sess[t].pc \in {"unlock", "remove"} => l \in written'
  BY <1>1 DEF Write, TreesInv, TreesTyped
<1> HIDE DEF d, l
<1> QED BY <1>1, <1>2, <1>3, <1>4, WorkStays

LEMMA CommitWorkKeeps == ASSUME TreesInv, NEW s \in Session, CommitWork(s) PROVE TreesInv'
<1> DEFINE l == sess[s].at
           d == [dir[l] EXCEPT !.dirty = FALSE]
<1>1. l \in Label /\ dir[l].there /\ dir[l] \in WorktreeRecord
  BY TreesTypes DEF CommitWork, There
<1>2. d \in WorktreeRecord /\ d.there /\ d.lock = dir[l].lock /\ d.dirty = FALSE
  BY <1>1 DEF WorktreeRecord
<1>3. dir' = [dir EXCEPT ![l] = d] /\ UNCHANGED <<branches, sess, overtook, wasted>>
      /\ written' = written /\ written' \subseteq Label
  BY DEF CommitWork, ghosts, TreesInv, TreesTyped
<1> HIDE DEF d, l
<1> QED BY <1>1, <1>2, <1>3, WorkStays

LEMMA LockExpiresKeeps == ASSUME TreesInv, NEW l \in Label, LockExpires(l) PROVE TreesInv'
<1> DEFINE k == [dir[l].lock EXCEPT !.fresh = FALSE]
           d == [dir[l] EXCEPT !.lock = k]
<1>1. dir[l] \in WorktreeRecord /\ dir[l].lock \in Lock /\ dir[l].lock.fresh
  BY TreesTypes DEF LockExpires
<1>2. dir[l].there
  BY <1>1, TreesTypes DEF Nowhere, NotLocked
<1>3. k \in Lock /\ k.fresh = FALSE
  BY <1>1 DEF Lock
<1>4. dir' = [dir EXCEPT ![l] = d]
  BY DEF LockExpires
<1> HIDE DEF k
<1>5. d \in WorktreeRecord /\ d.there /\ d.lock = k /\ d.dirty = dir[l].dirty
  BY <1>1, <1>2, <1>3 DEF WorktreeRecord
<1>6. UNCHANGED <<branches, sess, overtook, wasted>> /\ written' = written /\ written' \subseteq Label
  BY DEF LockExpires, TreesInv, TreesTyped
<1> HIDE DEF d
<1> QED BY <1>2, <1>3, <1>4, <1>5, <1>6, WorkStays

-----------------------------------------------------------------------------
LEMMA InitTreesInv == TreesInit => TreesInv
<1> SUFFICES ASSUME TreesInit PROVE TreesInv
  OBVIOUS
<1>1. sess = [s \in Session |-> OffSession] /\ overtook = {} /\ wasted = {} /\ written = {}
  BY DEF TreesInit
<1>2. dir \in [Label -> WorktreeRecord] /\ DirShape /\ branches \subseteq Branch
  <2>1. PICK l \in Label, b \in Branch, k \in {NotLocked, [by |-> "foreign", fresh |-> TRUE]},
             there \in BOOLEAN :
          /\ dir = [m \in Label |-> IF there /\ m = l
                      THEN [Nowhere EXCEPT !.there = TRUE, !.branch = b, !.lock = k, !.legacy = l \in Legacy]
                      ELSE Nowhere]
          /\ branches = IF there THEN {b} ELSE {}
    BY DEF TreesInit
  <2> DEFINE w == [Nowhere EXCEPT !.there = TRUE, !.branch = b, !.lock = k, !.legacy = l \in Legacy]
  <2>2. k \in Lock /\ (k.fresh => k.by # "nobody")
    <3>1. CASE k = NotLocked
      BY <3>1 DEF NotLocked, Lock
    <3>2. CASE k = [by |-> "foreign", fresh |-> TRUE]
      BY <3>2 DEF Lock
    <3> QED BY <3>1, <3>2
  <2>3. w \in WorktreeRecord /\ w.there /\ w.lock = k
    <3> DEFINE c == l \in Legacy
    <3>1. c \in BOOLEAN
      BY SMT
    <3>2. w = [Nowhere EXCEPT !.there = TRUE, !.branch = b, !.lock = k, !.legacy = c]
      OBVIOUS
    <3> HIDE DEF c, w
    <3>3. w = [there |-> TRUE, branch |-> b, lock |-> k, dirty |-> FALSE, legacy |-> c]
      BY <3>2 DEF Nowhere
    <3>4. w \in WorktreeRecord
      BY <2>2, <3>1, <3>3 DEF WorktreeRecord
    <3> QED BY <3>3, <3>4
  <2>4. dir = [m \in Label |-> IF there /\ m = l THEN w ELSE Nowhere]
    BY <2>1
  <2> HIDE DEF w
  <2>5. DirShape
    BY <2>3, <2>4 DEF DirShape, Nowhere, NotLocked
  <2> QED BY <2>1, <2>3, <2>4, <2>5, TreesConstants
<1>3. TreesTyped
  BY <1>1, <1>2, TreesConstants DEF TreesTyped
<1>4. \A s \in Session : Judgement(s, sess[s])
  BY <1>1 DEF Judgement, OffSession, Removing
<1> QED BY <1>1, <1>2, <1>3, <1>4 DEF TreesInv, UncommittedWorkKept

LEMMA SessionStepKeeps == ASSUME TreesInv, NEW s \in Session, SessionStep(s) PROVE TreesInv'
<1>1. CASE LeaseRead(s) \/ LeaseUnlock(s) \/ LeaseLock(s) \/ StageRead(s) \/ StageUnlock(s) \/ StageLock(s)
  BY <1>1, LeaseReadKeeps, LeaseUnlockKeeps, LeaseLockKeeps, StageReadKeeps, StageUnlockKeeps,
     StageLockKeeps
<1>2. CASE Start(s) \/ Migrate(s) \/ Enter(s) \/ Switch(s) \/ Create(s) \/ LaunchWorkstream(s) \/ Get(s)
           \/ Add(s)
  BY <1>2, StartKeeps, MigrateKeeps, EnterKeeps, SwitchKeeps, CreateKeeps, LaunchWorkstreamKeeps,
     GetKeeps, AddKeeps
<1>3. CASE List(s) \/ Next1(s) \/ PruneList(s) \/ Status(s) \/ Unlock(s) \/ PruneRemove(s) \/ PruneBranch(s)
  BY <1>3, ListKeeps, NextKeeps, PruneListKeeps, StatusKeeps, UnlockKeeps, RemoveKeeps,
     PruneBranchKeeps
<1>4. CASE Quit(s) \/ SessionEnds(s) \/ Write(s) \/ CommitWork(s)
  BY <1>4, QuitKeeps, SessionEndsKeeps, WriteKeeps, CommitWorkKeeps
<1> QED BY <1>1, <1>2, <1>3, <1>4 DEF SessionStep

LEMMA TreesInvInductive == TreesInv /\ [TreesNext]_treeVars => TreesInv'
<1> SUFFICES ASSUME TreesInv, [TreesNext]_treeVars PROVE TreesInv'
  OBVIOUS
<1>1. CASE UNCHANGED treeVars
  BY <1>1 DEF treeVars, TreesInv, TreesTyped, DirShape, Judgement, FreshLock, UncommittedWorkKept
<1>2. CASE TreesNext
  BY <1>2, SessionStepKeeps, LockExpiresKeeps DEF TreesNext
<1> QED BY <1>1, <1>2

LEMMA TreesInvAlways == TreesSpec => []TreesInv
BY InitTreesInv, TreesInvInductive, PTL DEF TreesSpec

\* The worktrees, their locks and the sessions are well typed.
THEOREM TreesTypeCorrect == TreesSpec => []SessionWorktreesTypeOK
<1>1. TreesInv => SessionWorktreesTypeOK
  <2> SUFFICES ASSUME TreesInv PROVE SessionWorktreesTypeOK
    OBVIOUS
  <2>1. ASSUME NEW l \in Label
        PROVE  /\ dir[l].there \in BOOLEAN /\ dir[l].branch \in Branch \cup {NoBranch}
               /\ dir[l].lock \in Lock /\ dir[l].dirty \in BOOLEAN
    BY TreesTypes DEF WorktreeRecord
  <2>2. ASSUME NEW s \in Session
        PROVE  /\ sess[s].pc \in SessionPc /\ sess[s].for \in Purpose
               /\ sess[s].at \in Label \cup {"none"} /\ sess[s].doomed \subseteq Label
    BY TreesTypes DEF SessionRecord
  <2> QED BY <2>1, <2>2 DEF TreesInv, TreesTyped, SessionWorktreesTypeOK
<1> QED BY <1>1, TreesInvAlways, PTL

\* Whatever the sessions interleave, a removal takes along only what was written after it
\* had found the worktree clean, or what its user confirmed.
THEOREM UncommittedWorkIsKept == TreesSpec => []UncommittedWorkKept
<1>1. TreesInv => UncommittedWorkKept
  BY DEF TreesInv
<1> QED BY <1>1, TreesInvAlways, PTL

-----------------------------------------------------------------------------
\* Fresh locks.

\* What may break the fresh lock of l.
BreaksLock(s, l) ==
  \/ sess[s].pc = "leaseUnlock" /\ sess[s].at = l
  \/ sess[s].pc = "stageUnlock" /\ sess[s].want.label = l /\ <<s, l>> \in overtook
  \/ /\ sess[s].pc = "unlock" /\ sess[s].victim = l
     /\ \/ <<s, l>> \in overtook \/ "inUse" \in sess[s].sure
        \/ sess[s].for = "quit" /\ dir[l].lock.by = s

\* A step that takes away a fresh lock is one of these.
LEMMA UnlockedBy ==
  ASSUME TreesInv, NEW m \in Label \cup {"none"}, Unlocked(m), NEW l \in Label, FreshLock(l),
         dir'[l].lock = NotLocked
  PROVE  m = l
<1>1. dir[l].lock # NotLocked
  BY DEF FreshLock, NotLocked
<1>2. m # l => dir'[l] = dir[l]
  BY DEF Unlocked
<1> QED BY <1>1, <1>2

LEMMA FreshLockStep ==
  ASSUME TreesInv, TreesNext, NEW l \in Label, FreshLock(l), dir'[l].lock = NotLocked
  PROVE  \E s \in Session : BreaksLock(s, l)
<1>1. dir'[l].lock # dir[l].lock /\ dir[l].lock.fresh /\ dir[l].lock.by # "nobody" /\ dir[l].there
  BY DEF FreshLock, NotLocked, Nowhere, TreesInv, DirShape
<1>2. ASSUME NEW m \in Label, LockExpires(m) PROVE FALSE
  <2>1. CASE m = l
    <3>1. dir[l].lock \in Lock /\ dir'[l].lock = [dir[l].lock EXCEPT !.fresh = FALSE]
      BY <1>2, <2>1, TreesTypes DEF LockExpires
    <3> QED BY <1>1, <3>1 DEF NotLocked
  <2>2. CASE m # l
    BY <1>1, <1>2, <2>2 DEF LockExpires
  <2> QED BY <2>1, <2>2
<1>3. ASSUME NEW s \in Session, SessionStep(s) PROVE BreaksLock(s, l)
  <2>1. sess[s] \in SessionRecord /\ Judgement(s, sess[s])
    BY TreesTypes
  <2>2. /\ sess[s].at \in Label \cup {"none"} /\ sess[s].victim \in Label \cup {"none"}
        /\ sess[s].want.label \in Label \cup {"none"}
    BY <2>1 DEF SessionRecord, WantRecord, NoWant
  <2>3. CASE LeaseUnlock(s)
    BY <2>2, <2>3, UnlockedBy DEF LeaseUnlock, At, BreaksLock
  <2>4. CASE StageUnlock(s)
    <3>1. sess[s].want.label = l /\ sess[s].pc = "stageUnlock"
      BY <2>2, <2>4, UnlockedBy DEF StageUnlock, At
    <3> QED BY <2>1, <3>1 DEF Judgement, BreaksLock
  <2>5. CASE Unlock(s)
    <3>1. sess[s].victim = l /\ sess[s].pc = "unlock"
      BY <2>2, <2>5, UnlockedBy DEF Unlock, At
    <3> QED BY <2>1, <3>1 DEF Judgement, BreaksLock
  <2>6. ASSUME NEW m \in Label \cup {"none"}, NEW by \in Session \cup {"staged"},
               There(m), PutLock(m, by)
        PROVE  FALSE
    <3>1. m \in Label
      BY <2>6 DEF There
    <3>2. CASE m = l
      BY <2>6, <3>2, TreesTypes DEF PutLock, NotLocked
    <3>3. CASE m # l
      BY <1>1, <2>6, <3>3 DEF PutLock
    <3> QED BY <3>2, <3>3
  <2>7. CASE LeaseLock(s) \/ StageLock(s)
    BY <1>1, <2>2, <2>6, <2>7 DEF LeaseLock, StageLock
  <2>8. CASE Migrate(s)
    <3>1. dir'[l] = [dir[l] EXCEPT !.legacy = FALSE] \/ dir'[l] = dir[l]
      BY <2>8 DEF Migrate
    <3> QED BY <1>1, <3>1, TreesTypes DEF WorktreeRecord
  <2>9. CASE Add(s)
    <3>1. dir' = dir \/ (~dir[sess[s].want.label].there
                         /\ \E w : dir' = [dir EXCEPT ![sess[s].want.label] = w])
      BY <2>9 DEF Add, gitState
    <3> QED BY <1>1, <3>1, TreesTypes
  <2>10. CASE PruneRemove(s)
    <3>1. dir' = dir \/ (dir[sess[s].victim].lock = NotLocked
                         /\ dir' = [dir EXCEPT ![sess[s].victim] = Nowhere])
      BY <2>10 DEF PruneRemove
    <3> QED BY <3>1, TreesTypes DEF FreshLock, NotLocked
  <2>11. CASE Write(s) \/ CommitWork(s)
    <3>1. \E b \in BOOLEAN : dir' = [dir EXCEPT ![sess[s].at].dirty = b]
      BY <2>11 DEF Write, CommitWork
    <3>2. PICK b \in BOOLEAN : dir' = [dir EXCEPT ![sess[s].at].dirty = b]
      BY <3>1
    <3>3. dir'[l] = [dir[l] EXCEPT !.dirty = b] \/ dir'[l] = dir[l]
      BY <3>2
    <3> QED BY <1>1, <3>3, TreesTypes DEF WorktreeRecord
  <2>12. CASE \/ LeaseRead(s) \/ StageRead(s) \/ Start(s) \/ Enter(s) \/ Switch(s) \/ Create(s)
              \/ LaunchWorkstream(s) \/ Get(s) \/ List(s) \/ Next1(s) \/ PruneList(s) \/ Status(s)
              \/ PruneBranch(s) \/ Quit(s) \/ SessionEnds(s)
    <3>1. dir' = dir
      BY <2>12 DEF LeaseRead, StageRead, Start, Enter, Switch, Create, LaunchWorkstream, Get,
         List, Next1, PruneList, Status, PruneBranch, Quit, SessionEnds, gitState
    <3> QED BY <1>1, <3>1
  <2> QED BY <1>3, <2>3, <2>4, <2>5, <2>7, <2>8, <2>9, <2>10, <2>11, <2>12 DEF SessionStep
<1> QED BY <1>2, <1>3 DEF TreesNext

\* A fresh lock goes only to who takes the worktree over, to its owner, to a user who is
\* sure, or to who listed the worktree before the lock was there.
THEOREM FreshLocksAreKept == TreesSpec => FreshLockIsKept
<1> DEFINE Kept1 ==
      \A l \in Label : dir[l].lock.fresh /\ dir[l].lock.by # "foreign" /\ dir'[l].lock = NotLocked
        => \E s \in Session :
             \/ sess[s].pc = "leaseUnlock" /\ sess[s].at = l
             \/ sess[s].pc = "stageUnlock" /\ sess[s].want.label = l /\ <<s, l>> \in overtook
             \/ /\ sess[s].pc = "unlock" /\ sess[s].victim = l
                /\ \/ <<s, l>> \in overtook \/ "inUse" \in sess[s].sure
                   \/ sess[s].for = "quit" /\ dir[l].lock.by = s
<1>1. TreesInv /\ [TreesNext]_treeVars => [Kept1]_treeVars
  BY FreshLockStep DEF BreaksLock, FreshLock
<1>2. TreesSpec => [][Kept1]_treeVars
  BY <1>1, TreesInvAlways, PTL DEF TreesSpec
<1> QED BY <1>2 DEF FreshLockIsKept
=============================================================================
