------------------------------ MODULE MCSessions ------------------------------
\* One instance of what sessions do around a repository: the agents' workspaces, the sessions'
\* worktrees, the reviews of changes in pi and in omp, the agent's plans, and what a session
\* remembers and shows.  They share no state of the program's: their labels, branches and locks are
\* apart, and each has files and memory of its own.  So a behavior is one
\* of a single component, named by `part`, the others at rest.
EXTENDS DiffAnchors, AgentWorkspaces, SessionWorktrees, DiffReview, DiffJournal, PlanTasks,
        SessionState, RepositoryStatus, TLC

VARIABLE part

sessionsVars ==
  <<part, wsVars, treeVars, diffVars, journalVars, anchorVars, planVars, stateVars, statusVars>>

SessionsInit ==
  /\ part \in {"agents", "trees", "review", "journal", "anchors", "plans", "memory", "footer"}
  /\ WsInit /\ TreesInit /\ DiffInit /\ JournalInit /\ AnchorInit /\ PlanInit /\ StateInit
  /\ StatusInit
  /\ part # "trees" => branches = {}
  /\ part # "review" => work.base = CHOOSE b \in Base : TRUE
  /\ part # "plans" => ~subagent /\ mode = "work"
  /\ part # "anchors" => base = <<>> /\ worktree = <<>> /\ tracked
  /\ part # "memory" => ~launch /\ \A c \in Chat : ~stored[c].there
  /\ part # "footer" => heads = [d \in Directory |-> CHOOSE b \in GitBranch : TRUE]

Agents  == part = "agents" /\ UNCHANGED
  <<part, treeVars, diffVars, journalVars, anchorVars, planVars, stateVars, statusVars>>
Trees   == part = "trees" /\ UNCHANGED
  <<part, wsVars, diffVars, journalVars, anchorVars, planVars, stateVars, statusVars>>
Review  == part = "review" /\ UNCHANGED
  <<part, wsVars, treeVars, journalVars, anchorVars, planVars, stateVars, statusVars>>
Journal == part = "journal" /\ UNCHANGED
  <<part, wsVars, treeVars, diffVars, anchorVars, planVars, stateVars, statusVars>>
Anchors == part = "anchors" /\ UNCHANGED
  <<part, wsVars, treeVars, diffVars, journalVars, planVars, stateVars, statusVars>>
Plans   == part = "plans" /\ UNCHANGED
  <<part, wsVars, treeVars, diffVars, journalVars, anchorVars, stateVars, statusVars>>
Memory  == part = "memory" /\ UNCHANGED
  <<part, wsVars, treeVars, diffVars, journalVars, anchorVars, planVars, statusVars>>
Footer  == part = "footer" /\ UNCHANGED
  <<part, wsVars, treeVars, diffVars, journalVars, anchorVars, planVars, stateVars>>

\* The components' next-state relations, an action to a disjunct.
SessionsNext ==
  \/ \E t \in Token : (Agents /\ Provision(t)) \/ (Agents /\ DropMerged(t)) \/ (Agents /\ Mint(t))
        \/ (Agents /\ Continue(t)) \/ (Agents /\ Detach(t)) \/ (Agents /\ LaunchFails(t))
        \/ (Agents /\ Send(t)) \/ (Agents /\ NoAck(t)) \/ (Agents /\ DropTree(t))
        \/ (Agents /\ DropBranch(t)) \/ (Agents /\ Again(t)) \/ (Agents /\ Accept(t))
        \/ (Agents /\ Acknowledge(t)) \/ (Agents /\ Reject(t)) \/ (Agents /\ Reap(t))
        \/ (Agents /\ TearTree(t)) \/ (Agents /\ TearCount(t)) \/ (Agents /\ TearBranch(t))
        \/ (Agents /\ RunCommits(t)) \/ (Agents /\ Exit(t)) \/ (Agents /\ Age(t))
        \/ (Agents /\ SweepJudgeTree(t))
  \/ \E h \in Handle : (Agents /\ Merge(h)) \/ (Agents /\ SweepJudge(h))
  \/ (Agents /\ Crash) \/ (Agents /\ Restart) \/ (Agents /\ SweepList) \/ (Agents /\ SweepRemove)
     \/ (Agents /\ SweepDelete) \/ (Agents /\ SweepEnds)
  \/ \E s \in Session : (Trees /\ LeaseRead(s)) \/ (Trees /\ LeaseUnlock(s))
        \/ (Trees /\ LeaseLock(s)) \/ (Trees /\ StageRead(s)) \/ (Trees /\ StageUnlock(s))
        \/ (Trees /\ StageLock(s)) \/ (Trees /\ Start(s)) \/ (Trees /\ Migrate(s))
        \/ (Trees /\ Enter(s)) \/ (Trees /\ Switch(s)) \/ (Trees /\ Create(s))
        \/ (Trees /\ LaunchWorkstream(s)) \/ (Trees /\ Get(s)) \/ (Trees /\ Add(s))
        \/ (Trees /\ List(s)) \/ (Trees /\ Next1(s)) \/ (Trees /\ PruneList(s))
        \/ (Trees /\ Status(s)) \/ (Trees /\ Unlock(s)) \/ (Trees /\ PruneRemove(s))
        \/ (Trees /\ PruneBranch(s)) \/ (Trees /\ Quit(s)) \/ (Trees /\ SessionEnds(s))
        \/ (Trees /\ Write(s)) \/ (Trees /\ CommitWork(s))
  \/ \E l \in Label : (Trees /\ LockExpires(l))
  \/ \E a \in Annotation : (Review /\ Annotate(a)) \/ (Review /\ Withdraw(a))
  \/ \E p \in Pane : (Review /\ HunkStarts(p)) \/ (Review /\ Register(p))
        \/ (Review /\ Unregister(p)) \/ (Review /\ UserCloses(p)) \/ (Review /\ Split(p))
  \/ \E p \in Pane, n \in Note : (Review /\ WriteNote(p, n))
  \/ (Review /\ Commit) \/ (Review /\ Rewrite) \/ (Review /\ Fails) \/ (Review /\ DiffStarts)
     \/ (Review /\ Resolve) \/ (Review /\ IsAncestor) \/ (Review /\ Drain)
     \/ (Review /\ DrainRead) \/ (Review /\ DrainClose) \/ (Review /\ Launch)
     \/ (Review /\ Discover) \/ (Review /\ Confirm) \/ (Review /\ ReadNotes)
     \/ (Review /\ CloseReview)
  \/ \E r \in Remark : (Journal /\ Record(r)) \/ (Journal /\ WithdrawRemark(r))
  \/ \E n \in UserNote : (Journal /\ Scribble(n))
  \/ (Journal /\ Reset) \/ (Journal /\ Navigate) \/ (Journal /\ ChangeSession)
     \/ (Journal /\ Load) \/ (Journal /\ Prepare) \/ (Journal /\ SplitPane)
     \/ (Journal /\ RunHunk) \/ (Journal /\ DiscoverHunk) \/ (Journal /\ ConfirmReview)
     \/ (Journal /\ ReadReview) \/ (Journal /\ Persist) \/ (Journal /\ ClosePane)
     \/ (Journal /\ Complete) \/ (Journal /\ StopEarly)
  \/ \E from, to \in 1..MaxLen : (Anchors /\ AnnotateDiff(<<from, to>>))
  \/ \E u \in User : (Anchors /\ UntrackedPaths(u))
  \/ \E a \in noted : (Anchors /\ RemoveAnnotation(a))
  \/ \E content \in Content : (Anchors /\ Edit(content))
  \/ (Anchors /\ StartReview) \/ (Anchors /\ RefuseTargets) \/ (Anchors /\ Skip)
     \/ (Anchors /\ RecordAnnotation) \/ (Anchors /\ ShowReview) \/ (Anchors /\ NoChanges)
     \/ (Anchors /\ Index)
  \/ \E c \in Call : (Plans /\ Plan(c)) \/ (Plans /\ PlanInSubagent(c)) \/ (Plans /\ Decline(c))
        \/ (Plans /\ Feedback(c)) \/ (Plans /\ StartAnalysis(c)) \/ (Plans /\ Handoff(c))
        \/ (Plans /\ HandoffFails(c)) \/ (Plans /\ HandoffReady(c))
  \/ \E c \in Call, p \in Part : (Plans /\ Judge(c, p))
  \/ (Plans /\ UpdateGoal) \/ (Plans /\ CycleMode) \/ (Plans /\ Reopen) \/ (Plans /\ AgentEnd)
  \/ \E i \in Place : (Plans /\ Timer(i)) \/ (Plans /\ Compacted(i)) \/ (Plans /\ Watchdog(i))
  \/ \E c \in Chat, file \in {"here", "moved"} : (Memory /\ SessionStarts(c, file))
  \/ \E c, parent \in Chat : (Memory /\ ForkStarts(c, parent))
  \/ \E m \in Cycleable : (Memory /\ GoalModeRestored(m)) \/ (Memory /\ CycleAgentMode(m))
  \/ \E found \in BOOLEAN : (Memory /\ Extracted(found)) \/ (Memory /\ TitleAnswered(found))
  \/ (Memory /\ TitleRestored) \/ (Memory /\ ShutdownBegins) \/ (Memory /\ ShutdownEnds)
     \/ (Memory /\ Killed) \/ (Memory /\ ManualTitle) \/ (Memory /\ TurnEnd)
     \/ (Memory /\ AskTitle)
  \/ \E d \in Directory, fallback \in GitBranch \cup {Null}, slips \in GitBranch :
        (Footer /\ SyncTarget(d, fallback, TRUE, slips))
        \/ (Footer /\ SyncTarget(d, fallback, FALSE, slips))
  \/ \E d \in Directory, fallback \in GitBranch \cup {Null}, watching \in BOOLEAN :
        (Footer /\ SyncTarget(d, fallback, watching, heads[d]))
  \/ \E l \in lookups : \E answer \in LookupPullRequestStatus(l) :
        (Footer /\ RunLookupEnds(l, answer))
  \/ \E d \in Directory, head \in GitBranch \cup {Detached,Null} : (Footer /\ MoveHead(d, head))
  \/ (Footer /\ HeadNoticed) \/ (Footer /\ RefreshAsked) \/ (Footer /\ Dispose)

SessionsSpec == SessionsInit /\ [][SessionsNext]_sessionsVars

\* Every component is well typed.
SessionsTypeOK ==
  /\ WsTypeOK /\ SessionWorktreesTypeOK /\ DiffTypeOK /\ JournalTypeOK /\ AnchorTypeOK
  /\ PlanTypeOK /\ StateTypeOK /\ RepositoryStatusTypeOK

\* Nothing tells one of two attempts, panes, calls, sessions, wordings or bases from the other.
\* As one component moves at a time, the actors of all components can be exchanged together.
Together(f) == \A a, b \in DOMAIN f : f[a] = a <=> f[b] = b
Actors == {f @@ g @@ h @@ i : f \in Permutations(Token), g \in Permutations(Pane),
                              h \in Permutations(Call), i \in Permutations(Chat)}
Symmetry == {f @@ g @@ h : f \in {a \in Actors : Together(a)}, g \in Permutations(Wording),
                           h \in Permutations(Base)}
===============================================================================
