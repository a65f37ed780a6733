# Formal models of basecamp

basecamp runs coding agents. A session is a Pi process (TypeScript, `src/pi`; a second
host, omp, in `src/omp`). Its extension connects it over a WebSocket on a Unix socket to
one host-wide daemon, the hub (`src/src/basecamp/hub`, Python, asyncio), which dispatches
agent runs as subprocesses, keeps their rows in SQLite, routes messages between agents,
lets agents wait for one another, keeps workstreams, and serves a dashboard. Sessions and
agents work in git worktrees that they create, lease and remove by themselves. This
directory holds TLA+ models of the parts whose correctness depends on the order of things,
TLC configurations that check them on small instances, and TLAPS proofs for instances of
every size.

* [Inventory](#inventory) of the system and what is hard about it
* [Modules](#modules), what each stands for and how it corresponds to the code
* [Runs](#runs): what each asks, its bounds, its answer
* [Fairness](#fairness)
* [Where code and documents disagree](#where-code-and-documents-disagree)
* [Proofs](#proofs)
* [Known behaviour that no property excludes](#known-behaviour-that-no-property-excludes)
* [Not modelled](#not-modelled)
* [Plan](#plan)

`PROJECT.json` lists, per definition, the lines of code it stands for, the mutants
each property was tried against, and the hazards the properties answer.

## Inventory

The hub is one asyncio event loop with a thread pool (`asyncio.to_thread`) for SQLite.
Two kinds of interleaving follow: between handlers at every `await`, and between the
loop and store statements running in threads, which a cancelled task does not stop. A
session is one JavaScript event loop: what runs between two awaits is atomic, but the
host runs the tool calls of a turn in parallel. Sessions, agents, daemons and sweeps
share files and one git repository per project and act on them a system call or a git
command at a time.

| component | state it keeps | operations | talks to | model |
|---|---|---|---|---|
| hub: run lifecycle (`swarm/service/{dispatch,cancel,reaper,reporting}.py`, `swarm/process.py`, `store/runs/`) | `runs` rows, `agents.current_run_id`, `Registry._processes`, reaper tasks | dispatch, spawn, track, report, reap, cancel, reconcile | runners, waiters, worktrees | RunLifecycle |
| hub: peer messages (`swarm/service/messaging.py`, `handlers.py`, `store/messages/`) | `messages.status`, `Registry._message_waiters` | accept, push, acknowledge, ask and wait | the target's socket | PeerMessages |
| hub: wait (`swarm/service/waiting.py`) | `Registry._waiters` | look up, register, sleep, time out, notify | every finalizer | RunWait |
| hub: connections (`app.py`, `registry.py`) | `Registry._connections`, probes, reaper tasks | register, probe, take over, serve, clean up | all of the above | ConnectionRegistry |
| hub: daemon start (`ensure.py`, `server.py`; `src/pi/core/hub/{spawn,process}.ts`) | spawn lock, `flock`, socket path, pid file | ensure, terminate, spawn, bind, close | clients, other daemons | HubEnsure |
| hub: agent runner (`swarm/runner.py`) | sidecar `result.json`, attempts | run the agent, retry, record, report | hub, agent process | RunLifecycle, in part |
| hub: worktree sweep (`swarm/sweep.py`, `swarm/worktrees.py`) | git worktrees, branches, locks | remove the workspaces of ended runs | dispatch tools, runs | AgentWorkspaces |
| hub: workstreams (`swarm/service/workstreams.py`, `store/workstreams/`) | workstreams, versions, attached agents | create, revise, attach, set status | tools of pi | Workstreams |
| hub: dashboard (`dashboard/assets`) | snapshot, selection, filters, requests under way | poll, route, filter, load messages | HTTP routes | Dashboard, in part |
| hub: frames and routes | none of their own | decode, hand over | handlers | in part |
| hub: agent policy and directory (`store/policy.py`, `store/agents/`) | `agents` rows | who may dispatch, retask, message, wait for whom | dispatch, messaging, waiting | no |
| hub: store schema and migrations | | | | no |
| pi: hub client (`core/hub`) | connection, status, pending requests, cleanups | connect, register, request, reconnect, reload | the hub | HubClient, HubEnsure |
| pi: swarm agents (`core/swarm`) | delivery wiring, workspaces under way | dispatch with retries, ask, message, wait, deliver | hub client, git | HubClient, AgentWorkspaces, in part |
| pi: git worktrees (`core/git/worktrees`) | worktrees, leases as git locks | create, attach, lease, migrate, prune, sweep | other sessions, by git | SessionWorktrees, AgentWorkspaces |
| pi: git status | none | one lookup each | gh, git | RepositoryStatus, in part |
| pi: session and project workspace (`core/session`, `core/project`) | mode, title, worktree of a session, and their file | start, fork, resume, switch, shut down | worktrees, ui | SessionState, SessionWorktrees, in part |
| pi: tasks and workflows (`tasks`) | draft, goal cycle, pending handoffs | plan, review, approve, hand off | session compaction | PlanTasks, in part |
| pi: workstreams (`workstreams`, `core/swarm/workstreams.ts`) | the session's binding to one | create, edit, launch, attach, give the brief | the hub, worktrees | Workstreams, SessionWorktrees |
| pi: footer, title, mode (`core/ui`) | tracker of branch and pull request | watch HEAD, look up, extract titles | gh, a model | RepositoryStatus, SessionState, in part |
| pi: diff review (`diff`) | sidecar of annotations, checkpoint, owned pane | annotate, /diff, drain | hunk, herdr | DiffReview |
| omp: diff review (`omp/diff`) | entries of the session's journal | annotate, /diff, complete | git, hunk, herdr | DiffJournal, DiffAnchors |
| escalation, model, catalog, skills, naming, host; other tools; other omp extensions; omp launcher; core, config and workspace cli, installer; evals, deploy, scripts | | sequential | | no |

**What is hard here.**

* *Five finalizers race for one row.* The runner's report, the task that waits for the
  process, a cancel, the disconnect reaper and the next daemon's reconciliation.
  `set_run_result_if_unset` picks the winner; the losers must still do their share
  (signal the process, reap it, remove the workspace), and the winner owes the waiters
  a notification it makes some awaits later.
* *Suspension between two steps of one idea*: between `create_run` and `set_process`,
  between a lookup and `add_waiter`, between `remove_connection` and the scheduling of
  the reaper, between the observation of an incumbent and the takeover.
* *Threads outlive tasks.* Cancelling a reaper leaves its UPDATE to commit.
* *The daemon dies* with rows running and processes alive; the next one knows only what
  is in SQLite and in the sidecar files.
* *A frozen peer still takes bytes*, so a completed send is no evidence of delivery, and
  no evidence that an incumbent lives.
* *Paths are judged, then acted upon.* A spawn lock is judged stale and then unlinked, a
  socket is unlinked by path after a process was signalled, a worktree is judged clean
  and unlocked and then removed with `--force`: each may be somebody else's by then.
* *Answers come for questions no longer asked*: a connection for a session that was shut
  down, a pull request for a branch that was left, a snapshot that a newer one overtook,
  a title for another session, a review of a history that was rewritten.
* *Whatever a process holds for the user can die with it*: notes in hunk's memory, a
  pending handoff, a mode that was cycled but not saved.

**What makes each component correct.**

* Run lifecycle: a row is finalized once, with an outcome that is true of the runner; a
  running row always has somebody who will finalize it; a live runner can be found; a
  workspace is removed only under a dead runner; a runner that died gets its row
  finalized, and its workspace removed.
* Waiting: no wakeup is lost between finalizers that run concurrently; an answer before
  the timeout is not stale; every wait is answered.
* Messages: the status only moves forward and is true of the frame, although two tasks
  write it in either order; no waiter sleeps through the end; every query is answered.
* Connections: a live session keeps its node; whoever loses it is closed; a node is
  never locked by a dead entry; the reaper runs exactly while the node is away.
* Daemon start: one hub serves, it is reachable, and nobody but who terminates it takes
  its path.
* Hub client: a message reaches the agent once, whatever loads of the extension it
  outlived; a request settles once its connection is gone.
* Workspaces and worktrees: no commit is lost with a branch, no uncommitted change with a
  worktree; nobody removes the directory a run works in, nor a lock just taken.
* Reviews: a note is delivered or still in a pane somebody will drain; what is consumed
  or counted as reviewed was displayed; an annotation points at the lines it was made for.
* Plans: what starts was approved in these words; its prompt is sent once.
* Session, footer, page: what is restored was the last thing set; what is shown belongs
  to what it is shown under, and goes on being refreshed.

## Modules

Every action is one stretch of code between two suspension points: an `await` that
yields, the start or the end of a statement in a worker thread, or one system call or git
command of one process. Data is reduced to what the properties tell apart. Variables
called ghosts in the modules record history for a property; no action reads them.

### The hub's runs, waits, messages and connections

**RunLifecycle** (with RunRecord, MCRunLifecycle, RunLifecycleProofs). One dispatched run
per element of `Run`, from the dispatch frame to the removal of its workspace. The state
comes in three parts, and `Crash` shows which is which: the SQLite store (`row`,
`currentRun`, `pgid`) and the operating system (`leader`, `child`, `signalled`, `sidecar`,
`worktree`) survive it, the daemon's memory (`disp`, `tracked`, `reap`, `report`, `task`,
`conn`, ...) does not.

| actions | code |
|---|---|
| `DispatchCheck`, `DispatchInsert`, `SpawnRunner`, `DispatchTrack`, `DispatchRecordGroup(Fails)`, `MarkSpawnFailed`, ... | `dispatch_agent`; `create_run` is two actions since its SELECT runs before Python's sqlite3 begins the transaction |
| `HandleReport`, `ReportNotify` | `handle_result_report` |
| `ReapExit`, `ReapCommit`, `ReapNotify`, `ReapTeardown` | `reap_agent_process` |
| `CancelStart`, `CancelNext`, `Task*` | `cancel_agent` over the subtree |
| `Disconnect`, `Claim`, `Registered`, `ReaperWake`, `ReaperNext`, `Task*`, `OrphanCommit` | the disconnect reaper; `CancelReaper` leaves an UPDATE already handed to a thread, which `OrphanCommit` commits |
| `StartAttempt`, `ChildExits`, `RecordFinal`, `SendReport`, `LeaderExits`, `LeaderCrashes` | `runner.py`, as the daemon and the kernel observe it |
| `Crash`, `Restart`, `ReconcileKill`, `ReconcileRow`, `ReconcileTerminal` | `run_hub`, `reconcile_orphaned_runs` |

`RunRecord` is the abstract specification: rows with a status, the runner's recorded
final and its process, no daemon. A row is created running and finalized once, with an
outcome from `Truthful`: completed only if the runner recorded that, failed without a
result only if the process is gone, and so on. `RunLifecycle` implements it under
`final <- sidecar, process <- ProcessOf`.

**RunWait** (with MCRunWait, RunWaitProofs). Wait frames over agents, their runs, and for
each run the notifier its first finalizer becomes: it lists the waiters, reads in a thread
which of their runs are terminal, and sets the futures of those with none left.
`BeginWait`, `ReadHandles`, `Register`, `WaitEnds`, `WaitExpires`, `ReadAgain`, `ReadLast`
are the suspension points of `wait_for_agents`. `Finalize` stands for any of the five
finalizers: that its winner goes on to notify is what `SomebodyTells` of RunLifecycle says,
with the reaper that a reconnect cancelled as the only exception. Waiters live in memory
and die with their sockets, so a crash is `Abandon` for every one of them.

**PeerMessages** (with MessageRecord, MCPeerMessages, PeerMessagesProofs). A stored
message, the background task that pushes it, the target's session that takes or refuses
it, the acknowledgement handled on the target's own socket, and queries that wait. `conn`,
`frame` and `ack` are the target's socket: a frozen peer takes bytes, a replaced or closed
socket turns what was in flight into a `stray` frame that its old process may still show
without being able to acknowledge it. `SendEnds` may raise after the frame arrived, so a
message can be reported failed although it was shown; the abstract specification allows
it, since the code cannot know. `MessageRecord` is the abstract specification: a status and
the fate of the frame, and which status may follow which. `PeerMessages` implements it
under `fate <- FateOf`.

**ConnectionRegistry** (with NodeSession, MCConnectionRegistry, ConnectionRegistryProofs). The handlers
of the sockets that register one node. A handler claims the node at most once, so it
stands for its generation. `Register` observes the incumbent and pings it; `Pong` is the
client, `ResolveProbe` the incumbent's read loop, `ProbeTimeout` the ten seconds;
`TakeOver` is the compare-and-set of `claim_connection`; `Remove`, then `ScheduleReaper`
after the suspension in `touch_agent`, are the `finally` block. `stalled` records which
sockets were ever stuck (a frozen client, a frame handled inline, a slow `upsert_agent`)
or left: `ProbeTimeout` needs one of these, since ten seconds are enough for the others.
`DuplicateHandle` happens only before the node has registered once. Closing a socket
writes to the transport without suspending (uvicorn's sansio protocol).
`NodeSession` is the abstract specification: who has the node, who is served, which sockets
were lost or closed, and whether runs are being reaped. A node goes from one session to another
only if the former was lost, which is closed by the same step; only its holder begins to be
served; reaping begins when the node is free and ends when a session is served. That a displaced
handler is closed (`DisplacedHandlerIsClosed`) follows. `ConnectionRegistry` implements it
under `holder <- entry`, `lost <- stalled` and `served` those whose read loop runs.

RunLifecycle has the runs the reaper works on, with one socket per node and no probes;
ConnectionRegistry has the probes and no runs. They share the meaning of `conn`/`entry`
and of the reaper's grace period.

### How a hub is come by and used

MCHubSession puts the next four modules beside each other. They share no state: a behavior
is one of a single component, chosen by `part` in the initial state. HubSessionProofs has the
proofs of all four, and that what the run explores of a component is a behavior of it.

**HubEnsure**. Clients at `ensureDaemon` (`src/pi/core/hub/spawn.ts`
and `process.ts`; `ensure.py` does the same in Python) and processes `basecamp hub`. The
lock file, the socket path and the pid file are shared by path; every action is one system
call: `FirstPing` and `WriteSpawnLock` come to the lock, `JudgeLock` and
`ReclaimLock` break a stale one in two steps, `FindHub` to `UnlinkPid` are
`terminateDaemon`, `CompareLock` and `ReleaseLock` give the lock back. `Flock`,
`ClearPath`, `WritePid`, `Bind`, `CloseServer` are `run_hub`. Any of them may die at any
point, a ping may be lost, a lock may be judged old while its holder works, and a user may
start a hub by hand; `disturbed` records the last three. `HubService` is the abstract
specification: the hubs that serve and the one at the path, with no mention of who starts or
ends one. One hub serves at a time, an outdated hub that stopped never comes back, and until a
start is disturbed the path is taken from no hub that serves. `HubEnsure` implements it with
`serving` the hubs whose process serves, and `sock` for its `path`.

**HubClient.** One process' connection over reloads of the extension. `Ensured(s)`,
`Registered(s)`, `ConnectFails(s)`, `Closed(s)` are the awaits of an attempt to connect and
the close event; `outdated` marks attempts of an earlier generation. What survives a
reload (connection, publisher, delivery handler) is process scoped, the list of cleanups
belongs to the load. A request is a tool call: it takes the connection, perhaps provisions
a workspace (`Issue`), sends, and waits; dispatch retries on a duplicate handle, `ask` has
two stages.

**Dashboard.** The page's scripts: `Refresh`, the three ends of a snapshot request by its
generation, `PollFires`, `Hide` and `Show`; what the user selects and filters, reconciled
with each snapshot (`Reconciled`, `VisibleRoots`); the location, which is written by the
page and edited by the user; and message requests with their cache.

**Workstreams.** Each call of a tool is a record of where it is: `CreateWorkstream` draws
slugs until one is free, `ResolveDetail` reads what `Revised` later writes, `Created`,
`Revised` and `Attach` commit at the hub and then lose or deliver the acknowledgement. A
seat is a session started with `--workstream`.

### Around a repository

MCSessions puts the next eight modules beside each other, in the same way. The proofs are in
WorktreeProofs (AgentWorkspaces, SessionWorktrees), ReviewProofs (DiffReview, DiffJournal,
DiffAnchors) and SessionProofs (the other three, and the composition).

**AgentWorkspaces.** Worktrees and branches of dispatched agents: `Provision` to `Again`
are the dispatch tool (`withProvisionedWorkspace`, and what it undoes when a dispatch is
rejected or its answer lost), `Accept` to `TearBranch` the daemon, `SweepList` to
`SweepEnds` its periodic sweep, `Crash` and `Restart` its death. A branch is `fresh`,
has `work`, or is `merged`; `discarded` and `overtaken` are ghosts.

**SessionWorktrees.** Sessions that adopt, attach, create, rebuild, migrate, switch, stage
and prune worktrees. A lease is read, unlocked and locked in three git calls; a removal
lists, looks at the status, unlocks and removes in four, for a quit, a sweep or a prune
alike. Locks have an owner and an age; `foreign` ones are the user's own.

**DiffReview.** pi's `/diff` as a sequence of awaits (`Resolve`, `IsAncestor`, `Drain*`,
`Launch`, `Discover`, `Confirm`, `ReadNotes`, `CloseReview`), each of which may fail, beside
the agent that annotates, commits and rewrites, the hunk panes and the user who writes
notes in them. `owned` is what a reload finds again.

**DiffJournal.** omp's `/diff` on the session journal. Entry ids grow along a branch, so a
branch is the set of the ids above its leaf; `Navigate`,
`Reset` and `ChangeSession` move it while hunk is open; `Complete` consumes through the
leaf captured when the review opened.

**DiffAnchors.** What `git diff` prints for a file of a few lines (`Script`, `GitDiff`),
the line scanner of the loader as a fold over it (`ParseLine`), the tool that anchors an
annotation in one load and the `/diff` that validates it against another, with edits in
between. Its lines are `++` and `--`, which make every added or removed line look like a
file marker: the case the scanner has to survive.

**PlanTasks**. The plan tool's calls, the shared draft, the review,
goal cycles, and the handoff with its compaction, watchdog and timer. Calls of one turn
interleave at every await.

**SessionState.** The process-scoped cell with mode and title, the file it is saved to,
sessions that start, resume, fork, reload, shut down or are killed, the mode the goal
restores, titles extracted in the background.

**RepositoryStatus**. The tracker's fields and methods as
operators on a record (`SyncPullRequestTarget`, `Refresh`, `CancelLookup`), heads that
move, notices that come late and together, lookups that end in any order.

## Runs

| run | instance | distinct states | shows |
|---|---|---|---|
| `run_lifecycle` | one run, one agent, one node, one cancel; 1 crash, 2 disconnects, 1 store fault | 189 194 | `NoRunForgotten`, `SomebodyTells`, `LiveProcessIsTracked`, `TeardownAfterExit`, refinement of RunRecord, `DeadRunIsFinalized`, `WorktreeIsReclaimed` |
| `run_reaper` | two runs of two agents of one dispatcher that leaves and returns twice | 2 640 089 | `AbsentDispatcherIsReaped` |
| `run_wait` | two waits, one for two agents, three runs, one a retask | 855 000 | `LastFinalizerWakes`, `RunningAnswerIsOfNewRun`, `WaitIsAnswered` |
| `peer_messages` | one message, one target with two sockets, two waiting queries (one a stranger's), 1 crash | 97 000 | `SleeperWillBeWoken`, `AnswerIsTerminalOrLate`, refinement of MessageRecord, `AcceptedIsPushed`, `QueryIsAnswered` |
| `connections` | three sockets of one node | 610 000 | `LiveIncumbentKeepsNode`, `ServedSessionIsNotReaped`, `AbsentNodeIsReaped`, refinement of NodeSession, `ProbeIsDecided` |
| `hub_session` | 2 clients and 3 hubs, one outdated, one by hand; 3 sockets, 3 loads, 1 request; a page over 2 sessions and 1 agent; 2 creates, 2 edits, 1 seat | 729 745 | `HubIsReachable`, `OnlyTerminateTakesPath`, refinement of HubService; `DeliveredOnce`, `RequestSettles`; `PageKeepsGoing`; `WorkstreamsHold` |
| `sessions` | see below | 759 905 | `CommittedWorkKept`, `RunKeepsWorkspace`; `UncommittedWorkKept`, `FreshLockIsKept`; `ReviewLosesNothing`; `ReviewIsTransactional`; `FrozenDiffIsExact`, `FreshAnnotationIsShown`; `ApprovedContentStarts`, `HandoffSentOnce`; `SessionRemembers`; `FooterIsCurrent` |
| `create_race`, `cancel_spawn`, `reconnect`, `wait_lost`, `rejected_free` | two runs, one run, one run, one wait, two sockets | | the divergences below |

The type invariants of all modules are parts of the inductive invariants and proved for every
instance, those of the compositions by `HubSessionTypeCorrect` and `SessionsTypeCorrect`, so the
runs do not spend time on them.

*What the properties say.* The first five runs' properties are those of the inventory.
Of the later ones, each holds next to a case the code does leave open, which it names:

* `HubIsReachable`: a serving hub has its path, unless a lock was broken while its holder
  lived, a serving hub left a ping unanswered, or a hub was started by hand (`disturbed`).
  `OnlyTerminateTakesPath` has no exception: hubs never take each other's path.
  `HubsKeepTheirPromise` is the refinement of HubService: two hubs never serve at once,
  disturbed or not, and nobody brings an outdated one back.
* `DeliveredOnce`: of all the sockets of a process only the current connection is live,
  has one delivery handler and the publisher; a session shut down while it connected
  leaves none behind. `RequestSettles`: a call is answered or fails, unless it subscribed
  to a connection that had closed before (`late`).
* `PageKeepsGoing`: a visible page has a refresh coming, every spinner a request that ends
  it, and selection, filters and location agree.
* `WorkstreamsHold`: an edit is undone only by one it overlaps with; what a tool reported
  is so; a thread has its brief once.
* `CommittedWorkKept`: a branch with work of its own is deleted only if the work came after
  it was judged. `RunKeepsWorkspace`: nobody removes the workspace of a live run, unless
  the lock is a day old.
* `UncommittedWorkKept`: a removal takes along only what was written after its own
  `git status`, or what the user confirmed. `FreshLockIsKept`: who may break a fresh lock.
* `ReviewLosesNothing`: no note is destroyed by `/diff` but one written after the notes were
  read, no annotation cleared that no review could have shown, and `/diff last` skips no
  commit that no review showed.
* `ReviewIsTransactional`: the same for omp: annotations stay active until withdrawn or
  judged by a saved review, wherever the user navigated.
* `FrozenDiffIsExact`: a diff loaded while nothing changed shows the file's new side exactly,
  whatever its lines look like. `FreshAnnotationIsShown`: an annotation goes stale only if
  something changed since its load, or the review's, began.
* `ApprovedContentStarts`: what a planned cycle starts with was approved in those words.
  `HandoffSentOnce`: whichever of compaction, failure and watchdog comes first.
* `SessionRemembers`: a restart restores what was set last, and a title extracted for one
  session is not given to another but by `/title` itself.
* `FooterIsCurrent`: the pull request shown is the latest one found for the directory and
  branch shown, and a refresh asked for is not forgotten.

*Why the bounds are enough.* The run lifecycle interacts across runs only through the
agent's current run, the reaper's list and the cancel's subtree; one run has all five
finalizers, and two runs of one dispatcher exercise the list. One crash reaches every
point of the reconciliation; a second adds only a restart of it. Two disconnects are the
least in which an old reaper, a cancelled one and a new one meet. Three sockets are the
least in which two newcomers race for one incumbent. Two runs under one wait are the
least in which each notifier can read the other's row too early; the third makes a
retask. `Foreign` is empty in `run_wait`: it makes a run look like no run to the waiter,
which the proofs cover.

In `hub_session`, two clients and an outdated hub are the least in which one client
terminates the hub another one spawned; the third hub is the one by hand. Three sockets
cover a connection, its successor and one more after a reload; one request suffices, since
requests share only the connection. Three refreshes are a stale, a current and a next one.
Two calls of each workstream tool are the least that overlap.

In `sessions`: two dispatch attempts for one handle (a retask), `MaxCrash` 2, of which one
is a crash and one a restart; two sessions over two labels, one of them legacy, and two
branches, with `MaxUses` 2 commands, so that one session leases what the other removes; two panes (one
left over by a failed `/diff`), one note, one annotation, two bases for a rewritten
history, `MaxCommits` 2; one remark and one user note in a journal of 3 entries and 2
sessions; two plan calls with two wordings; files of up to `MaxLen` 2 lines with `Context`
0 (a context of 3 would need files of eight lines to have two hunks), one edit, one annotation; two chats
with 2 starts; two directories, two branches, 1 move of a head and 5 lookups. Wordings
and bases are symmetric, and so are attempts, panes, calls and chats. In `hub_session` clients
and edits are symmetric; wherever a request is made both are at rest, so that the symmetry
leaves the part `RequestSettles` is about as it is.

`CHECK_DEADLOCK` is off in every run: a system whose runs have ended, whose frames were
handled and whose bounds are used up rightly stops.

## Fairness

Weak fairness of what the event loop, its threads and its timers do with no one else's
help: a ready handler runs, a store statement in a thread ends, a timeout fires. In
RunLifecycle also: the client that needs a crashed daemon starts it again, the kernel
delivers the signals of `Terminate`, and a runner with a final result returns from
`main`. In ConnectionRegistry also: a client that is well answers a ping. Nothing makes
an agent finish, a client connect, thaw, read or leave, or a daemon crash, and no
property depends on it. The liveness properties therefore say what the daemon owes, for
example `DeadRunIsFinalized`: *once the runner is dead* the row becomes terminal, unless
the store failed. In HubClient (`ClientFairness`): a close that was asked for completes, a
hub answers a request it received, and provisioning, whose commands have time limits,
ends; a connection need not ever close, and `RequestSettles` needs none of the user's acts.

## Where code and documents disagree

Five runs end in a counterexample to a sentence of the documents (`findings` in
PROJECT.json quotes them).

1. `create_race`: two dispatches to one agent from two sockets both pass the SELECT of
   `create_run`; the agent has two active runs.
2. `cancel_spawn`: a cancel between `create_run` and `set_process` finalizes the row and
   finds no process to signal; the runner starts under a cancelled row.
3. `reconnect`: a reconnect cancels the reaper but not the UPDATE in its thread: the run
   of a session that is back is failed for its absence.
4. `wait_lost`: a run finalized between the lookup of a wait and the registration of its
   waiter leaves the wait asleep until its timeout. `message_status_result` looks again
   after registering; `wait_for_agents` does not.
5. `rejected_free`: the incumbent leaves while a newcomer probes it; the newcomer is then
   rejected with "already connected" although the node is free.

The positive properties are stated so that they hold next to these: `SomebodyTells` names
the reaper that was cancelled, `LastFinalizerWakes` the waits that registered too late
(`late`), `LiveProcessIsTracked` the daemon that has not crashed.

## Proofs

Eight modules prove the safety part of every component for every value of the constants,
from the named assumption of each component's module: what the constant functions map to,
that the marker for "none" is not a member of the set it is added to, and that bounds are
naturals. SessionWorktrees also assumes that a label is not the word `"none"` and a session
none of the words a lock's owner may be besides. TLC evaluates these assumptions in every run.
Of the constant sets only the calls of the plan tool are assumed finite.

| module | component | inductive invariant | theorems |
|---|---|---|---|
| `RunLifecycleProofs` | RunLifecycle | `TypeInv /\ RunInv /\ TaskInv /\ SocketInv` | `TypeCorrect`, `RunsAreRemembered`, `WaitersAreTold`, `ProcessesAreTracked`, `AbsenceIsReaped`, `WorkspacesOutliveRunners`, `ImplementsRunRecord` |
| `RunWaitProofs` | RunWait | `TypeOK`, `RowShape`, `NotifierShape`, `WaitShape`, `AnswerShape`, `LastFinalizerWakes` | `TypeCorrect`, `TheLastOneWakes`, `WokenAnswersAreFinal` |
| `PeerMessagesProofs` | PeerMessages | `TypeOK /\ MsgInv /\ AskInv` | `TypeCorrect`, `NoLostWakeup`, `AnswersAreTerminal`, `ImplementsMessageRecord` |
| `ConnectionRegistryProofs` | ConnectionRegistry | `TypeOK`, `EntryHasHandler`, `HolderShape`, `ProbeShape` | `TypeCorrect`, `LiveSessionsStay`, `DisplacedAreClosed`, `EntriesHaveHandlers`, `ServedAreNotReaped`, `AbsentAreReaped`, `ImplementsNodeSession` |
| `HubSessionProofs` | HubEnsure | `ReachInv`: `EnsureTypeOK`, `FlockInv`, `LockInv`, `Undisturbed` | `EnsureTypeCorrect`, `ServingHubIsReachable`, `PathIsSafeFromHubs`, `ImplementsHubService` |
| | HubClient | `ClientInv` | `ClientTypeCorrect`, `OneConnectionIsWired` |
| | Workstreams | `StreamInv` | `WorkstreamTypeCorrect`, `WorkstreamsAlwaysHold` |
| | Dashboard | `PageInv` | `PageTypeCorrect`, `PageAlwaysKeepsGoing` |
| | MCHubSession | | `HubSessionIsItsParts`, `HubSessionTypeCorrect` |
| `WorktreeProofs` | AgentWorkspaces | `WorkspaceInv` | `WsTypeCorrect`, `CommitsAreKept`, `LiveRunKeepsWorkspace` |
| | SessionWorktrees | `TreesInv` | `TreesTypeCorrect`, `UncommittedWorkIsKept`, `FreshLocksAreKept` |
| `ReviewProofs` | DiffReview | `ReviewInv` | `DiffTypeCorrect`, `ReviewLosesNothingEver` |
| | DiffJournal | `JournalInv` | `JournalTypeCorrect`, `ReviewsAreTransactional` |
| | DiffAnchors | `AnchorInv`, `ShownIsNow` | `AnchorTypeCorrect`, `FreshAnnotationsAreShown`, `ParsedDiffIsExact`, `FrozenDiffsAreExact` |
| `SessionProofs` | PlanTasks | `TypeInv`, `ApprovalInv`, `DispatchInv` | `PlanTypeCorrect`, `ApprovalsHold`, `OnePromptPerHandoff` |
| | RepositoryStatus | `StatusInv`, `Bounded` | `FooterStaysCurrent`, `StatusTypeCorrect` |
| | SessionState | `MemoryInv` | `StateTypeCorrect`, `SessionsAlwaysRemember` |
| | MCSessions | | `SessionsAreTheirParts`, `SessionsTypeCorrect` |

The argument of each:

* **Runs.** The type invariant needs `TaskShape` (a task that has picked a run holds one).
  `RunInv` ties, per run, where the dispatch handler is to the row and to the process
  (`DispatchShape`), the recorded final to the state of the runner (`RecordShape`), the
  reap task to the process it waited for (`ReapShape`), and what a daemon that is down
  may have left (`DownShape`). `TaskInv` and `SocketInv` say what a reaper or a cancel
  may be working on while its dispatcher is connected or not. None of the five
  properties is inductive alone: for instance "a finalized row still has a notifier" needs
  that the task holding the run is the one that won. The refinement proof maps every
  action to `Create`, `Record`, `End` or `Finalize` of RunRecord, or to a stutter, and for
  each finalizer shows its outcome truthful.
* **Waiting.** `LastFinalizerWakes` is inductive next to three facts: a run has a
  notifier exactly when its row is terminal, what a notifier read stays true, and a
  sleeper is registered and not expired. Where the last row of a wait becomes terminal the
  finalizer is at `list`; it then lists the waiter, and its read, made after that, sees
  every row terminal. The registration step is the one place it could break, and `late`
  is exactly that case.
* **Messages.** The status and the frame are tied to where the push task is
  (`PushShape`), an acknowledgement to a frame that was taken or refused (`AckShape`);
  from this every write of the status is a step of MessageRecord. For the queries,
  `SleepShape` says that what a query read is stale only harmlessly: if the message is
  settled and the query sleeps, or is about to, it was woken or the notifier is yet to
  come. That holds since the second read comes after the registration.
* **Connections.** `HolderShape`: whoever registers or serves holds the node or was
  closed, and nobody closed holds it. `ProbeShape`: a newcomer gives up only on an
  incumbent that was stuck, left or was closed. Together they make the compare-and-set
  of `TakeOver` harmless to a live session, whichever incumbent was observed ten seconds
  before. The same two map every step to one of NodeSession; the step of substance is
  `TakeOver`, where the entry that is still the observed one must have been lost and not
  merely closed, since a closed handler that still holds the node was busy when it failed.
* **Daemon start.** `FlockInv`: one hub at most holds the flock, and an outdated hub serves
  only from before the start. This alone gives `PathIsSafeFromHubs`: a hub clears the path
  only under the flock. Without a disturbance, every client between taking and releasing
  the spawn lock has its file there (`LockInv`), so one client at a time terminates;
  whoever does found a hub of another protocol, which is then the only live one. Its path
  is unlinked after it is gone and before the next hub is spawned. Hence
  `ServingHubIsReachable`, with any number of clients, each of which may die at any point.
  For `ImplementsHubService` the same invariant maps every step: `Bind` to `Serve`, since who
  binds holds the flock and the others that did are gone; what clears the path (`ClearPath`,
  `UnlinkSocket`, a server that closes) to `Unlink`, which is allowed while nobody serves, or
  after a disturbance; a hub that is terminated or dies to `End`; all others to `Disturb` or a
  stutter.
* **Client.** `AttemptShape`: an attempt to connect that is under way is either the current
  one, and then there is no connection, or belongs to an earlier generation and is listed as
  outdated. So the open socket is the connection's, and the only one (`ConnectionShape`). `WiredTo`
  ties the wiring to it: whatever an earlier load had wired to a surviving connection, wiring
  it anew leaves it wired once (`Rewired`), and the cleanups leave nothing wired (`CleanedUp`).
* **Workstreams.** A row is what its own call made of it, under a slug no other row has, and its
  later versions are by edits that have ended (`RowsAreOwn`); hence `Found` of a slug
  finds one row at most, and an acknowledgement, which may be late but not early, reports what
  is there. An edit under way has read a version of the row it will write (`RevisesHold`), which is
  all that "undone only by an edit it overlapped with" needs.
* **Page.** `PageKeepsGoing` is inductive next to the types. The steps that matter are the
  reconciliations: whatever snapshot, filters and selection they are given, `Reconciled` returns
  a selection among the visible roots, or none if nothing is visible.
* **Agents' workspaces.** Work on a branch is safe while whoever is about to delete it
  (`AboutToDelete`) has judged it to have none, or the branch was overtaken since
  (`JudgedShape`). A dispatch discards only what it minted and the daemon did not take over, and
  that has no work yet: `MintedShape`, its worktree still holds the branch. For live runs, a
  lock gets stale only under a dispatch that is over (`TreeShape`), and the sweep, however
  old its listing, picks only such trees (`SweepShape`).
* **Sessions' worktrees.** `Judgement` says, of a session that removes, what its listing and its
  `git status` still mean: a lock on its list is fresh only if taken after the listing
  (`overtook`), if it is the session's own and it quits, or if its user is sure; a dirty victim was
  written to after the status. `FreshLocksAreKept` is an action property: the steps that unlock
  are each a case of `BreaksLock`, and no other step unlocks (`FreshLockStep`).
* **pi's review.** `PaneShape`: at most one pane is alive, the owned one, whatever failed
  before. So what a step of the command does to a pane it does to its own (`CommandShape`), the
  notes that die with it were read or came too late (`NotesRead`), and what the checkpoint counts as
  reviewed is what hunk showed (`HunkShows`).
* **omp's review.** The journal is a tree (`JournalIsTree`), and the invariant says of *every*
  entry, not of the current leaf alone, that on the branch that ends with it no annotation is
  lost (`Settled`). So it holds wherever the user navigates, and an entry that is appended
  disturbs only its own branch. `CompleteKeeps` is the step of substance: a completion moves
  the boundary to the cutoff, and all that was active up to the cutoff is what the review
  showed and a saved review judged (`ReviewKnows`).
* **Anchors.** `LoadsAreExact`: in a load in which nothing has changed so far, what was read is
  what there is; hence `ExactLoad`, both of two such loads find the same files, and an annotation
  that was valid in one is current in the other. This needs no fact about the parser, only
  that it is a function of the patch.
* **Parser.** `ParsedDiffIsExact` is about operators alone: what the scanner of
  `parseDiffFiles` makes of the patch git prints for two files. It has two halves. The edit
  script renders the new file: a step that is kept or added holds the line at its number in
  the new version, `NewAt` (`ScriptRenders`). And after the parts of the first k steps the
  scanner's state is known (`ReadsTo`): it no longer looks for markers unless it is still before
  the first hunk, it stands at the number of the next line if a hunk is open, and it holds
  the displayed lines so far and the ranges of the hunks begun so far. `HeaderScans` and
  `LineScans` are the two kinds of line, `ReadPart` a step, `PatchReads` the whole; that content
  such as `--` or `++` begins like a marker does no harm because a hunk header comes first. Last,
  the ranges cover the displayed numbers exactly (`RangesCover`): numbers grow by one within a
  hunk. `ShownIsNow` then says that a review shows what the loader would read now, if
  nothing changed since it began to load, which gives `FrozenDiffsAreExact`.

  An induction over the patch is needed here. The library states induction with an operator
  as parameter, which these provers cannot instantiate; `Counting` states it for a set of
  numbers (a set that holds 0 and with each number its successor holds all), proved from the
  least number outside such a set, and each induction uses the set of the k for which its claim holds.
* **Plans.** `ApprovalShape`: what a draft marks as approved, the user approved in those
  words; carrying a verdict over compares the words. `HandoffShape` follows the approved
  draft through the call's await to the cycle it starts. `DispatchInv` relates the sends
  of a handoff to its stage: unsent before, one timer or callback armed while it waits,
  sent once after, which closes all orders of callbacks and watchdog.
* **Footer.** `Fits` says that the fields of the tracker agree, `Known` that the active
  lookup is under way and that generations bound those of all lookups. `SyncFits` and
  `RefreshFits` are about the operators of the code alone: whatever fields they are given,
  what they return fits, and a lookup they start is newer than all before. An answer is
  then accepted only from the newest generation, so the last one shown is the latest.

* **Memory.** `CellIsSaved`: from the first handler of a session to its shutdown the cell is
  what `LoadSessionState` would give a restart, also while handlers of a start still run, which
  the property leaves out: who changes the cell saves it in the same step
  (`UpdateSaves`). A title is tied to the session it was extracted for, or to one the session
  was forked from.
* **Compositions.** Every step of a composition is a step or a stutter of each of its components
  (`PartsMove`, `SessionPartsMove`), and so every behavior of it is one of each component, with
  the fairness of HubClient. The states TLC explores in `hub_session` and `sessions` are
  therefore states the theorems are about.

The provers misread a function that is updated twice at one index (`[f EXCEPT ![i].a = x,
![i].b = y]`, with two paths into `f[i]`): the models write `[@ EXCEPT !.a = x, !.b = y]` instead.

Only TLC checks

* the liveness properties `DeadRunIsFinalized`, `WorktreeIsReclaimed`, `AcceptedIsPushed`,
  `QueryIsAnswered`, `WaitIsAnswered`, `ProbeIsDecided` and `RequestSettles`, since the proof system
  has no fairness and no ENABLED;
* the five divergences, which are counterexamples.

## Known behaviour that no property excludes

Met while modelling. Either a property names it as its exception, or no document promises
otherwise, or it lies outside a model.

* *Hub.* A child dispatched while `cancel_agent` walks the subtree it read is not cancelled
  (`cancel.py:66`). A crash between spawn and `set_run_pgid` leaves a runner that no later
  daemon can find (`dispatch.py:320`). A failing store write in the reap task or a sidecar
  that fails validation skips finalization (`process.py:449`). Messages accepted and not
  pushed are not resumed by the next daemon (`server.py:150`). Dispatch, cancel and message
  frames handled inline block the loop that resolves a probe (`app.py:217`; `stalled`).
* *Starting the hub.* With two clients and a lock that is judged stale, a client can
  terminate the hub another one spawned, unlink the path of a third, and leave a hub that
  serves without a path and keeps the flock (`disturbed`).
* *Hub client.* The status stays "starting" after a reload on a surviving connection. A
  call that subscribes to a connection that closed before never settles (`late`). Only
  `wait_for_agent`, `message_status` and the second stage of `ask` take the abort signal.
* *Session worktrees.* Any session lease is taken over, fresh or not, so two sessions may
  share a worktree, and the later leaser's quit removes it if it is clean, although
  `lease.ts:208-211` calls the lock a protection. Between the unlock and the lock of a
  re-lease the worktree is free; staging can overwrite a lease taken after its listing.
* *pi's /diff.* Annotations recorded while the review is open are cleared unread at its
  close (`lateRationale`); notes written between the read and the close are lost. Panes of
  earlier pi processes are never drained.
* *omp's /diff.* The id of an annotation leaves the anchored lines out: annotating a range
  again in the same words after its lines changed is skipped as a duplicate of the stale
  one. A file added to the index between the two git calls is missing from the patch.
* *Plans.* A declined review empties the draft another call of the turn is using, which then
  throws. `/show-plan` can revise an approved draft while its handoff is under way
  (`replaced`). A pending handoff is dropped by a reload.
* *Session.* `/title` that is answered after a session change names the new session
  (`crossed`); a background extraction overwrites a title set by hand; a session stored
  as copilot restores that mode without the flag.
* *Workstreams.* Of two overlapping edits the second undoes the fields the first named. A
  create whose acknowledgement is lost leaves a record, and a retry makes another.
* *Footer.* A HEAD that moves and moves back under coalesced events may show the other
  branch's pull request until the next refresh; a HEAD moved between the read and the watch
  is missed.
* *Dashboard.* Messages of an agent that ended between two refreshes stay old until it is
  selected again; a late answer may overwrite newer messages; an edit of the location is
  lost if the page writes it first.

## Not modelled

* Content: prompts, results, labels, frame formats, HTTP projections, rendering, editors.
* Authorisation (`store/policy.py`): single queries over the ancestry of agents. The models
  enumerate requests the policy admits; `Foreign` and `Strangers` stand for what a
  requester may not see.
* The runner's RPC protocol with the agent process and its signal forwarding; the daemon
  sees only the final record, the report and the exit.
* Failing store statements other than `set_run_pgid`, schema and migrations.
* Time: a timeout may fire whenever its timer is armed, except the probe's (see `stalled`).
* Pid reuse, and git failures during a teardown. git, gh, hunk and herdr are external: a
  command of theirs is one step, and fails where its caller handles that.
* In DiffReview, history is not rewritten while `/diff` starts up, and only one `/diff`
  runs; hunk sessions of the user's own are left out. The tail of a plan session's task list
  (one call at a time on one record) is left out.
* Sequential parts with no state that outlives a call, or a cache of one process: catalog,
  model, skills, naming and host of pi, escalation, the other tools, the other extensions
  of omp, its launcher, the configuration, workspace and installation commands, evals,
  deployment and scripts. Nothing in them depends on an order of events.

## Plan

In order of weight:

1. An abstract leased-worktree specification that both AgentWorkspaces and SessionWorktrees
   implement.
2. Composition of RunLifecycle and RunWait (`Finalize` of RunWait as an action of
   RunLifecycle), so that a wait is followed from dispatch to answer; failing store
   statements of `reap_agent_process`.
3. Composition of HubClient and ConnectionRegistry, for the end-to-end claim that a resumed
   session is served.
4. Patches of more than one file in DiffAnchors: the parser's theorem for a concatenation of
   them, with names that need quoting.
5. `AgentTree`: depth, retask and messaging policy as operators over the parent relation,
   checked against a reference definition of ancestry; lemmas about them.
