---------------------------- MODULE RunLifecycle ----------------------------
(***************************************************************************)
(* The life of a dispatched run inside the hub daemon.                     *)
(*                                                                         *)
(* A dispatch frame names a run, the agent it is for and the node that     *)
(* dispatches it.  The daemon inserts a row, spawns a runner process,      *)
(* tracks it, and from then on several parties race to finalize the row:   *)
(* the runner's own result_report, the task that waits for the process,    *)
(* cancel requests, the dispatcher-disconnect reaper and, after a crash of *)
(* the daemon, the reconciliation pass of the next one.  Every await of    *)
(* the asyncio code, and every asyncio.to_thread, ends an action here.     *)
(***************************************************************************)
EXTENDS Naturals

CONSTANTS
  Run,             \* run ids (fresh uuids, one per dispatch frame)
  Agent,           \* durable agent ids
  Node,            \* dispatching nodes, all of one session root
  CancelReq,       \* cancel frames, each handled once
  AgentOf,         \* the agent a dispatch frame is for
  DispatcherOf,    \* the node whose socket carries the dispatch frame
  NoRun,           \* agents.current_run_id is NULL
  MaxCrashes,      \* bound on daemon crashes
  MaxDisconnects,  \* bound on sockets of dispatchers ending
  MaxStoreFaults   \* bound on set_run_pgid raising sqlite3.OperationalError

ASSUME ConstantsAssumption ==
  /\ AgentOf \in [Run -> Agent]
  /\ DispatcherOf \in [Run -> Node]
  /\ NoRun \notin Run
  /\ Node \cap CancelReq = {}
  /\ MaxCrashes \in Nat /\ MaxDisconnects \in Nat /\ MaxStoreFaults \in Nat

VARIABLES
  \* the SQLite store: survives a crash
  row,        \* runs.status with runs.error
  currentRun, \* agents.current_run_id
  pgid,       \* runs whose runs.pgid is set
  \* the operating system: survives a crash
  leader,     \* the runner, leader of its process group
  child,      \* runs whose agent process, in the same group, is alive
  signalled,  \* runs whose group was sent SIGTERM, SIGKILL to follow
  sidecar,    \* result.json: the runner's recorded final
  worktree,   \* the workspace the run owns
  \* the daemon's memory: lost in a crash
  phase,      \* is the daemon down, reconciling, or serving
  disp,       \* where the handler of the run's dispatch frame is
  tracked,    \* runs in Registry._processes
  reap,       \* where reap_agent_process is
  report,     \* where the run's result_report frame is
  task,       \* disconnect reapers (per node) and cancel handlers
  orphaned,   \* runs whose finalizing thread outlived its cancelled task
  conn,       \* the node's entry in Registry._connections
  untold,     \* finalized runs whose waiters were not notified yet
  recon,      \* rows the reconciliation pass still has to handle
  \* bounds
  crashes, disconnects, storeFaults

storeVars == <<row, currentRun, pgid>>
osVars    == <<leader, child, signalled, sidecar, worktree>>
dispVars  == <<disp, tracked, storeFaults>>
connVars  == <<task, orphaned, conn, disconnects>>
downVars  == <<phase, recon, crashes>>
vars == <<storeVars, osVars, dispVars, connVars, downVars, reap, report, untold>>

Interventions == {"cancelled", "dispatcher_disconnected", "restart_reconciled"}
Terminal == {"completed", "agent_error", "no_result", "spawn_failed"} \cup Interventions
Final == {"none", "ok", "error"}
DispMid == {"checked", "created", "spawned", "tracked", "failing", "failNotify"}

TaskId == Node \cup CancelReq
TaskState == [pc : {"idle", "grace", "loop", "commit", "kill", "notify", "done"},
              todo : SUBSET (Run \cup Agent), run : Run \cup {NoRun}]
IdleTask == [pc |-> "idle", todo |-> {}, run |-> NoRun]

TypeOK ==
  /\ row \in [Run -> {"absent", "running"} \cup Terminal]
  /\ currentRun \in [Agent -> Run \cup {NoRun}]
  /\ pgid \subseteq Run
  /\ leader \in [Run -> {"none", "starting", "attempt1", "attempt2", "final", "reported",
                        "dead"}]
  /\ child \subseteq Run /\ signalled \subseteq Run
  /\ sidecar \in [Run -> Final]
  /\ worktree \in [Run -> {"none", "present", "removed"}]
  /\ phase \in {"down", "reconcile", "up"}
  /\ disp \in [Run -> {"idle", "rejected", "done"} \cup DispMid]
  /\ tracked \subseteq Run
  /\ reap \in [Run -> {"none", "waiting", "exited", "notify", "teardown", "done"}]
  /\ report \in [Run -> {"none", "flight", "notify", "done"}]
  /\ task \in [TaskId -> TaskState]
  /\ orphaned \subseteq Run /\ untold \subseteq Run
  /\ conn \in [Node -> {"off", "claimed", "on"}]
  /\ recon \in [todo : SUBSET Run, killed : SUBSET Run]
  /\ crashes \in 0 .. MaxCrashes /\ storeFaults \in 0 .. MaxStoreFaults
  /\ disconnects \in 0 .. MaxDisconnects

Init ==
  /\ row = [r \in Run |-> "absent"]
  /\ currentRun = [a \in Agent |-> NoRun]
  /\ pgid = {}
  /\ leader = [r \in Run |-> "none"]
  /\ child = {} /\ signalled = {}
  /\ sidecar = [r \in Run |-> "none"]
  /\ worktree = [r \in Run |-> "none"]
  /\ phase = "up"
  /\ disp = [r \in Run |-> "idle"]
  /\ tracked = {}
  /\ reap = [r \in Run |-> "none"]
  /\ report = [r \in Run |-> "none"]
  /\ task = [t \in TaskId |-> IdleTask]
  /\ orphaned = {} /\ untold = {}
  /\ conn = [n \in Node |-> "on"]
  /\ recon = [todo |-> {}, killed |-> {}]
  /\ crashes = 0 /\ disconnects = 0 /\ storeFaults = 0

-----------------------------------------------------------------------------
\* Store operations.

Active(r) == row[r] = "running"

\* Mutant: set_run_result, which overwrites a terminal row.
SetRunResultAlways(r, why) ==
  /\ row' = [row EXCEPT ![r] = why]
  /\ untold' = untold \cup {r}

\* set_run_result_if_unset: one UPDATE ... WHERE status IN ('pending','running').
\* The winner owes the run's waiters a notification.
SetRunResultIfUnset(r, why) ==
  /\ row' = [row EXCEPT ![r] = IF Active(r) THEN why ELSE @]
  /\ untold' = IF Active(r) THEN untold \cup {r} ELSE untold

\* The sidecar's final mapped to a terminal status, ok to completed and
\* anything else to failed; the fallback when no final is recorded.
OutcomeOf(r, fallback) ==
  CASE sidecar[r] = "ok"    -> "completed"
    [] sidecar[r] = "error" -> "agent_error"
    [] OTHER                -> fallback

NotifyRunFinalized(r) == untold' = untold \ {r}

LeaderAlive(r) == leader[r] \notin {"none", "dead"}

\* terminate_process_group_if_runner: nothing is signalled unless the group
\* leader's command line is the runner's.
Terminate(S) == signalled' = signalled \cup {r \in S : LeaderAlive(r)}

-----------------------------------------------------------------------------
\* The dispatch handler: prepare_dispatch, spawn, track, record the group.

\* The read loop of a socket awaits handle_dispatch before its next frame.
LoopBusy(n) == \E r \in Run : DispatcherOf[r] = n /\ disp[r] \in DispMid

Goto(r, pc) == disp' = [disp EXCEPT ![r] = pc]

\* create_run's SELECT.  Python's sqlite3 opens no transaction for it.
DispatchCheck(r) ==
  /\ phase = "up"
  /\ disp[r] = "idle" /\ conn[DispatcherOf[r]] = "on" /\ ~LoopBusy(DispatcherOf[r])
  /\ Goto(r, IF \E q \in Run : AgentOf[q] = AgentOf[r] /\ Active(q)
               THEN "rejected" ELSE "checked")
  /\ UNCHANGED <<storeVars, osVars, tracked, storeFaults, connVars, downVars,
                 reap, report, untold>>

\* create_run's INSERT and the move of agents.current_run_id, committed together.
DispatchInsert(r) ==
  /\ disp[r] = "checked"
  /\ row' = [row EXCEPT ![r] = "running"]
  /\ currentRun' = [currentRun EXCEPT ![AgentOf[r]] = r]
  /\ Goto(r, "created")
  /\ UNCHANGED <<pgid, osVars, tracked, storeFaults, connVars, downVars,
                 reap, report, untold>>

\* create_subprocess_exec; the handler resumes only at DispatchTrack.
SpawnRunner(r) ==
  /\ disp[r] = "created"
  /\ \/ /\ Goto(r, "spawned")
        /\ leader' = [leader EXCEPT ![r] = "starting"]
        /\ worktree' = [worktree EXCEPT ![r] = "present"]
     \/ Goto(r, "failing") /\ UNCHANGED <<leader, worktree>>
  /\ UNCHANGED <<storeVars, child, signalled, sidecar, tracked, storeFaults,
                 connVars, downVars, reap, report, untold>>

MarkSpawnFailed(r) ==
  /\ disp[r] = "failing"
  /\ SetRunResultIfUnset(r, "spawn_failed")
  /\ Goto(r, IF Active(r) THEN "failNotify" ELSE "done")
  /\ UNCHANGED <<currentRun, pgid, osVars, tracked, storeFaults, connVars,
                 downVars, reap, report>>

SpawnFailedNotify(r) ==
  /\ disp[r] = "failNotify"
  /\ NotifyRunFinalized(r) /\ Goto(r, "done")
  /\ UNCHANGED <<storeVars, osVars, tracked, storeFaults, connVars, downVars,
                 reap, report>>

\* set_run_owner and set_process, in one synchronous stretch.
DispatchTrack(r) ==
  /\ disp[r] = "spawned"
  /\ tracked' = tracked \cup {r} /\ Goto(r, "tracked")
  /\ UNCHANGED <<storeVars, osVars, storeFaults, connVars, downVars,
                 reap, report, untold>>

\* Mutant: the group is recorded but nobody waits for the process.
DispatchForgetsProcess(r) ==
  /\ disp[r] = "tracked"
  /\ pgid' = pgid \cup {r} /\ Goto(r, "done")
  /\ UNCHANGED <<row, currentRun, osVars, tracked, storeFaults, connVars,
                 downVars, reap, report, untold>>

\* set_run_pgid, then the task that waits for the process.
DispatchRecordGroup(r) ==
  /\ disp[r] = "tracked"
  /\ pgid' = pgid \cup {r}
  /\ reap' = [reap EXCEPT ![r] = "waiting"]
  /\ Goto(r, "done")
  /\ UNCHANGED <<row, currentRun, osVars, tracked, storeFaults, connVars,
                 downVars, report, untold>>

-----------------------------------------------------------------------------
\* Disconnect reapers and cancel handlers: both finalize, kill, notify, run by run.

SetTask(t, pc, todo, run) ==
  task' = [task EXCEPT ![t] = [pc |-> pc, todo |-> todo, run |-> run]]

\* Task.cancel() on node n's reaper.  A set_run_result_if_unset already handed
\* to a thread may still commit; the kill and the notification after it will not.
CancelReaper(n) ==
  \/ orphaned' = orphaned
  \/ task[n].pc = "commit" /\ orphaned' = orphaned \cup {task[n].run}

\* set_run_pgid raises: the exception ends the socket, no reap task is created.
DispatchRecordGroupFails(r) ==
  LET n == DispatcherOf[r] IN
  /\ disp[r] = "tracked"
  /\ storeFaults < MaxStoreFaults /\ storeFaults' = storeFaults + 1
  /\ Goto(r, "done")
  /\ conn' = [conn EXCEPT ![n] = "off"]
  /\ CancelReaper(n) /\ SetTask(n, "grace", {}, NoRun)
  /\ UNCHANGED <<storeVars, osVars, tracked, disconnects, downVars, reap, report, untold>>

\* The socket of n ends: remove_connection, then schedule_disconnect_reaper.
Disconnect(n) ==
  /\ phase = "up"
  /\ conn[n] # "off" /\ ~LoopBusy(n)
  /\ disconnects < MaxDisconnects /\ disconnects' = disconnects + 1
  /\ conn' = [conn EXCEPT ![n] = "off"]
  /\ CancelReaper(n) /\ SetTask(n, "grace", {}, NoRun)
  /\ UNCHANGED <<storeVars, osVars, dispVars, downVars, reap, report, untold>>

\* A register frame claims the node id; upsert_agent suspends the handler ...
Claim(n) ==
  /\ phase = "up"
  /\ conn[n] = "off"
  /\ conn' = [conn EXCEPT ![n] = "claimed"]
  /\ UNCHANGED <<storeVars, osVars, dispVars, task, orphaned, disconnects, downVars,
                 reap, report, untold>>

\* ... and only then is a pending reaper cancelled.
Registered(n) ==
  /\ conn[n] = "claimed"
  /\ conn' = [conn EXCEPT ![n] = "on"]
  /\ CancelReaper(n) /\ SetTask(n, "idle", {}, NoRun)
  /\ UNCHANGED <<storeVars, osVars, dispVars, disconnects, downVars, reap, report,
                 untold>>

\* The grace period is over.
ReaperWake(n) ==
  /\ task[n].pc = "grace"
  /\ IF conn[n] # "off"
       THEN SetTask(n, "idle", {}, NoRun)
       ELSE SetTask(n, "loop", {r \in tracked : DispatcherOf[r] = n}, NoRun)
  /\ UNCHANGED <<storeVars, osVars, dispVars, orphaned, conn, disconnects, downVars,
                 reap, report, untold>>

ReaperNext(n) ==
  /\ task[n].pc = "loop"
  /\ IF task[n].todo = {} \/ conn[n] # "off"
       THEN SetTask(n, "idle", {}, NoRun)
       ELSE \E r \in task[n].todo : SetTask(n, "commit", task[n].todo \ {r}, r)
  /\ UNCHANGED <<storeVars, osVars, dispVars, orphaned, conn, disconnects, downVars,
                 reap, report, untold>>

\* A cancel frame: the target's dispatch subtree is read once.
CancelStart(c) ==
  /\ phase = "up"
  /\ task[c].pc = "idle"
  /\ \E S \in SUBSET Agent \ {{}} : SetTask(c, "loop", S, NoRun)
  /\ UNCHANGED <<storeVars, osVars, dispVars, orphaned, conn, disconnects, downVars,
                 reap, report, untold>>

\* Next agent of the subtree: read its current_run_id.
CancelNext(c) ==
  /\ task[c].pc = "loop"
  /\ IF task[c].todo = {}
       THEN SetTask(c, "done", {}, NoRun)
       ELSE \E a \in task[c].todo :
              SetTask(c, IF currentRun[a] = NoRun THEN "loop" ELSE "commit",
                      task[c].todo \ {a}, currentRun[a])
  /\ UNCHANGED <<storeVars, osVars, dispVars, orphaned, conn, disconnects, downVars,
                 reap, report, untold>>

\* Mutant: losing one run to another finalizer ends the whole task.
TaskCommitGivesUp(t) ==
  LET r == task[t].run IN
  /\ task[t].pc = "commit"
  /\ SetRunResultIfUnset(r, IF t \in Node THEN "dispatcher_disconnected" ELSE "cancelled")
  /\ IF Active(r) THEN SetTask(t, "kill", task[t].todo, r) ELSE SetTask(t, "idle", {}, NoRun)
  /\ UNCHANGED <<currentRun, pgid, osVars, dispVars, orphaned, conn, disconnects, downVars,
                 reap, report>>

TaskCommit(t) ==
  LET r == task[t].run IN
  /\ task[t].pc = "commit"
  /\ SetRunResultIfUnset(r, IF t \in Node THEN "dispatcher_disconnected" ELSE "cancelled")
  /\ SetTask(t, IF Active(r) THEN "kill" ELSE "loop", task[t].todo, r)
  /\ UNCHANGED <<currentRun, pgid, osVars, dispVars, orphaned, conn, disconnects, downVars,
                 reap, report>>

\* Mutant: the process handle is popped, not looked up.
TaskKillPops(t) ==
  /\ task[t].pc = "kill"
  /\ Terminate({task[t].run} \cap tracked)
  /\ tracked' = tracked \ {task[t].run}
  /\ SetTask(t, "notify", task[t].todo, task[t].run)
  /\ UNCHANGED <<storeVars, leader, child, sidecar, worktree, disp, storeFaults, orphaned,
                 conn, disconnects, downVars, reap, report, untold>>

\* registry.get_process, and the signals if the run has a tracked process.
TaskKill(t) ==
  /\ task[t].pc = "kill"
  /\ Terminate({task[t].run} \cap tracked)
  /\ SetTask(t, "notify", task[t].todo, task[t].run)
  /\ UNCHANGED <<storeVars, leader, child, sidecar, worktree, dispVars, orphaned,
                 conn, disconnects, downVars, reap, report, untold>>

TaskNotify(t) ==
  /\ task[t].pc = "notify"
  /\ NotifyRunFinalized(task[t].run)
  /\ SetTask(t, "loop", task[t].todo, NoRun)
  /\ UNCHANGED <<storeVars, osVars, dispVars, orphaned, conn, disconnects, downVars,
                 reap, report>>

\* The thread a cancelled reaper left behind commits.
OrphanCommit(r) ==
  /\ r \in orphaned /\ orphaned' = orphaned \ {r}
  /\ SetRunResultIfUnset(r, "dispatcher_disconnected")
  /\ UNCHANGED <<currentRun, pgid, osVars, dispVars, task, conn, disconnects, downVars,
                 reap, report>>

-----------------------------------------------------------------------------
\* The runner process: agent attempts, then the final record, then the report.

hubAndStoreVars == <<storeVars, dispVars, connVars, downVars, reap, untold>>

\* An attempt, and at most one retry of it.
StartAttempt(r) ==
  /\ r \notin child
  /\ \/ leader[r] = "starting" /\ leader' = [leader EXCEPT ![r] = "attempt1"]
     \/ leader[r] = "attempt1" /\ leader' = [leader EXCEPT ![r] = "attempt2"]
  /\ child' = child \cup {r}
  /\ UNCHANGED <<signalled, sidecar, worktree, report, hubAndStoreVars>>

ChildExits(r) ==
  /\ r \in child /\ child' = child \ {r}
  /\ UNCHANGED <<leader, signalled, sidecar, worktree, report, hubAndStoreVars>>

\* set_final_run_result: an attempt that could not start is an error.
RecordFinal(r) ==
  /\ r \notin child
  /\ \/ /\ leader[r] \in {"attempt1", "attempt2"}
        /\ \E f \in {"ok", "error"} : sidecar' = [sidecar EXCEPT ![r] = f]
     \/ leader[r] = "starting" /\ sidecar' = [sidecar EXCEPT ![r] = "error"]
  /\ leader' = [leader EXCEPT ![r] = "final"]
  /\ UNCHANGED <<child, signalled, worktree, report, hubAndStoreVars>>

\* send_result_report: the frame is on its way, or the connection failed.
SendReport(r) ==
  /\ leader[r] = "final"
  /\ leader' = [leader EXCEPT ![r] = "reported"]
  /\ \/ phase = "up" /\ report' = [report EXCEPT ![r] = "flight"]
     \/ report' = report
  /\ UNCHANGED <<child, signalled, sidecar, worktree, hubAndStoreVars>>

LeaderGone(r) ==
  /\ leader' = [leader EXCEPT ![r] = "dead"]
  /\ UNCHANGED <<child, signalled, sidecar, worktree, report, hubAndStoreVars>>

\* The runner returns from main, or a signal of Terminate lands.
LeaderExits(r) ==
  /\ LeaderAlive(r) /\ (leader[r] = "reported" \/ r \in signalled)
  /\ LeaderGone(r)

\* The runner dies on its own (killed from outside, out of memory).
LeaderCrashes(r) ==
  /\ LeaderAlive(r) /\ leader[r] # "reported" /\ r \notin signalled
  /\ LeaderGone(r)

-----------------------------------------------------------------------------
\* handle_result_report and reap_agent_process.

\* Mutant: the report wakes nobody.
HandleReportSilently(r) ==
  /\ report[r] = "flight"
  /\ SetRunResultIfUnset(r, OutcomeOf(r, "agent_error"))
  /\ report' = [report EXCEPT ![r] = "done"]
  /\ UNCHANGED <<currentRun, pgid, osVars, dispVars, connVars, downVars, reap>>

HandleReport(r) ==
  /\ report[r] = "flight"
  /\ SetRunResultIfUnset(r, OutcomeOf(r, "agent_error"))
  /\ report' = [report EXCEPT ![r] = IF Active(r) THEN "notify" ELSE "done"]
  /\ UNCHANGED <<currentRun, pgid, osVars, dispVars, connVars, downVars, reap>>

ReportNotify(r) ==
  /\ report[r] = "notify"
  /\ NotifyRunFinalized(r)
  /\ report' = [report EXCEPT ![r] = "done"]
  /\ UNCHANGED <<storeVars, osVars, dispVars, connVars, downVars, reap>>

\* process.wait returned and the exit code is stored.
ReapExit(r) ==
  /\ reap[r] = "waiting" /\ leader[r] = "dead"
  /\ reap' = [reap EXCEPT ![r] = "exited"]
  /\ UNCHANGED <<storeVars, osVars, dispVars, connVars, downVars, report, untold>>

\* Mutant: a run somebody else finalized is not torn down.
ReapCommitOnlyOwn(r) ==
  /\ reap[r] = "exited"
  /\ SetRunResultIfUnset(r, OutcomeOf(r, "no_result"))
  /\ reap' = [reap EXCEPT ![r] = IF Active(r) THEN "notify" ELSE "done"]
  /\ tracked' = IF Active(r) THEN tracked ELSE tracked \ {r}
  /\ UNCHANGED <<currentRun, pgid, osVars, disp, storeFaults, connVars, downVars, report>>

\* _reap_outcome, set_run_result_if_unset.  Without a notification to make the
\* finally block runs at once and drops the process handle.
ReapCommit(r) ==
  /\ reap[r] = "exited"
  /\ SetRunResultIfUnset(r, OutcomeOf(r, "no_result"))
  /\ reap' = [reap EXCEPT ![r] = IF Active(r) THEN "notify" ELSE "teardown"]
  /\ tracked' = IF Active(r) THEN tracked ELSE tracked \ {r}
  /\ UNCHANGED <<currentRun, pgid, osVars, disp, storeFaults, connVars, downVars, report>>

ReapNotify(r) ==
  /\ reap[r] = "notify"
  /\ NotifyRunFinalized(r)
  /\ reap' = [reap EXCEPT ![r] = "teardown"]
  /\ tracked' = tracked \ {r}
  /\ UNCHANGED <<storeVars, osVars, disp, storeFaults, connVars, downVars, report>>

RemoveWorktrees(S) ==
  worktree' = [r \in Run |-> IF r \in S THEN "removed" ELSE worktree[r]]

ReapTeardown(r) ==
  /\ reap[r] = "teardown"
  /\ RemoveWorktrees({r})
  /\ reap' = [reap EXCEPT ![r] = "done"]
  /\ UNCHANGED <<storeVars, leader, child, signalled, sidecar, dispVars,
                 connVars, downVars, report, untold>>

-----------------------------------------------------------------------------
\* Crash of the daemon, and reconcile_orphaned_runs in the next one.

Crash ==
  /\ phase # "down" /\ crashes < MaxCrashes
  /\ crashes' = crashes + 1
  /\ phase' = "down"
  /\ disp' = [r \in Run |-> IF disp[r] \in DispMid THEN "done" ELSE disp[r]]
  /\ reap' = [r \in Run |-> "none"]
  /\ report' = [r \in Run |-> IF report[r] = "none" THEN "none" ELSE "done"]
  /\ task' = [t \in TaskId |->
                IF t \in CancelReq /\ task[t].pc # "idle"
                  THEN [IdleTask EXCEPT !.pc = "done"] ELSE IdleTask]
  /\ conn' = [n \in Node |-> "off"]
  /\ tracked' = {} /\ orphaned' = {} /\ untold' = {}
  /\ recon' = [todo |-> {}, killed |-> {}]
  /\ UNCHANGED <<storeVars, osVars, disconnects, storeFaults>>

\* Mutant: only rows with a recorded process group are reconciled.
RestartOnlyGroups ==
  /\ phase = "down" /\ phase' = "reconcile"
  /\ recon' = [todo |-> {r \in pgid : Active(r)}, killed |-> {}]
  /\ UNCHANGED <<storeVars, osVars, dispVars, connVars, crashes, reap, report, untold>>

Restart ==
  /\ phase = "down" /\ phase' = "reconcile"
  /\ recon' = [todo |-> {r \in Run : Active(r)}, killed |-> {}]
  /\ UNCHANGED <<storeVars, osVars, dispVars, connVars, crashes, reap, report, untold>>

\* The identity-checked signal to the recorded group.
ReconcileKill(r) ==
  /\ phase = "reconcile" /\ r \in recon.todo \ recon.killed
  /\ Terminate({r} \cap pgid)
  /\ recon' = [recon EXCEPT !.killed = @ \cup {r}]
  /\ UNCHANGED <<storeVars, leader, child, sidecar, worktree, dispVars, connVars,
                 phase, crashes, reap, report, untold>>

\* Mutant: a recorded group is taken for dead.
GroupRecorded(r) == r \in pgid

\* _process_group_verified_dead: ps on the group leader's pid found nothing.
VerifiedDead(r) == r \in pgid /\ leader[r] = "dead"

\* Finalize the row, and remove the workspace of a group verified dead.  No
\* client is connected yet: there is nobody to notify.
ReconcileRow(r) ==
  /\ phase = "reconcile" /\ r \in recon.todo \cap recon.killed
  /\ row' = [row EXCEPT ![r] = IF Active(r) THEN OutcomeOf(r, "restart_reconciled") ELSE @]
  /\ recon' = [recon EXCEPT !.todo = @ \ {r}]
  /\ RemoveWorktrees({r} \cap {q \in Run : VerifiedDead(q)})
  /\ UNCHANGED <<currentRun, pgid, leader, child, signalled, sidecar, dispVars,
                 connVars, phase, crashes, reap, report, untold>>

\* _reconcile_terminal_worktrees, then the server starts.
ReconcileTerminal ==
  /\ phase = "reconcile" /\ recon.todo = {}
  /\ RemoveWorktrees({r \in Run : /\ row[r] \in Terminal /\ worktree[r] = "present"
                                  /\ VerifiedDead(r)})
  /\ phase' = "up"
  /\ UNCHANGED <<storeVars, leader, child, signalled, sidecar, dispVars, connVars,
                 recon, crashes, reap, report, untold>>

-----------------------------------------------------------------------------
\* What the event loop and its threads do without being asked again.
HubStep(r) ==
  \/ DispatchInsert(r) \/ SpawnRunner(r) \/ MarkSpawnFailed(r) \/ SpawnFailedNotify(r)
  \/ DispatchTrack(r) \/ DispatchRecordGroup(r) \/ DispatchRecordGroupFails(r)
  \/ OrphanCommit(r) \/ HandleReport(r) \/ ReportNotify(r)
  \/ ReapExit(r) \/ ReapCommit(r) \/ ReapNotify(r) \/ ReapTeardown(r)

ReaperStep(n) == ReaperWake(n) \/ ReaperNext(n)
TaskStep(t) == TaskCommit(t) \/ TaskKill(t) \/ TaskNotify(t)
ReconcileStep(r) == ReconcileKill(r) \/ ReconcileRow(r)

RunnerStep(r) ==
  \/ StartAttempt(r) \/ ChildExits(r) \/ RecordFinal(r) \/ SendReport(r)
  \/ LeaderExits(r) \/ LeaderCrashes(r)

Next ==
  \/ \E r \in Run : DispatchCheck(r) \/ HubStep(r) \/ RunnerStep(r) \/ ReconcileStep(r)
  \/ \E n \in Node : Disconnect(n) \/ Claim(n) \/ Registered(n) \/ ReaperStep(n)
  \/ \E c \in CancelReq : CancelStart(c) \/ CancelNext(c)
  \/ \E t \in TaskId : TaskStep(t)
  \/ Crash \/ Restart \/ ReconcileTerminal

Spec == Init /\ [][Next]_vars

(***************************************************************************)
(* Fairness.  The event loop and its thread pool run every ready step; a   *)
(* client that needs the daemon starts it again; the kernel delivers the   *)
(* signals of Terminate and a runner that has a final result returns from  *)
(* main.  Nothing makes an agent finish, a client connect, or the daemon   *)
(* crash.                                                                  *)
(***************************************************************************)
Fairness ==
  /\ \A r \in Run : /\ WF_vars(HubStep(r)) /\ WF_vars(ReconcileStep(r))
                    /\ WF_vars(SendReport(r)) /\ WF_vars(LeaderExits(r))
                    /\ WF_vars(r \in signalled /\ ChildExits(r))
  /\ \A n \in Node : WF_vars(ReaperStep(n)) /\ WF_vars(Registered(n))
  /\ \A c \in CancelReq : WF_vars(CancelNext(c))
  /\ \A t \in TaskId : WF_vars(TaskStep(t))
  /\ WF_vars(Restart) /\ WF_vars(ReconcileTerminal)

FairSpec == Spec /\ Fairness

-----------------------------------------------------------------------------
\* Properties.

\* The row keeps the promise of RunRecord: it is finalized once, and with an
\* outcome that is true, whichever of the five finalizers of service/ and
\* process.py came first.
ProcessOf ==
  [r \in Run |-> CASE leader[r] = "none" -> "none"
                   [] leader[r] = "dead" -> "gone"
                   [] OTHER -> "alive"]
Record == INSTANCE RunRecord WITH final <- sidecar, process <- ProcessOf
RowKeepsItsPromise == Record!Spec

\* A running row is always somebody's to finalize: its dispatch handler before
\* the process is tracked, the task waiting for the process after that, the
\* disconnect reaper if that task could not be created, or the reconciliation
\* of the next daemon.
NoRunForgotten ==
  \A r \in Run : Active(r) =>
    CASE phase = "up" ->
           \/ disp[r] \in {"created", "spawned", "tracked", "failing"}
           \/ r \in tracked /\ (reap[r] \in {"waiting", "exited"} \/ storeFaults > 0)
      [] phase = "reconcile" -> r \in recon.todo
      [] OTHER -> TRUE

\* The handler that finalized a run still has its waiters to notify; only a
\* reaper that was cancelled by a reconnect may leave them unnotified.
SomebodyTells ==
  \A r \in untold :
    \/ report[r] = "notify" \/ reap[r] = "notify" \/ disp[r] = "failNotify"
    \/ \E t \in TaskId : task[t].run = r /\ task[t].pc \in {"kill", "notify"}
    \/ row[r] = "dispatcher_disconnected"

\* Until the daemon crashes no process escapes it: a live runner is one whose
\* handler is about to track it or that the registry holds, so that a cancel, a
\* reaper and the reap task can still find it.
LiveProcessIsTracked ==
  crashes = 0 => \A r \in Run : LeaderAlive(r) => disp[r] = "spawned" \/ r \in tracked

\* While a dispatcher is away its tracked runs are under a pending or working
\* reaper, however often it comes back and goes and whatever the reaper was
\* interrupted at.
AbsentDispatcherIsReaped ==
  \A r \in tracked : Active(r) /\ conn[DispatcherOf[r]] = "off" =>
    LET t == task[DispatcherOf[r]] IN
    \/ t.pc = "grace"
    \/ t.pc \in {"loop", "commit", "kill", "notify"} /\ (r \in t.todo \/ r = t.run)

\* A workspace is force-removed only after its runner has exited, also when a
\* restarted daemon does it for a run it never spawned.
TeardownAfterExit ==
  \A r \in Run : worktree[r] = "removed" => leader[r] = "dead"

\* A runner that is gone, however it died and whatever crashed in between,
\* does not leave its row running (unless its reap task could not be created).
DeadRunIsFinalized ==
  \A r \in Run : (leader[r] = "dead" /\ storeFaults = 0)
                   ~> (row[r] \in Terminal \/ storeFaults > 0)

\* While the daemon lives, the workspace of a runner that is gone is removed.
WorktreeIsReclaimed ==
  \A r \in Run : (leader[r] = "dead" /\ worktree[r] = "present" /\ storeFaults + crashes = 0)
                   ~> (worktree[r] = "removed" \/ storeFaults + crashes > 0)

\* hub-protocol.md: "The daemon enforces one primary active run per dispatchable
\* agent."  create_run checks and inserts in two transactions.
OneActiveRunPerAgent ==
  \A q, r \in Run : Active(q) /\ Active(r) /\ AgentOf[q] = AgentOf[r] => q = r

\* agent-dispatch.md: "cancel_agent stops an agent you dispatched and terminates
\* its process".  Once no handler is busy with a cancelled run, its process is
\* gone or going.
CancelTerminatesProcess ==
  \A r \in Run : /\ row[r] = "cancelled" /\ disp[r] = "done"
                 /\ LeaderAlive(r)
                 /\ \A t \in TaskId : task[t].run # r
                 => r \in signalled

\* hub-protocol.md: "A reconnecting session cancels the pending reaper and
\* reclaims its in-flight agents."  A run of a node that is registered again is
\* not failed for its absence.
ReconnectReclaimsRuns ==
  [][\A r \in Run : conn[DispatcherOf[r]] = "on" /\ Active(r)
                      => row'[r] # "dispatcher_disconnected"]_vars
=============================================================================
