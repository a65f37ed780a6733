------------------------- MODULE RunLifecycleProofs -------------------------
(***************************************************************************)
(* Theorems about RunLifecycle, for every set of runs, agents, nodes and   *)
(* cancel requests and every bound.                                        *)
(***************************************************************************)
EXTENDS RunLifecycle, TLAPS

USE DEF Terminal, Interventions, DispMid, Final

\* A task that has picked a run holds one, a reaper picks from runs and a
\* cancel handler from agents.
TaskShape ==
  /\ \A t \in TaskId : task[t].pc \in {"commit", "kill", "notify"} => task[t].run \in Run
  /\ \A n \in Node : task[n].todo \subseteq Run
  /\ \A c \in CancelReq : task[c].todo \subseteq Agent

TypeInv == TypeOK /\ TaskShape

\* What SetTask leaves behind when its arguments have their types.
LEMMA SetTaskType ==
  ASSUME TypeInv, NEW t \in TaskId,
         NEW pc \in {"idle", "grace", "loop", "commit", "kill", "notify", "done"},
         NEW todo \in SUBSET (Run \cup Agent), NEW run \in Run \cup {NoRun},
         SetTask(t, pc, todo, run),
         pc \in {"commit", "kill", "notify"} => run \in Run,
         t \in Node => todo \subseteq Run,
         t \in CancelReq => todo \subseteq Agent
  PROVE  task' \in [TaskId -> TaskState] /\ TaskShape'
<1>1. task \in [TaskId -> TaskState]
  BY DEF TypeInv, TypeOK
<1>2. [pc |-> pc, todo |-> todo, run |-> run] \in TaskState
  BY DEF TaskState
<1>3. task' = [task EXCEPT ![t] = [pc |-> pc, todo |-> todo, run |-> run]]
  BY DEF SetTask
<1>4. task' \in [TaskId -> TaskState]
  BY <1>1, <1>2, <1>3
<1>5. TaskShape'
  <2>1. \A u \in TaskId : u # t => task'[u] = task[u]
    BY <1>1, <1>3
  <2>2. task'[t].pc = pc /\ task'[t].todo = todo /\ task'[t].run = run
    BY <1>1, <1>3
  <2> QED
    BY <2>1, <2>2 DEF TypeInv, TaskShape, TaskId
<1> QED
  BY <1>4, <1>5

\* SetTask changes the entry of one task.
LEMMA SetTaskElsewhere ==
  ASSUME TypeInv, NEW t \in TaskId, NEW pc, NEW todo, NEW run, SetTask(t, pc, todo, run)
  PROVE  /\ task'[t] = [pc |-> pc, todo |-> todo, run |-> run]
         /\ task'[t].pc = pc /\ task'[t].todo = todo /\ task'[t].run = run
         /\ \A u \in TaskId : u # t => task'[u] = task[u]
BY DEF TypeInv, TypeOK, SetTask

\* A cancelled reaper leaves behind at most the run it was committing.
LEMMA CancelReaperType ==
  ASSUME TypeInv, NEW n \in Node, CancelReaper(n)
  PROVE  orphaned' \subseteq Run
BY DEF TypeInv, TypeOK, TaskShape, TaskId, CancelReaper

\* The daemon starts with every variable in its type.
LEMMA TypeInit == Init => TypeInv
BY ConstantsAssumption
   DEF Init, TypeInv, TypeOK, TaskShape, TaskState, IdleTask, TaskId

\* Every action keeps every variable in its type.
LEMMA TypeStep == TypeInv /\ [Next]_vars => TypeInv'
<1> SUFFICES ASSUME TypeInv, [Next]_vars PROVE TypeInv'
  OBVIOUS
<1> USE ConstantsAssumption
<1> USE DEF storeVars, osVars, dispVars, connVars, downVars, hubAndStoreVars
<1>1. ASSUME NEW r \in Run, DispatchCheck(r) PROVE TypeInv'
  BY <1>1 DEF TypeInv, TypeOK, TaskShape, DispatchCheck, Goto, Active
<1>2. ASSUME NEW r \in Run, DispatchInsert(r) PROVE TypeInv'
  BY <1>2 DEF TypeInv, TypeOK, TaskShape, DispatchInsert, Goto
<1>3. ASSUME NEW r \in Run, SpawnRunner(r) PROVE TypeInv'
  BY <1>3 DEF TypeInv, TypeOK, TaskShape, SpawnRunner, Goto
<1>4. ASSUME NEW r \in Run, MarkSpawnFailed(r) PROVE TypeInv'
  BY <1>4 DEF TypeInv, TypeOK, TaskShape, MarkSpawnFailed, Goto, SetRunResultIfUnset, Active
<1>5. ASSUME NEW r \in Run, SpawnFailedNotify(r) PROVE TypeInv'
  BY <1>5 DEF TypeInv, TypeOK, TaskShape, SpawnFailedNotify, Goto, NotifyRunFinalized
<1>6. ASSUME NEW r \in Run, DispatchTrack(r) PROVE TypeInv'
  BY <1>6 DEF TypeInv, TypeOK, TaskShape, DispatchTrack, Goto
<1>7. ASSUME NEW r \in Run, DispatchRecordGroup(r) PROVE TypeInv'
  BY <1>7 DEF TypeInv, TypeOK, TaskShape, DispatchRecordGroup, Goto
<1>8. ASSUME NEW r \in Run, OrphanCommit(r) PROVE TypeInv'
  BY <1>8 DEF TypeInv, TypeOK, TaskShape, OrphanCommit, SetRunResultIfUnset, Active
<1>9. ASSUME NEW r \in Run, HandleReport(r) PROVE TypeInv'
  BY <1>9 DEF TypeInv, TypeOK, TaskShape, HandleReport, SetRunResultIfUnset, Active, OutcomeOf
<1>10. ASSUME NEW r \in Run, ReportNotify(r) PROVE TypeInv'
  BY <1>10 DEF TypeInv, TypeOK, TaskShape, ReportNotify, NotifyRunFinalized
<1>11. ASSUME NEW r \in Run, ReapExit(r) PROVE TypeInv'
  BY <1>11 DEF TypeInv, TypeOK, TaskShape, ReapExit
<1>12. ASSUME NEW r \in Run, ReapCommit(r) PROVE TypeInv'
  BY <1>12 DEF TypeInv, TypeOK, TaskShape, ReapCommit, SetRunResultIfUnset, Active, OutcomeOf
<1>13. ASSUME NEW r \in Run, ReapNotify(r) PROVE TypeInv'
  BY <1>13 DEF TypeInv, TypeOK, TaskShape, ReapNotify, NotifyRunFinalized
<1>14. ASSUME NEW r \in Run, ReapTeardown(r) PROVE TypeInv'
  BY <1>14 DEF TypeInv, TypeOK, TaskShape, ReapTeardown, RemoveWorktrees
<1>15. ASSUME NEW r \in Run, StartAttempt(r) PROVE TypeInv'
  BY <1>15 DEF TypeInv, TypeOK, TaskShape, StartAttempt
<1>16. ASSUME NEW r \in Run, ChildExits(r) PROVE TypeInv'
  BY <1>16 DEF TypeInv, TypeOK, TaskShape, ChildExits
<1>17. ASSUME NEW r \in Run, RecordFinal(r) PROVE TypeInv'
  BY <1>17 DEF TypeInv, TypeOK, TaskShape, RecordFinal
<1>18. ASSUME NEW r \in Run, SendReport(r) PROVE TypeInv'
  BY <1>18 DEF TypeInv, TypeOK, TaskShape, SendReport
<1>19. ASSUME NEW r \in Run, LeaderExits(r) PROVE TypeInv'
  BY <1>19 DEF TypeInv, TypeOK, TaskShape, LeaderExits, LeaderGone
<1>20. ASSUME NEW r \in Run, LeaderCrashes(r) PROVE TypeInv'
  BY <1>20 DEF TypeInv, TypeOK, TaskShape, LeaderCrashes, LeaderGone
<1>21. ASSUME NEW r \in Run, ReconcileKill(r) PROVE TypeInv'
  BY <1>21 DEF TypeInv, TypeOK, TaskShape, ReconcileKill, Terminate, LeaderAlive
<1>22. ASSUME NEW r \in Run, ReconcileRow(r) PROVE TypeInv'
  BY <1>22 DEF TypeInv, TypeOK, TaskShape, ReconcileRow, RemoveWorktrees, OutcomeOf, Active
<1>23. ASSUME NEW n \in Node, Claim(n) PROVE TypeInv'
  BY <1>23 DEF TypeInv, TypeOK, TaskShape, Claim
<1>24. ASSUME Restart PROVE TypeInv'
  BY <1>24 DEF TypeInv, TypeOK, TaskShape, Restart, Active
<1>25. ASSUME ReconcileTerminal PROVE TypeInv'
  BY <1>25 DEF TypeInv, TypeOK, TaskShape, ReconcileTerminal, RemoveWorktrees
<1>26. ASSUME NEW r \in Run, DispatchRecordGroupFails(r) PROVE TypeInv'
  <2>1. task' \in [TaskId -> TaskState] /\ TaskShape'
    BY <1>26, SetTaskType DEF TypeInv, TypeOK, TaskShape, TaskId, DispatchRecordGroupFails
  <2>2. orphaned' \subseteq Run
    BY <1>26, CancelReaperType DEF DispatchRecordGroupFails
  <2> QED
    BY <1>26, <2>1, <2>2 DEF TypeInv, TypeOK, TaskShape, DispatchRecordGroupFails, Goto
<1>27. ASSUME NEW n \in Node, Disconnect(n) PROVE TypeInv'
  <2>1. task' \in [TaskId -> TaskState] /\ TaskShape'
    BY <1>27, SetTaskType DEF TypeInv, TypeOK, TaskShape, TaskId, Disconnect
  <2>2. orphaned' \subseteq Run
    BY <1>27, CancelReaperType DEF Disconnect
  <2> QED
    BY <1>27, <2>1, <2>2 DEF TypeInv, TypeOK, TaskShape, Disconnect
<1>28. ASSUME NEW n \in Node, Registered(n) PROVE TypeInv'
  <2>1. task' \in [TaskId -> TaskState] /\ TaskShape'
    BY <1>28, SetTaskType DEF TypeInv, TypeOK, TaskShape, TaskId, Registered
  <2>2. orphaned' \subseteq Run
    BY <1>28, CancelReaperType DEF Registered
  <2> QED
    BY <1>28, <2>1, <2>2 DEF TypeInv, TypeOK, TaskShape, Registered
<1>29. ASSUME NEW n \in Node, ReaperWake(n) PROVE TypeInv'
  <2>1. task' \in [TaskId -> TaskState] /\ TaskShape'
    BY <1>29, SetTaskType DEF TypeInv, TypeOK, TaskShape, TaskId, ReaperWake
  <2> QED
    BY <1>29, <2>1 DEF TypeInv, TypeOK, TaskShape, ReaperWake
<1>30. ASSUME NEW n \in Node, ReaperNext(n) PROVE TypeInv'
  <2>1. task' \in [TaskId -> TaskState] /\ TaskShape'
    BY <1>30, SetTaskType DEF TypeInv, TypeOK, TaskShape, TaskId, ReaperNext
  <2> QED
    BY <1>30, <2>1 DEF TypeInv, TypeOK, TaskShape, ReaperNext
<1>31. ASSUME NEW c \in CancelReq, CancelStart(c) PROVE TypeInv'
  <2>1. task' \in [TaskId -> TaskState] /\ TaskShape'
    BY <1>31, SetTaskType DEF TypeInv, TypeOK, TaskShape, TaskId, CancelStart
  <2> QED
    BY <1>31, <2>1 DEF TypeInv, TypeOK, TaskShape, CancelStart
<1>32. ASSUME NEW c \in CancelReq, CancelNext(c) PROVE TypeInv'
  <2>1. task' \in [TaskId -> TaskState] /\ TaskShape'
    <3>1. CASE task[c].todo = {}
      BY <1>32, <3>1, SetTaskType DEF TaskId, CancelNext
    <3>2. CASE task[c].todo # {}
      <4>1. PICK a \in task[c].todo :
              SetTask(c, IF currentRun[a] = NoRun THEN "loop" ELSE "commit",
                      task[c].todo \ {a}, currentRun[a])
        BY <1>32, <3>2 DEF CancelNext
      <4>2. a \in Agent /\ currentRun[a] \in Run \cup {NoRun} /\ task[c].todo \subseteq Agent
        BY DEF TypeInv, TypeOK, TaskShape
      <4>3. c \in TaskId /\ c \notin Node
        BY DEF TaskId
      <4>4. CASE currentRun[a] = NoRun
        <5>1. SetTask(c, "loop", task[c].todo \ {a}, NoRun)
          BY <4>1, <4>4
        <5> QED
          BY <4>2, <4>3, <5>1, SetTaskType
      <4>5. CASE currentRun[a] # NoRun
        <5>1. SetTask(c, "commit", task[c].todo \ {a}, currentRun[a])
          BY <4>1, <4>5
        <5> QED
          BY <4>2, <4>3, <4>5, <5>1, SetTaskType
      <4> QED
        BY <4>4, <4>5
    <3> QED
      BY <3>1, <3>2
  <2> QED
    BY <1>32, <2>1 DEF TypeInv, TypeOK, TaskShape, CancelNext
<1>33. ASSUME NEW t \in TaskId, TaskCommit(t) PROVE TypeInv'
  <2>1. task' \in [TaskId -> TaskState] /\ TaskShape'
    <3>1. /\ task[t].run \in Run
          /\ task[t].todo \in SUBSET (Run \cup Agent)
          /\ t \in Node => task[t].todo \subseteq Run
          /\ t \in CancelReq => task[t].todo \subseteq Agent
      BY <1>33 DEF TypeInv, TypeOK, TaskShape, TaskState, TaskCommit
    <3>2. SetTask(t, IF Active(task[t].run) THEN "kill" ELSE "loop", task[t].todo, task[t].run)
      BY <1>33 DEF TaskCommit
    <3> QED
      BY <3>1, <3>2, SetTaskType
  <2> QED
    BY <1>33, <2>1 DEF TypeInv, TypeOK, TaskShape, TaskCommit, SetRunResultIfUnset, Active
<1>34. ASSUME NEW t \in TaskId, TaskKill(t) PROVE TypeInv'
  <2>1. task' \in [TaskId -> TaskState] /\ TaskShape'
    <3>1. /\ task[t].run \in Run
          /\ task[t].todo \in SUBSET (Run \cup Agent)
          /\ t \in Node => task[t].todo \subseteq Run
          /\ t \in CancelReq => task[t].todo \subseteq Agent
      BY <1>34 DEF TypeInv, TypeOK, TaskShape, TaskState, TaskKill
    <3>2. SetTask(t, "notify", task[t].todo, task[t].run)
      BY <1>34 DEF TaskKill
    <3> QED
      BY <3>1, <3>2, SetTaskType
  <2> QED
    BY <1>34, <2>1 DEF TypeInv, TypeOK, TaskShape, TaskKill, Terminate, LeaderAlive
<1>35. ASSUME NEW t \in TaskId, TaskNotify(t) PROVE TypeInv'
  <2>1. task' \in [TaskId -> TaskState] /\ TaskShape'
    BY <1>35, SetTaskType DEF TypeInv, TypeOK, TaskShape, TaskId, TaskNotify
  <2> QED
    BY <1>35, <2>1 DEF TypeInv, TypeOK, TaskShape, TaskNotify, NotifyRunFinalized
<1>36. ASSUME Crash PROVE TypeInv'
  <2>1. task' \in [TaskId -> TaskState] /\ TaskShape'
    <3>1. \A t \in TaskId : /\ task'[t] \in {IdleTask, [IdleTask EXCEPT !.pc = "done"]}
                            /\ task' = [u \in TaskId |-> task'[u]]
      BY <1>36 DEF Crash
    <3>2. \A s \in {IdleTask, [IdleTask EXCEPT !.pc = "done"]} :
            s \in TaskState /\ s.pc \in {"idle", "done"} /\ s.todo = {}
      BY DEF TaskState, IdleTask
    <3>3. task' \in [TaskId -> TaskState]
      BY <1>36, <3>2 DEF Crash
    <3> QED
      BY <3>1, <3>2, <3>3 DEF TaskShape, TaskId
  <2> QED
    BY <1>36, <2>1 DEF TypeInv, TypeOK, Crash
<1>37. CASE UNCHANGED vars
  BY <1>37 DEF TypeInv, TypeOK, TaskShape, vars
<1>38. QED
  BY <1>1, <1>2, <1>3, <1>4, <1>5, <1>6, <1>7, <1>8, <1>9, <1>10, <1>11, <1>12, <1>13, <1>14, <1>15, <1>16, <1>17, <1>18, <1>19, <1>20, <1>21, <1>22, <1>23, <1>24, <1>25, <1>26, <1>27, <1>28, <1>29, <1>30, <1>31, <1>32, <1>33, <1>34, <1>35, <1>36, <1>37
  DEF Next, HubStep, RunnerStep, ReconcileStep, ReaperStep, TaskStep

-----------------------------------------------------------------------------
\* The inductive invariant.

\* Where the dispatch handler is tells whether the row and the process exist.
DispatchShape(r) ==
  /\ disp[r] \in {"idle", "checked", "rejected"} => row[r] = "absent"
  /\ row[r] = "absent" => disp[r] \in {"idle", "checked", "rejected", "done"}
  /\ row[r] = "absent" \/ disp[r] \in {"created", "failing", "failNotify"}
       => leader[r] = "none"
  /\ disp[r] \in {"spawned", "tracked"} => leader[r] # "none"
  /\ disp[r] \in DispMid => reap[r] = "none"
  /\ disp[r] = "tracked" => r \in tracked
  /\ disp[r] = "failNotify" => row[r] \in Terminal

\* What is known of a run whose process never started, and when the record of
\* its result is written.
RecordShape(r) ==
  /\ leader[r] = "none" => /\ reap[r] = "none" /\ r \notin tracked /\ report[r] = "none"
                           /\ sidecar[r] = "none"
  /\ leader[r] \in {"starting", "attempt1", "attempt2"} => sidecar[r] = "none"
  /\ leader[r] \in {"final", "reported"} => sidecar[r] # "none"
  /\ report[r] # "none" => sidecar[r] # "none" /\ leader[r] \in {"reported", "dead"}

\* The task waiting for the process moves on when it is dead, and finishes
\* with the row finalized.
ReapShape(r) ==
  /\ reap[r] \notin {"none", "waiting"} => leader[r] = "dead"
  /\ reap[r] \in {"notify", "teardown", "done"} => row[r] \in Terminal

\* No handler is suspended in a daemon that is down or reconciling.
DownShape == phase # "up" => \A r \in Run : disp[r] \notin DispMid

RunInv == /\ \A r \in Run : DispatchShape(r) /\ RecordShape(r) /\ ReapShape(r)
          /\ DownShape

\* A reaper works on runs that exist; a reaper or cancel handler that is about
\* to kill or notify won the row; a run whose waiters are untold is finalized.
TaskInv ==
  /\ \A n \in Node : \A r \in task[n].todo : row[r] # "absent"
  /\ \A n \in Node : task[n].pc = "commit" => row[task[n].run] # "absent"
  /\ \A t \in TaskId : task[t].pc \in {"kill", "notify"} => row[task[t].run] \in Terminal
  /\ \A n \in Node : task[n].pc \in {"kill", "notify"}
                       => row[task[n].run] = "dispatcher_disconnected"
  /\ \A n \in Node : task[n].pc = "loop" /\ task[n].run # NoRun
                       => row[task[n].run] \in Terminal
  /\ \A r \in untold : row[r] \in Terminal

\* A dispatch handler is suspended on a socket that is open, one per socket.
SocketInv ==
  /\ \A r \in Run : disp[r] \in DispMid => conn[DispatcherOf[r]] = "on"
  /\ \A q, r \in Run :
       disp[q] \in DispMid /\ disp[r] \in DispMid /\ DispatcherOf[q] = DispatcherOf[r]
         => q = r

\* Every action keeps the shape of every run.
LEMMA RunStep ==
  TypeInv /\ RunInv /\ [Next]_vars => RunInv'
<1> SUFFICES ASSUME TypeInv, RunInv, [Next]_vars
             PROVE  RunInv'
  OBVIOUS
<1> USE ConstantsAssumption
<1> USE DEF storeVars, osVars, dispVars, connVars, downVars, hubAndStoreVars
<1> USE DEF TypeInv, TypeOK, TaskShape, RunInv, DispatchShape, RecordShape, ReapShape, DownShape
<1>1. ASSUME NEW r \in Run, DispatchCheck(r) PROVE RunInv'
  BY <1>1 DEF DispatchCheck, Goto, Active
<1>2. ASSUME NEW r \in Run, DispatchInsert(r) PROVE RunInv'
  BY <1>2 DEF DispatchInsert, Goto
<1>3. ASSUME NEW r \in Run, SpawnRunner(r) PROVE RunInv'
  BY <1>3 DEF SpawnRunner, Goto
<1>4. ASSUME NEW r \in Run, MarkSpawnFailed(r) PROVE RunInv'
  BY <1>4 DEF MarkSpawnFailed, Goto, SetRunResultIfUnset, Active
<1>5. ASSUME NEW r \in Run, SpawnFailedNotify(r) PROVE RunInv'
  BY <1>5 DEF SpawnFailedNotify, Goto, NotifyRunFinalized
<1>6. ASSUME NEW r \in Run, DispatchTrack(r) PROVE RunInv'
  BY <1>6 DEF DispatchTrack, Goto
<1>7. ASSUME NEW r \in Run, DispatchRecordGroup(r) PROVE RunInv'
  BY <1>7 DEF DispatchRecordGroup, Goto
<1>8. ASSUME NEW r \in Run, DispatchRecordGroupFails(r) PROVE RunInv'
  BY <1>8 DEF DispatchRecordGroupFails, Goto, CancelReaper, SetTask, TaskId
<1>9. ASSUME NEW r \in Run, OrphanCommit(r) PROVE RunInv'
  BY <1>9 DEF OrphanCommit, SetRunResultIfUnset, Active
<1>10. ASSUME NEW r \in Run, HandleReport(r) PROVE RunInv'
  BY <1>10 DEF HandleReport, SetRunResultIfUnset, Active, OutcomeOf
<1>11. ASSUME NEW r \in Run, ReportNotify(r) PROVE RunInv'
  BY <1>11 DEF ReportNotify, NotifyRunFinalized
<1>12. ASSUME NEW r \in Run, ReapExit(r) PROVE RunInv'
  BY <1>12 DEF ReapExit
<1>13. ASSUME NEW r \in Run, ReapCommit(r) PROVE RunInv'
  BY <1>13 DEF ReapCommit, SetRunResultIfUnset, Active, OutcomeOf
<1>14. ASSUME NEW r \in Run, ReapNotify(r) PROVE RunInv'
  BY <1>14 DEF ReapNotify, NotifyRunFinalized
<1>15. ASSUME NEW r \in Run, ReapTeardown(r) PROVE RunInv'
  BY <1>15 DEF ReapTeardown, RemoveWorktrees
<1>16. ASSUME NEW r \in Run, StartAttempt(r) PROVE RunInv'
  BY <1>16 DEF StartAttempt
<1>17. ASSUME NEW r \in Run, RecordFinal(r) PROVE RunInv'
  BY <1>17 DEF RecordFinal
<1>18. ASSUME NEW r \in Run, SendReport(r) PROVE RunInv'
  BY <1>18 DEF SendReport
<1>19. ASSUME NEW r \in Run, LeaderExits(r) PROVE RunInv'
  BY <1>19 DEF LeaderExits, LeaderGone, LeaderAlive
<1>20. ASSUME NEW r \in Run, LeaderCrashes(r) PROVE RunInv'
  BY <1>20 DEF LeaderCrashes, LeaderGone, LeaderAlive
<1>21. ASSUME NEW r \in Run, ReconcileRow(r) PROVE RunInv'
  BY <1>21 DEF ReconcileRow, RemoveWorktrees, OutcomeOf, Active
<1>22. ASSUME NEW t \in TaskId, TaskCommit(t) PROVE RunInv'
  BY <1>22 DEF TaskCommit, SetRunResultIfUnset, Active, SetTask, TaskId
<1>23. ASSUME Crash PROVE RunInv'
  BY <1>23 DEF Crash, IdleTask, TaskId
<1>24. ASSUME Restart PROVE RunInv'
  BY <1>24 DEF Restart, Active
<1>25. ASSUME ReconcileTerminal PROVE RunInv'
  BY <1>25 DEF ReconcileTerminal, RemoveWorktrees
<1>26. ASSUME NEW r \in Run, ChildExits(r) \/ ReconcileKill(r)
      PROVE  UNCHANGED <<row, disp, leader, reap, tracked, report, sidecar, phase>>
  BY <1>26 DEF ChildExits, ReconcileKill
<1>27. ASSUME NEW n \in Node, Disconnect(n) \/ Claim(n) \/ Registered(n) \/ ReaperWake(n) \/
            ReaperNext(n)
      PROVE  UNCHANGED <<row, disp, leader, reap, tracked, report, sidecar, phase>>
  BY <1>27 DEF Disconnect, Claim, Registered, ReaperWake, ReaperNext
<1>28. ASSUME NEW c \in CancelReq, CancelStart(c) \/ CancelNext(c)
      PROVE  UNCHANGED <<row, disp, leader, reap, tracked, report, sidecar, phase>>
  BY <1>28 DEF CancelStart, CancelNext
<1>29. ASSUME NEW t \in TaskId, TaskKill(t) \/ TaskNotify(t)
      PROVE  UNCHANGED <<row, disp, leader, reap, tracked, report, sidecar, phase>>
  BY <1>29 DEF TaskKill, TaskNotify
<1>30. ASSUME UNCHANGED vars
      PROVE  UNCHANGED <<row, disp, leader, reap, tracked, report, sidecar, phase>>
  BY <1>30 DEF vars
<1>31. UNCHANGED <<row, disp, leader, reap, tracked, report, sidecar, phase>> => RunInv'
  OBVIOUS
<1>32. QED
  BY <1>1, <1>2, <1>3, <1>4, <1>5, <1>6, <1>7, <1>8, <1>9, <1>10, <1>11, <1>12, <1>13, <1>14,
     <1>15, <1>16, <1>17, <1>18, <1>19, <1>20, <1>21, <1>22, <1>23, <1>24, <1>25, <1>26, <1>27,
     <1>28, <1>29, <1>30, <1>31
  DEF Next, HubStep, RunnerStep, ReconcileStep, ReaperStep, TaskStep

\* The reapers and cancel handlers keep hold of runs that exist.
LEMMA TaskInvStep ==
  TypeInv /\ RunInv /\ TaskInv /\ [Next]_vars => TaskInv'
<1> SUFFICES ASSUME TypeInv, RunInv, TaskInv, [Next]_vars
             PROVE  TaskInv'
  OBVIOUS
<1> USE ConstantsAssumption
<1> USE DEF storeVars, osVars, dispVars, connVars, downVars, hubAndStoreVars
<1> USE DEF TaskInv
<1>a. \A r \in Run : row[r] = "absent" => r \notin tracked
  BY DEF RunInv, DispatchShape, RecordShape
<1>b. \A r \in Run : disp[r] = "checked" => row[r] = "absent"
  BY DEF RunInv, DispatchShape
<1>c. /\ row \in [Run -> {"absent", "running"} \cup Terminal] /\ task \in [TaskId -> TaskState]
      /\ tracked \subseteq Run /\ untold \subseteq Run /\ orphaned \subseteq Run
      /\ \A t \in TaskId : task[t].pc \in {"commit", "kill", "notify"} => task[t].run \in Run
      /\ \A n \in Node : task[n].todo \subseteq Run
  BY DEF TypeInv, TypeOK, TaskShape
<1> USE <1>a, <1>b, <1>c
<1>1. ASSUME NEW r \in Run, DispatchInsert(r) PROVE TaskInv'
  BY <1>1 DEF DispatchInsert, Goto
<1>2. ASSUME NEW r \in Run, MarkSpawnFailed(r) PROVE TaskInv'
  BY <1>2 DEF MarkSpawnFailed, Goto, SetRunResultIfUnset, Active
<1>3. ASSUME NEW r \in Run, SpawnFailedNotify(r) PROVE TaskInv'
  BY <1>3 DEF SpawnFailedNotify, Goto, NotifyRunFinalized
<1>4. ASSUME NEW r \in Run, DispatchTrack(r) PROVE TaskInv'
  BY <1>4 DEF DispatchTrack, Goto
<1>5. ASSUME NEW r \in Run, DispatchRecordGroupFails(r) PROVE TaskInv'
  BY <1>5 DEF DispatchRecordGroupFails, Goto, CancelReaper, SetTask, TaskId
<1>6. ASSUME NEW r \in Run, OrphanCommit(r) PROVE TaskInv'
  BY <1>6 DEF OrphanCommit, SetRunResultIfUnset, Active
<1>7. ASSUME NEW r \in Run, HandleReport(r) PROVE TaskInv'
  BY <1>7 DEF HandleReport, SetRunResultIfUnset, Active, OutcomeOf
<1>8. ASSUME NEW r \in Run, ReportNotify(r) PROVE TaskInv'
  BY <1>8 DEF ReportNotify, NotifyRunFinalized
<1>9. ASSUME NEW r \in Run, ReapCommit(r) PROVE TaskInv'
  BY <1>9 DEF ReapCommit, SetRunResultIfUnset, Active, OutcomeOf
<1>10. ASSUME NEW r \in Run, ReapNotify(r) PROVE TaskInv'
  BY <1>10 DEF ReapNotify, NotifyRunFinalized
<1>11. ASSUME NEW r \in Run, ReconcileRow(r) PROVE TaskInv'
  BY <1>11 DEF ReconcileRow, RemoveWorktrees, OutcomeOf, Active
<1>12. ASSUME NEW n \in Node, Disconnect(n) PROVE TaskInv'
  BY <1>12 DEF Disconnect, CancelReaper, SetTask, TaskId
<1>13. ASSUME NEW n \in Node, Registered(n) PROVE TaskInv'
  BY <1>13 DEF Registered, CancelReaper, SetTask, TaskId, IdleTask
<1>14. ASSUME NEW n \in Node, ReaperWake(n) PROVE TaskInv'
  <2>1. /\ task'[n].pc \in {"idle", "loop"} /\ task'[n].run = NoRun
        /\ task'[n].todo \subseteq tracked
        /\ \A u \in TaskId : u # n => task'[u] = task[u]
    BY <1>14 DEF ReaperWake, SetTask, TaskId
  <2>2. n \in TaskId /\ UNCHANGED <<row, untold>>
    BY <1>14 DEF ReaperWake, TaskId
  <2>3. \A r \in tracked : row[r] # "absent"
    OBVIOUS
  <2>4. \A m \in Node : m # n => task'[m] = task[m]
    BY <2>1 DEF TaskId
  <2>5. \A t \in TaskId : task'[t].pc \in {"kill", "notify"} => task'[t] = task[t]
    BY <2>1
  <2> QED
    BY <2>1, <2>2, <2>3, <2>4, <2>5
<1>15. ASSUME NEW n \in Node, ReaperNext(n) PROVE TaskInv'
  <2>1. \/ SetTask(n, "idle", {}, NoRun)
        \/ \E r \in task[n].todo : SetTask(n, "commit", task[n].todo \ {r}, r)
    BY <1>15 DEF ReaperNext
  <2>2. /\ \/ task'[n].pc = "idle"
           \/ task'[n].pc = "commit" /\ task'[n].run \in task[n].todo
        /\ task'[n].todo \subseteq task[n].todo
    BY <2>1 DEF SetTask, TaskId
  <2>3. \A u \in TaskId : u # n => task'[u] = task[u]
    BY <2>1 DEF SetTask, TaskId
  <2>4. n \in TaskId /\ UNCHANGED <<row, untold>>
    BY <1>15 DEF ReaperNext, TaskId
  <2>5. \A m \in Node : m # n => task'[m] = task[m]
    BY <2>3 DEF TaskId
  <2>6. \A t \in TaskId : task'[t].pc \in {"kill", "notify"} => task'[t] = task[t]
    BY <2>2, <2>3
  <2> QED
    BY <2>2, <2>4, <2>5, <2>6
<1>16. ASSUME NEW c \in CancelReq, CancelStart(c) PROVE TaskInv'
  BY <1>16 DEF CancelStart, SetTask, TaskId
<1>17. ASSUME NEW c \in CancelReq, CancelNext(c) PROVE TaskInv'
  <2>1. task'[c].pc \in {"done", "loop", "commit"}
    BY <1>17 DEF CancelNext, SetTask, TaskId
  <2>2. \A u \in TaskId : u # c => task'[u] = task[u]
    BY <1>17 DEF CancelNext, SetTask, TaskId
  <2>3. c \notin Node /\ UNCHANGED <<row, untold>>
    BY <1>17 DEF CancelNext
  <2>4. \A n \in Node : task'[n] = task[n]
    BY <2>2, <2>3 DEF TaskId
  <2>5. \A t \in TaskId : task'[t].pc \in {"kill", "notify"} => task'[t] = task[t]
    BY <2>1, <2>2
  <2> QED
    BY <2>3, <2>4, <2>5 DEF TaskId
<1>18. ASSUME NEW t \in TaskId, TaskCommit(t) PROVE TaskInv'
  <2> DEFINE r == task[t].run
  <2>1. /\ r \in Run
        /\ \A q \in Run : q # r => row'[q] = row[q]
        /\ row'[r] = IF Active(r) THEN IF t \in Node THEN "dispatcher_disconnected"
                                                       ELSE "cancelled"
                                  ELSE row[r]
        /\ untold' = IF Active(r) THEN untold \cup {r} ELSE untold
    BY <1>18 DEF TaskCommit, SetRunResultIfUnset
  <2>2. /\ task'[t].run = r /\ task'[t].todo = task[t].todo
        /\ task'[t].pc = IF Active(r) THEN "kill" ELSE "loop"
        /\ \A u \in TaskId : u # t => task'[u] = task[u]
    BY <1>18 DEF TaskCommit, SetTask
  <2>3. task[t].pc = "commit" /\ row[r] \in {"absent", "running"} \cup Terminal
    BY <1>18, <2>1 DEF TaskCommit
  <2>4. \A q \in Run : /\ row[q] \in Terminal => row'[q] = row[q]
                       /\ row[q] # "absent" => row'[q] # "absent"
    BY <2>1 DEF Active
  <2>5. \A u \in TaskId : task[u].pc \in {"kill", "notify"} => task[u].run \in Run
    OBVIOUS
  <2>6. \A q \in untold' : row'[q] \in Terminal
    BY <2>1, <2>4 DEF Active
  <2>7. \A n \in Node : \A q \in task'[n].todo : row'[q] # "absent"
    <3>1. \A n \in Node : task'[n].todo = task[n].todo /\ task[n].todo \subseteq Run
      BY <2>2 DEF TaskId
    <3> QED
      BY <2>4, <3>1
  <2>8. t \in Node => row[r] # "absent"
    BY <2>3
  <2>9. \A u \in TaskId : u # t =>
           /\ task'[u].pc \in {"kill", "notify"} => row'[task'[u].run] \in Terminal
           /\ u \in Node /\ task'[u].pc \in {"kill", "notify"}
                => row'[task'[u].run] = "dispatcher_disconnected"
           /\ u \in Node /\ task'[u].pc = "commit" => row'[task'[u].run] # "absent"
           /\ u \in Node /\ task'[u].pc = "loop" /\ task'[u].run # NoRun
                => row'[task'[u].run] \in Terminal
    <3> SUFFICES ASSUME NEW u \in TaskId, u # t
                 PROVE  /\ task[u].pc \in {"kill", "notify"} => row'[task[u].run] \in Terminal
                        /\ u \in Node /\ task[u].pc \in {"kill", "notify"}
                             => row'[task[u].run] = "dispatcher_disconnected"
                        /\ u \in Node /\ task[u].pc = "commit" => row'[task[u].run] # "absent"
                        /\ u \in Node /\ task[u].pc = "loop" /\ task[u].run # NoRun
                             => row'[task[u].run] \in Terminal
      BY <2>2
    <3>1. task[u].run \in Run \cup {NoRun}
      BY DEF TaskState
    <3> QED
      BY <2>4, <2>5, <3>1
  <2>10. /\ task'[t].pc \in {"kill", "notify"} =>
              row'[r] = IF t \in Node THEN "dispatcher_disconnected" ELSE "cancelled"
         /\ task'[t].pc # "commit"
         /\ t \in Node /\ task'[t].pc = "loop" => row'[r] \in Terminal
    BY <2>1, <2>2, <2>3, <2>8 DEF Active
  <2> QED
    BY <2>2, <2>6, <2>7, <2>9, <2>10 DEF TaskId
<1>19. ASSUME NEW t \in TaskId, TaskKill(t) PROVE TaskInv'
  BY <1>19 DEF TaskKill, Terminate, LeaderAlive, SetTask, TaskId
<1>20. ASSUME NEW t \in TaskId, TaskNotify(t) PROVE TaskInv'
  BY <1>20 DEF TaskNotify, NotifyRunFinalized, SetTask, TaskId
<1>21. ASSUME Crash PROVE TaskInv'
  BY <1>21 DEF Crash, IdleTask, TaskId
<1>22. ASSUME NEW r \in Run, DispatchCheck(r) \/ SpawnRunner(r) \/ DispatchRecordGroup(r) \/
            ReapExit(r) \/ ReapTeardown(r) \/ StartAttempt(r) \/ ChildExits(r) \/ RecordFinal(r)
            \/ SendReport(r) \/ LeaderExits(r) \/ LeaderCrashes(r) \/ ReconcileKill(r)
      PROVE  UNCHANGED <<row, task, untold, tracked>>
  BY <1>22 DEF DispatchCheck, SpawnRunner, DispatchRecordGroup, ReapExit, ReapTeardown,
     StartAttempt, ChildExits, RecordFinal, SendReport, LeaderExits, LeaderCrashes,
     ReconcileKill, LeaderGone
<1>23. ASSUME NEW n \in Node, Claim(n)
      PROVE  UNCHANGED <<row, task, untold, tracked>>
  BY <1>23 DEF Claim
<1>24. ASSUME Restart \/ ReconcileTerminal \/ UNCHANGED vars
      PROVE  UNCHANGED <<row, task, untold, tracked>>
  BY <1>24 DEF Restart, ReconcileTerminal, vars
<1>25. UNCHANGED <<row, task, untold, tracked>> => TaskInv'
  OBVIOUS
<1>26. QED
  BY <1>1, <1>2, <1>3, <1>4, <1>5, <1>6, <1>7, <1>8, <1>9, <1>10, <1>11, <1>12, <1>13, <1>14,
     <1>15, <1>16, <1>17, <1>18, <1>19, <1>20, <1>21, <1>22, <1>23, <1>24, <1>25
  DEF Next, HubStep, RunnerStep, ReconcileStep, ReaperStep, TaskStep

\* Handlers stay on open sockets, one per socket.
LEMMA SocketStep ==
  TypeInv /\ SocketInv /\ [Next]_vars => SocketInv'
<1> SUFFICES ASSUME TypeInv, SocketInv, [Next]_vars
             PROVE  SocketInv'
  OBVIOUS
<1> USE ConstantsAssumption
<1> USE DEF storeVars, osVars, dispVars, connVars, downVars, hubAndStoreVars
<1> USE DEF TypeInv, TypeOK, TaskShape, SocketInv
<1>1. ASSUME NEW r \in Run, DispatchCheck(r) PROVE SocketInv'
  BY <1>1 DEF DispatchCheck, Goto, Active, LoopBusy
<1>2. ASSUME NEW r \in Run, DispatchInsert(r) PROVE SocketInv'
  BY <1>2 DEF DispatchInsert, Goto
<1>3. ASSUME NEW r \in Run, SpawnRunner(r) PROVE SocketInv'
  BY <1>3 DEF SpawnRunner, Goto
<1>4. ASSUME NEW r \in Run, MarkSpawnFailed(r) PROVE SocketInv'
  BY <1>4 DEF MarkSpawnFailed, Goto, SetRunResultIfUnset, Active
<1>5. ASSUME NEW r \in Run, SpawnFailedNotify(r) PROVE SocketInv'
  BY <1>5 DEF SpawnFailedNotify, Goto, NotifyRunFinalized
<1>6. ASSUME NEW r \in Run, DispatchTrack(r) PROVE SocketInv'
  BY <1>6 DEF DispatchTrack, Goto
<1>7. ASSUME NEW r \in Run, DispatchRecordGroup(r) PROVE SocketInv'
  BY <1>7 DEF DispatchRecordGroup, Goto
<1>8. ASSUME NEW r \in Run, DispatchRecordGroupFails(r) PROVE SocketInv'
  BY <1>8 DEF DispatchRecordGroupFails, Goto, CancelReaper, SetTask, TaskId
<1>9. ASSUME NEW n \in Node, Disconnect(n) PROVE SocketInv'
  BY <1>9 DEF Disconnect, CancelReaper, SetTask, TaskId, LoopBusy
<1>10. ASSUME NEW n \in Node, Claim(n) PROVE SocketInv'
  BY <1>10 DEF Claim
<1>11. ASSUME NEW n \in Node, Registered(n) PROVE SocketInv'
  BY <1>11 DEF Registered, CancelReaper, SetTask, TaskId, IdleTask
<1>12. ASSUME Crash PROVE SocketInv'
  BY <1>12 DEF Crash, IdleTask, TaskId
<1>13. ASSUME NEW r \in Run, OrphanCommit(r) \/ HandleReport(r) \/ ReportNotify(r) \/
            ReapExit(r) \/ ReapCommit(r) \/ ReapNotify(r) \/ ReapTeardown(r) \/ StartAttempt(r)
            \/ ChildExits(r) \/ RecordFinal(r) \/ SendReport(r) \/ LeaderExits(r) \/
            LeaderCrashes(r) \/ ReconcileKill(r) \/ ReconcileRow(r)
      PROVE  UNCHANGED <<disp, conn>>
  BY <1>13 DEF OrphanCommit, HandleReport, ReportNotify, ReapExit, ReapCommit, ReapNotify,
     ReapTeardown, StartAttempt, ChildExits, RecordFinal, SendReport, LeaderExits,
     LeaderCrashes, ReconcileKill, ReconcileRow, LeaderGone
<1>14. ASSUME NEW n \in Node, ReaperWake(n) \/ ReaperNext(n)
      PROVE  UNCHANGED <<disp, conn>>
  BY <1>14 DEF ReaperWake, ReaperNext
<1>15. ASSUME NEW c \in CancelReq, CancelStart(c) \/ CancelNext(c)
      PROVE  UNCHANGED <<disp, conn>>
  BY <1>15 DEF CancelStart, CancelNext
<1>16. ASSUME NEW t \in TaskId, TaskCommit(t) \/ TaskKill(t) \/ TaskNotify(t)
      PROVE  UNCHANGED <<disp, conn>>
  BY <1>16 DEF TaskCommit, TaskKill, TaskNotify
<1>17. ASSUME Restart \/ ReconcileTerminal \/ UNCHANGED vars
      PROVE  UNCHANGED <<disp, conn>>
  BY <1>17 DEF Restart, ReconcileTerminal, vars
<1>18. UNCHANGED <<disp, conn>> => SocketInv'
  OBVIOUS
<1>19. QED
  BY <1>1, <1>2, <1>3, <1>4, <1>5, <1>6, <1>7, <1>8, <1>9, <1>10, <1>11, <1>12, <1>13, <1>14,
     <1>15, <1>16, <1>17, <1>18
  DEF Next, HubStep, RunnerStep, ReconcileStep, ReaperStep, TaskStep

-----------------------------------------------------------------------------
\* Each property of the runs, given the invariant.

\* Only who finalizes a run lets go of it.
LEMMA NoRunForgottenStep ==
  TypeInv /\ RunInv /\ NoRunForgotten /\ [Next]_vars => NoRunForgotten'
<1> SUFFICES ASSUME TypeInv, RunInv, NoRunForgotten, [Next]_vars
             PROVE  NoRunForgotten'
  OBVIOUS
<1> USE ConstantsAssumption
<1> USE DEF storeVars, osVars, dispVars, connVars, downVars, hubAndStoreVars
<1> USE DEF TypeInv, TypeOK, TaskShape, RunInv, DispatchShape, RecordShape, ReapShape,
            DownShape, NoRunForgotten, Active
<1>1. ASSUME NEW r \in Run, DispatchCheck(r) PROVE NoRunForgotten'
  BY <1>1 DEF DispatchCheck, Goto, Active
<1>2. ASSUME NEW r \in Run, DispatchInsert(r) PROVE NoRunForgotten'
  BY <1>2 DEF DispatchInsert, Goto
<1>3. ASSUME NEW r \in Run, SpawnRunner(r) PROVE NoRunForgotten'
  BY <1>3 DEF SpawnRunner, Goto
<1>4. ASSUME NEW r \in Run, MarkSpawnFailed(r) PROVE NoRunForgotten'
  BY <1>4 DEF MarkSpawnFailed, Goto, SetRunResultIfUnset, Active
<1>5. ASSUME NEW r \in Run, SpawnFailedNotify(r) PROVE NoRunForgotten'
  BY <1>5 DEF SpawnFailedNotify, Goto, NotifyRunFinalized
<1>6. ASSUME NEW r \in Run, DispatchTrack(r) PROVE NoRunForgotten'
  BY <1>6 DEF DispatchTrack, Goto
<1>7. ASSUME NEW r \in Run, DispatchRecordGroup(r) PROVE NoRunForgotten'
  BY <1>7 DEF DispatchRecordGroup, Goto
<1>8. ASSUME NEW r \in Run, DispatchRecordGroupFails(r) PROVE NoRunForgotten'
  BY <1>8 DEF DispatchRecordGroupFails, Goto, CancelReaper, SetTask, TaskId
<1>9. ASSUME NEW r \in Run, OrphanCommit(r) PROVE NoRunForgotten'
  BY <1>9 DEF OrphanCommit, SetRunResultIfUnset, Active
<1>10. ASSUME NEW r \in Run, HandleReport(r) PROVE NoRunForgotten'
  BY <1>10 DEF HandleReport, SetRunResultIfUnset, Active, OutcomeOf
<1>11. ASSUME NEW r \in Run, ReapExit(r) PROVE NoRunForgotten'
  BY <1>11 DEF ReapExit
<1>12. ASSUME NEW r \in Run, ReapCommit(r) PROVE NoRunForgotten'
  BY <1>12 DEF ReapCommit, SetRunResultIfUnset, Active, OutcomeOf
<1>13. ASSUME NEW r \in Run, ReapNotify(r) PROVE NoRunForgotten'
  BY <1>13 DEF ReapNotify, NotifyRunFinalized
<1>14. ASSUME NEW r \in Run, ReapTeardown(r) PROVE NoRunForgotten'
  BY <1>14 DEF ReapTeardown, RemoveWorktrees
<1>15. ASSUME NEW r \in Run, ReconcileKill(r) PROVE NoRunForgotten'
  BY <1>15 DEF ReconcileKill, Terminate, LeaderAlive
<1>16. ASSUME NEW r \in Run, ReconcileRow(r) PROVE NoRunForgotten'
  BY <1>16 DEF ReconcileRow, RemoveWorktrees, OutcomeOf, Active
<1>17. ASSUME NEW t \in TaskId, TaskCommit(t) PROVE NoRunForgotten'
  BY <1>17 DEF TaskCommit, SetRunResultIfUnset, Active, SetTask, TaskId
<1>18. ASSUME Crash PROVE NoRunForgotten'
  BY <1>18 DEF Crash, IdleTask, TaskId
<1>19. ASSUME Restart PROVE NoRunForgotten'
  BY <1>19 DEF Restart, Active
<1>20. ASSUME ReconcileTerminal PROVE NoRunForgotten'
  BY <1>20 DEF ReconcileTerminal, RemoveWorktrees
<1>21. ASSUME NEW r \in Run, ReportNotify(r) \/ StartAttempt(r) \/ ChildExits(r) \/
            RecordFinal(r) \/ SendReport(r) \/ LeaderExits(r) \/ LeaderCrashes(r)
      PROVE  UNCHANGED <<row, phase, disp, tracked, reap, storeFaults, recon>>
  BY <1>21 DEF ReportNotify, StartAttempt, ChildExits, RecordFinal, SendReport, LeaderExits,
     LeaderCrashes, LeaderGone
<1>22. ASSUME NEW n \in Node, Disconnect(n) \/ Claim(n) \/ Registered(n) \/ ReaperWake(n) \/
            ReaperNext(n)
      PROVE  UNCHANGED <<row, phase, disp, tracked, reap, storeFaults, recon>>
  BY <1>22 DEF Disconnect, Claim, Registered, ReaperWake, ReaperNext
<1>23. ASSUME NEW c \in CancelReq, CancelStart(c) \/ CancelNext(c)
      PROVE  UNCHANGED <<row, phase, disp, tracked, reap, storeFaults, recon>>
  BY <1>23 DEF CancelStart, CancelNext
<1>24. ASSUME NEW t \in TaskId, TaskKill(t) \/ TaskNotify(t)
      PROVE  UNCHANGED <<row, phase, disp, tracked, reap, storeFaults, recon>>
  BY <1>24 DEF TaskKill, TaskNotify
<1>25. ASSUME UNCHANGED vars
      PROVE  UNCHANGED <<row, phase, disp, tracked, reap, storeFaults, recon>>
  BY <1>25 DEF vars
<1>26. UNCHANGED <<row, phase, disp, tracked, reap, storeFaults, recon>> => NoRunForgotten'
  OBVIOUS
<1>27. QED
  BY <1>1, <1>2, <1>3, <1>4, <1>5, <1>6, <1>7, <1>8, <1>9, <1>10, <1>11, <1>12, <1>13, <1>14,
     <1>15, <1>16, <1>17, <1>18, <1>19, <1>20, <1>21, <1>22, <1>23, <1>24, <1>25, <1>26
  DEF Next, HubStep, RunnerStep, ReconcileStep, ReaperStep, TaskStep

\* Who finalizes a run is who will tell.
LEMMA SomebodyTellsStep ==
  TypeInv /\ RunInv /\ TaskInv /\ SomebodyTells /\ [Next]_vars => SomebodyTells'
<1> SUFFICES ASSUME TypeInv, RunInv, TaskInv, SomebodyTells, [Next]_vars
             PROVE  SomebodyTells'
  OBVIOUS
<1> USE ConstantsAssumption
<1> USE DEF storeVars, osVars, dispVars, connVars, downVars, hubAndStoreVars
<1> USE DEF TypeInv, TypeOK, TaskShape, RunInv, DispatchShape, RecordShape, ReapShape,
            DownShape, TaskInv, SomebodyTells
<1>1. ASSUME NEW r \in Run, DispatchCheck(r) PROVE SomebodyTells'
  BY <1>1 DEF DispatchCheck, Goto, Active
<1>2. ASSUME NEW r \in Run, DispatchInsert(r) PROVE SomebodyTells'
  BY <1>2 DEF DispatchInsert, Goto
<1>3. ASSUME NEW r \in Run, SpawnRunner(r) PROVE SomebodyTells'
  BY <1>3 DEF SpawnRunner, Goto
<1>4. ASSUME NEW r \in Run, MarkSpawnFailed(r) PROVE SomebodyTells'
  BY <1>4 DEF MarkSpawnFailed, Goto, SetRunResultIfUnset, Active
<1>5. ASSUME NEW r \in Run, SpawnFailedNotify(r) PROVE SomebodyTells'
  BY <1>5 DEF SpawnFailedNotify, Goto, NotifyRunFinalized
<1>6. ASSUME NEW r \in Run, DispatchTrack(r) PROVE SomebodyTells'
  BY <1>6 DEF DispatchTrack, Goto
<1>7. ASSUME NEW r \in Run, DispatchRecordGroup(r) PROVE SomebodyTells'
  BY <1>7 DEF DispatchRecordGroup, Goto
<1>8. ASSUME NEW r \in Run, DispatchRecordGroupFails(r) PROVE SomebodyTells'
  BY <1>8 DEF DispatchRecordGroupFails, Goto, CancelReaper, SetTask, TaskId
<1>9. ASSUME NEW r \in Run, OrphanCommit(r) PROVE SomebodyTells'
  BY <1>9 DEF OrphanCommit, SetRunResultIfUnset, Active
<1>10. ASSUME NEW r \in Run, HandleReport(r) PROVE SomebodyTells'
  BY <1>10 DEF HandleReport, SetRunResultIfUnset, Active, OutcomeOf
<1>11. ASSUME NEW r \in Run, ReportNotify(r) PROVE SomebodyTells'
  BY <1>11 DEF ReportNotify, NotifyRunFinalized
<1>12. ASSUME NEW r \in Run, ReapExit(r) PROVE SomebodyTells'
  BY <1>12 DEF ReapExit
<1>13. ASSUME NEW r \in Run, ReapCommit(r) PROVE SomebodyTells'
  BY <1>13 DEF ReapCommit, SetRunResultIfUnset, Active, OutcomeOf
<1>14. ASSUME NEW r \in Run, ReapNotify(r) PROVE SomebodyTells'
  BY <1>14 DEF ReapNotify, NotifyRunFinalized
<1>15. ASSUME NEW r \in Run, ReapTeardown(r) PROVE SomebodyTells'
  BY <1>15 DEF ReapTeardown, RemoveWorktrees
<1>16. ASSUME NEW r \in Run, SendReport(r) PROVE SomebodyTells'
  BY <1>16 DEF SendReport
<1>17. ASSUME NEW r \in Run, ReconcileRow(r) PROVE SomebodyTells'
  BY <1>17 DEF ReconcileRow, RemoveWorktrees, OutcomeOf, Active
<1>18. ASSUME NEW n \in Node, Disconnect(n) PROVE SomebodyTells'
  BY <1>18 DEF Disconnect, CancelReaper, SetTask, TaskId
<1>19. ASSUME NEW n \in Node, Registered(n) PROVE SomebodyTells'
  BY <1>19 DEF Registered, CancelReaper, SetTask, TaskId, IdleTask
<1>20. ASSUME NEW n \in Node, ReaperWake(n) PROVE SomebodyTells'
  <2>1. \A t \in TaskId : task[t].pc \in {"kill", "notify"} => task'[t] = task[t]
    BY <1>20 DEF ReaperWake, SetTask, TaskId
  <2> QED
    BY <1>20, <2>1 DEF ReaperWake
<1>21. ASSUME NEW n \in Node, ReaperNext(n) PROVE SomebodyTells'
  BY <1>21 DEF ReaperNext, SetTask, TaskId
<1>22. ASSUME NEW c \in CancelReq, CancelStart(c) PROVE SomebodyTells'
  BY <1>22 DEF CancelStart, SetTask, TaskId
<1>23. ASSUME NEW c \in CancelReq, CancelNext(c) PROVE SomebodyTells'
  BY <1>23 DEF CancelNext, SetTask, TaskId
<1>24. ASSUME NEW t \in TaskId, TaskCommit(t) PROVE SomebodyTells'
  BY <1>24 DEF TaskCommit, SetRunResultIfUnset, Active, SetTask, TaskId
<1>25. ASSUME NEW t \in TaskId, TaskKill(t) PROVE SomebodyTells'
  BY <1>25 DEF TaskKill, Terminate, LeaderAlive, SetTask, TaskId
<1>26. ASSUME NEW t \in TaskId, TaskNotify(t) PROVE SomebodyTells'
  BY <1>26 DEF TaskNotify, NotifyRunFinalized, SetTask, TaskId
<1>27. ASSUME Crash PROVE SomebodyTells'
  BY <1>27 DEF Crash, IdleTask, TaskId
<1>28. ASSUME NEW r \in Run, StartAttempt(r) \/ ChildExits(r) \/ RecordFinal(r) \/
            LeaderExits(r) \/ LeaderCrashes(r) \/ ReconcileKill(r)
      PROVE  UNCHANGED <<untold, report, reap, disp, task, row>>
  BY <1>28 DEF StartAttempt, ChildExits, RecordFinal, LeaderExits, LeaderCrashes, ReconcileKill,
     LeaderGone
<1>29. ASSUME NEW n \in Node, Claim(n)
      PROVE  UNCHANGED <<untold, report, reap, disp, task, row>>
  BY <1>29 DEF Claim
<1>30. ASSUME Restart \/ ReconcileTerminal \/ UNCHANGED vars
      PROVE  UNCHANGED <<untold, report, reap, disp, task, row>>
  BY <1>30 DEF Restart, ReconcileTerminal, vars
<1>31. UNCHANGED <<untold, report, reap, disp, task, row>> => SomebodyTells'
  OBVIOUS
<1>32. QED
  BY <1>1, <1>2, <1>3, <1>4, <1>5, <1>6, <1>7, <1>8, <1>9, <1>10, <1>11, <1>12, <1>13, <1>14,
     <1>15, <1>16, <1>17, <1>18, <1>19, <1>20, <1>21, <1>22, <1>23, <1>24, <1>25, <1>26, <1>27,
     <1>28, <1>29, <1>30, <1>31
  DEF Next, HubStep, RunnerStep, ReconcileStep, ReaperStep, TaskStep

\* The registry lets go of dead processes only.
LEMMA LiveProcessStep ==
  TypeInv /\ RunInv /\ LiveProcessIsTracked /\ [Next]_vars => LiveProcessIsTracked'
<1> SUFFICES ASSUME TypeInv, RunInv, LiveProcessIsTracked, [Next]_vars
             PROVE  LiveProcessIsTracked'
  OBVIOUS
<1> USE ConstantsAssumption
<1> USE DEF storeVars, osVars, dispVars, connVars, downVars, hubAndStoreVars
<1> USE DEF TypeInv, TypeOK, TaskShape, RunInv, DispatchShape, RecordShape, ReapShape,
            DownShape, LiveProcessIsTracked, LeaderAlive
<1>1. ASSUME NEW r \in Run, DispatchCheck(r) PROVE LiveProcessIsTracked'
  BY <1>1 DEF DispatchCheck, Goto, Active
<1>2. ASSUME NEW r \in Run, DispatchInsert(r) PROVE LiveProcessIsTracked'
  BY <1>2 DEF DispatchInsert, Goto
<1>3. ASSUME NEW r \in Run, SpawnRunner(r) PROVE LiveProcessIsTracked'
  BY <1>3 DEF SpawnRunner, Goto
<1>4. ASSUME NEW r \in Run, MarkSpawnFailed(r) PROVE LiveProcessIsTracked'
  BY <1>4 DEF MarkSpawnFailed, Goto, SetRunResultIfUnset, Active
<1>5. ASSUME NEW r \in Run, SpawnFailedNotify(r) PROVE LiveProcessIsTracked'
  BY <1>5 DEF SpawnFailedNotify, Goto, NotifyRunFinalized
<1>6. ASSUME NEW r \in Run, DispatchTrack(r) PROVE LiveProcessIsTracked'
  BY <1>6 DEF DispatchTrack, Goto
<1>7. ASSUME NEW r \in Run, DispatchRecordGroup(r) PROVE LiveProcessIsTracked'
  BY <1>7 DEF DispatchRecordGroup, Goto
<1>8. ASSUME NEW r \in Run, DispatchRecordGroupFails(r) PROVE LiveProcessIsTracked'
  BY <1>8 DEF DispatchRecordGroupFails, Goto, CancelReaper, SetTask, TaskId
<1>9. ASSUME NEW r \in Run, ReapCommit(r) PROVE LiveProcessIsTracked'
  BY <1>9 DEF ReapCommit, SetRunResultIfUnset, Active, OutcomeOf
<1>10. ASSUME NEW r \in Run, ReapNotify(r) PROVE LiveProcessIsTracked'
  BY <1>10 DEF ReapNotify, NotifyRunFinalized
<1>11. ASSUME NEW r \in Run, StartAttempt(r) PROVE LiveProcessIsTracked'
  BY <1>11 DEF StartAttempt
<1>12. ASSUME NEW r \in Run, RecordFinal(r) PROVE LiveProcessIsTracked'
  BY <1>12 DEF RecordFinal
<1>13. ASSUME NEW r \in Run, SendReport(r) PROVE LiveProcessIsTracked'
  BY <1>13 DEF SendReport
<1>14. ASSUME NEW r \in Run, LeaderExits(r) PROVE LiveProcessIsTracked'
  BY <1>14 DEF LeaderExits, LeaderGone, LeaderAlive
<1>15. ASSUME NEW r \in Run, LeaderCrashes(r) PROVE LiveProcessIsTracked'
  BY <1>15 DEF LeaderCrashes, LeaderGone, LeaderAlive
<1>16. ASSUME Crash PROVE LiveProcessIsTracked'
  BY <1>16 DEF Crash, IdleTask, TaskId
<1>17. ASSUME NEW r \in Run, OrphanCommit(r) \/ HandleReport(r) \/ ReportNotify(r) \/
            ReapExit(r) \/ ReapTeardown(r) \/ ChildExits(r) \/ ReconcileKill(r) \/
            ReconcileRow(r)
      PROVE  UNCHANGED <<crashes, leader, disp, tracked>>
  BY <1>17 DEF OrphanCommit, HandleReport, ReportNotify, ReapExit, ReapTeardown, ChildExits,
     ReconcileKill, ReconcileRow
<1>18. ASSUME NEW n \in Node, Disconnect(n) \/ Claim(n) \/ Registered(n) \/ ReaperWake(n) \/
            ReaperNext(n)
      PROVE  UNCHANGED <<crashes, leader, disp, tracked>>
  BY <1>18 DEF Disconnect, Claim, Registered, ReaperWake, ReaperNext
<1>19. ASSUME NEW c \in CancelReq, CancelStart(c) \/ CancelNext(c)
      PROVE  UNCHANGED <<crashes, leader, disp, tracked>>
  BY <1>19 DEF CancelStart, CancelNext
<1>20. ASSUME NEW t \in TaskId, TaskCommit(t) \/ TaskKill(t) \/ TaskNotify(t)
      PROVE  UNCHANGED <<crashes, leader, disp, tracked>>
  BY <1>20 DEF TaskCommit, TaskKill, TaskNotify
<1>21. ASSUME Restart \/ ReconcileTerminal \/ UNCHANGED vars
      PROVE  UNCHANGED <<crashes, leader, disp, tracked>>
  BY <1>21 DEF Restart, ReconcileTerminal, vars
<1>22. UNCHANGED <<crashes, leader, disp, tracked>> => LiveProcessIsTracked'
  OBVIOUS
<1>23. QED
  BY <1>1, <1>2, <1>3, <1>4, <1>5, <1>6, <1>7, <1>8, <1>9, <1>10, <1>11, <1>12, <1>13, <1>14,
     <1>15, <1>16, <1>17, <1>18, <1>19, <1>20, <1>21, <1>22
  DEF Next, HubStep, RunnerStep, ReconcileStep, ReaperStep, TaskStep

\* A teardown follows the exit.
LEMMA TeardownStep ==
  TypeInv /\ RunInv /\ TeardownAfterExit /\ [Next]_vars => TeardownAfterExit'
<1> SUFFICES ASSUME TypeInv, RunInv, TeardownAfterExit, [Next]_vars
             PROVE  TeardownAfterExit'
  OBVIOUS
<1> USE ConstantsAssumption
<1> USE DEF storeVars, osVars, dispVars, connVars, downVars, hubAndStoreVars
<1> USE DEF TypeInv, TypeOK, TaskShape, RunInv, DispatchShape, RecordShape, ReapShape,
            DownShape, TeardownAfterExit
<1>1. ASSUME NEW r \in Run, SpawnRunner(r) PROVE TeardownAfterExit'
  BY <1>1 DEF SpawnRunner, Goto
<1>2. ASSUME NEW r \in Run, ReapTeardown(r) PROVE TeardownAfterExit'
  BY <1>2 DEF ReapTeardown, RemoveWorktrees
<1>3. ASSUME NEW r \in Run, StartAttempt(r) PROVE TeardownAfterExit'
  BY <1>3 DEF StartAttempt
<1>4. ASSUME NEW r \in Run, RecordFinal(r) PROVE TeardownAfterExit'
  BY <1>4 DEF RecordFinal
<1>5. ASSUME NEW r \in Run, SendReport(r) PROVE TeardownAfterExit'
  BY <1>5 DEF SendReport
<1>6. ASSUME NEW r \in Run, LeaderExits(r) PROVE TeardownAfterExit'
  BY <1>6 DEF LeaderExits, LeaderGone, LeaderAlive
<1>7. ASSUME NEW r \in Run, LeaderCrashes(r) PROVE TeardownAfterExit'
  BY <1>7 DEF LeaderCrashes, LeaderGone, LeaderAlive
<1>8. ASSUME NEW r \in Run, ReconcileRow(r) PROVE TeardownAfterExit'
  BY <1>8 DEF ReconcileRow, RemoveWorktrees, OutcomeOf, Active, VerifiedDead
<1>9. ASSUME ReconcileTerminal PROVE TeardownAfterExit'
  BY <1>9 DEF ReconcileTerminal, RemoveWorktrees, VerifiedDead
<1>10. ASSUME NEW r \in Run, DispatchCheck(r) \/ DispatchInsert(r) \/ MarkSpawnFailed(r) \/
            SpawnFailedNotify(r) \/ DispatchTrack(r) \/ DispatchRecordGroup(r) \/
            DispatchRecordGroupFails(r) \/ OrphanCommit(r) \/ HandleReport(r) \/ ReportNotify(r)
            \/ ReapExit(r) \/ ReapCommit(r) \/ ReapNotify(r) \/ ChildExits(r) \/
            ReconcileKill(r)
      PROVE  UNCHANGED <<worktree, leader>>
  BY <1>10 DEF DispatchCheck, DispatchInsert, MarkSpawnFailed, SpawnFailedNotify, DispatchTrack,
     DispatchRecordGroup, DispatchRecordGroupFails, OrphanCommit, HandleReport, ReportNotify,
     ReapExit, ReapCommit, ReapNotify, ChildExits, ReconcileKill
<1>11. ASSUME NEW n \in Node, Disconnect(n) \/ Claim(n) \/ Registered(n) \/ ReaperWake(n) \/
            ReaperNext(n)
      PROVE  UNCHANGED <<worktree, leader>>
  BY <1>11 DEF Disconnect, Claim, Registered, ReaperWake, ReaperNext
<1>12. ASSUME NEW c \in CancelReq, CancelStart(c) \/ CancelNext(c)
      PROVE  UNCHANGED <<worktree, leader>>
  BY <1>12 DEF CancelStart, CancelNext
<1>13. ASSUME NEW t \in TaskId, TaskCommit(t) \/ TaskKill(t) \/ TaskNotify(t)
      PROVE  UNCHANGED <<worktree, leader>>
  BY <1>13 DEF TaskCommit, TaskKill, TaskNotify
<1>14. ASSUME Crash \/ Restart \/ UNCHANGED vars
      PROVE  UNCHANGED <<worktree, leader>>
  BY <1>14 DEF Crash, Restart, vars
<1>15. UNCHANGED <<worktree, leader>> => TeardownAfterExit'
  OBVIOUS
<1>16. QED
  BY <1>1, <1>2, <1>3, <1>4, <1>5, <1>6, <1>7, <1>8, <1>9, <1>10, <1>11, <1>12, <1>13, <1>14,
     <1>15
  DEF Next, HubStep, RunnerStep, ReconcileStep, ReaperStep, TaskStep

\* A reaper that is cancelled leaves its runs to a new one or to their dispatcher.
LEMMA AbsentStep ==
  TypeInv /\ RunInv /\ TaskInv /\ SocketInv /\ AbsentDispatcherIsReaped /\ [Next]_vars => AbsentDispatcherIsReaped'
<1> SUFFICES ASSUME TypeInv, RunInv, TaskInv, SocketInv, AbsentDispatcherIsReaped, [Next]_vars
             PROVE  AbsentDispatcherIsReaped'
  OBVIOUS
<1> USE ConstantsAssumption
<1> USE DEF storeVars, osVars, dispVars, connVars, downVars, hubAndStoreVars
<1> USE DEF TypeInv, TypeOK, TaskShape, SocketInv, AbsentDispatcherIsReaped, Active
<1>a. \A r \in Run : row[r] = "absent" => r \notin tracked
  BY DEF RunInv, DispatchShape, RecordShape
<1>b. \A r \in Run : disp[r] = "checked" => row[r] = "absent"
  BY DEF RunInv, DispatchShape
<1>c. \A n \in Node :
        task[n].pc \in {"kill", "notify"} \/ (task[n].pc = "loop" /\ task[n].run # NoRun)
          => row[task[n].run] \in Terminal
  BY DEF TaskInv
<1> USE <1>a, <1>b, <1>c
<1>1. ASSUME NEW r \in Run, DispatchInsert(r) PROVE AbsentDispatcherIsReaped'
  BY <1>1 DEF DispatchInsert, Goto
<1>2. ASSUME NEW r \in Run, MarkSpawnFailed(r) PROVE AbsentDispatcherIsReaped'
  BY <1>2 DEF MarkSpawnFailed, Goto, SetRunResultIfUnset, Active
<1>3. ASSUME NEW r \in Run, DispatchTrack(r) PROVE AbsentDispatcherIsReaped'
  BY <1>3 DEF DispatchTrack, Goto
<1>4. ASSUME NEW r \in Run, DispatchRecordGroupFails(r) PROVE AbsentDispatcherIsReaped'
  BY <1>4 DEF DispatchRecordGroupFails, Goto, CancelReaper, SetTask, TaskId
<1>5. ASSUME NEW r \in Run, OrphanCommit(r) PROVE AbsentDispatcherIsReaped'
  BY <1>5 DEF OrphanCommit, SetRunResultIfUnset, Active
<1>6. ASSUME NEW r \in Run, HandleReport(r) PROVE AbsentDispatcherIsReaped'
  BY <1>6 DEF HandleReport, SetRunResultIfUnset, Active, OutcomeOf
<1>7. ASSUME NEW r \in Run, ReapCommit(r) PROVE AbsentDispatcherIsReaped'
  <2>1. \A q \in Run : Active(q)' => Active(q)
    BY <1>7 DEF ReapCommit, SetRunResultIfUnset, OutcomeOf
  <2>2. tracked' \subseteq tracked /\ UNCHANGED <<conn, task>>
    BY <1>7 DEF ReapCommit
  <2> QED
    BY <2>1, <2>2
<1>8. ASSUME NEW r \in Run, ReapNotify(r) PROVE AbsentDispatcherIsReaped'
  BY <1>8 DEF ReapNotify, NotifyRunFinalized
<1>9. ASSUME NEW r \in Run, ReconcileRow(r) PROVE AbsentDispatcherIsReaped'
  <2>1. \A q \in Run : Active(q)' => Active(q)
    BY <1>9 DEF ReconcileRow, OutcomeOf
  <2> QED
    BY <1>9, <2>1 DEF ReconcileRow
<1>10. ASSUME NEW n \in Node, Disconnect(n) PROVE AbsentDispatcherIsReaped'
  BY <1>10 DEF Disconnect, CancelReaper, SetTask, TaskId
<1>11. ASSUME NEW n \in Node, Claim(n) PROVE AbsentDispatcherIsReaped'
  BY <1>11 DEF Claim
<1>12. ASSUME NEW n \in Node, Registered(n) PROVE AbsentDispatcherIsReaped'
  BY <1>12 DEF Registered, CancelReaper, SetTask, TaskId, IdleTask
<1>13. ASSUME NEW n \in Node, ReaperWake(n) PROVE AbsentDispatcherIsReaped'
  BY <1>13 DEF ReaperWake, SetTask, TaskId
<1>14. ASSUME NEW n \in Node, ReaperNext(n) PROVE AbsentDispatcherIsReaped'
  <2>1. UNCHANGED <<row, tracked, conn>> /\ n \in TaskId
    BY <1>14 DEF ReaperNext, TaskId
  <2>2. \A u \in Node : u # n => task'[u] = task[u]
    BY <1>14 DEF ReaperNext, SetTask, TaskId
  <2>3. ASSUME NEW r \in tracked, Active(r), DispatcherOf[r] = n, conn[n] = "off"
        PROVE  task'[n].pc = "commit" /\ (r \in task'[n].todo \/ r = task'[n].run)
    <3>1. task[n].pc = "loop" /\ r \in Run
      BY <1>14 DEF ReaperNext
    <3>2. r # task[n].run
      <4> SUFFICES ASSUME r = task[n].run PROVE row[r] \in Terminal
        BY <2>3
      <4>1. task[n].run # NoRun
        BY <3>1
      <4> QED
        BY <1>c, <3>1, <4>1
    <3>3. r \in task[n].todo
      BY <2>3, <3>1, <3>2
    <3>4. PICK q \in task[n].todo : SetTask(n, "commit", task[n].todo \ {q}, q)
      BY <1>14, <2>3, <3>3 DEF ReaperNext
    <3>5. /\ task'[n].pc = "commit" /\ task'[n].run = q
          /\ task'[n].todo = task[n].todo \ {q}
      BY <2>1, <3>4 DEF SetTask
    <3> QED
      BY <3>3, <3>5
  <2> QED
    BY <2>1, <2>2, <2>3
<1>15. ASSUME NEW c \in CancelReq, CancelStart(c) PROVE AbsentDispatcherIsReaped'
  BY <1>15 DEF CancelStart, SetTask, TaskId
<1>16. ASSUME NEW c \in CancelReq, CancelNext(c) PROVE AbsentDispatcherIsReaped'
  <2>1. \A n \in Node : task'[n] = task[n]
    BY <1>16 DEF CancelNext, SetTask, TaskId
  <2> QED
    BY <1>16, <2>1 DEF CancelNext
<1>17. ASSUME NEW t \in TaskId, TaskCommit(t) PROVE AbsentDispatcherIsReaped'
  BY <1>17 DEF TaskCommit, SetRunResultIfUnset, Active, SetTask, TaskId
<1>18. ASSUME NEW t \in TaskId, TaskKill(t) PROVE AbsentDispatcherIsReaped'
  BY <1>18 DEF TaskKill, Terminate, LeaderAlive, SetTask, TaskId
<1>19. ASSUME NEW t \in TaskId, TaskNotify(t) PROVE AbsentDispatcherIsReaped'
  <2>1. UNCHANGED <<row, tracked, conn>> /\ task[t].pc = "notify"
    BY <1>19 DEF TaskNotify
  <2>2. \A u \in TaskId : u # t => task'[u] = task[u]
    BY <1>19 DEF TaskNotify, SetTask
  <2>3. /\ task'[t].pc = "loop" /\ task'[t].todo = task[t].todo
    BY <1>19 DEF TaskNotify, SetTask
  <2>4. t \in Node => \A r \in Run : Active(r) => r # task[t].run
    BY <2>1
  <2> QED
    BY <2>1, <2>2, <2>3, <2>4 DEF TaskId
<1>20. ASSUME Crash PROVE AbsentDispatcherIsReaped'
  BY <1>20 DEF Crash, IdleTask, TaskId
<1>21. ASSUME NEW r \in Run, DispatchCheck(r) \/ SpawnRunner(r) \/ SpawnFailedNotify(r) \/
            DispatchRecordGroup(r) \/ ReportNotify(r) \/ ReapExit(r) \/ ReapTeardown(r) \/
            StartAttempt(r) \/ ChildExits(r) \/ RecordFinal(r) \/ SendReport(r) \/
            LeaderExits(r) \/ LeaderCrashes(r) \/ ReconcileKill(r)
      PROVE  UNCHANGED <<tracked, row, conn, task>>
  BY <1>21 DEF DispatchCheck, SpawnRunner, SpawnFailedNotify, DispatchRecordGroup, ReportNotify,
     ReapExit, ReapTeardown, StartAttempt, ChildExits, RecordFinal, SendReport, LeaderExits,
     LeaderCrashes, ReconcileKill, LeaderGone
<1>22. ASSUME Restart \/ ReconcileTerminal \/ UNCHANGED vars
      PROVE  UNCHANGED <<tracked, row, conn, task>>
  BY <1>22 DEF Restart, ReconcileTerminal, vars
<1>23. UNCHANGED <<tracked, row, conn, task>> => AbsentDispatcherIsReaped'
  OBVIOUS
<1>24. QED
  BY <1>1, <1>2, <1>3, <1>4, <1>5, <1>6, <1>7, <1>8, <1>9, <1>10, <1>11, <1>12, <1>13, <1>14,
     <1>15, <1>16, <1>17, <1>18, <1>19, <1>20, <1>21, <1>22, <1>23
  DEF Next, HubStep, RunnerStep, ReconcileStep, ReaperStep, TaskStep

-----------------------------------------------------------------------------
\* The refinement of RunRecord.

\* A step that leaves the row, the record and the process alone stutters.
LEMMA RecordStutters ==
  ASSUME UNCHANGED <<row, sidecar, leader>>
  PROVE  UNCHANGED Record!vars
BY DEF Record!vars, ProcessOf

\* set_run_result_if_unset with a truthful outcome finalizes or stutters.
LEMMA RecordFinalizes ==
  ASSUME TypeInv, NEW r \in Run, NEW why,
         row' = [row EXCEPT ![r] = IF Active(r) THEN why ELSE @],
         UNCHANGED <<sidecar, leader>>,
         Active(r) => why \in Record!Truthful(r)
  PROVE  [Record!Next]_(Record!vars)
<1>1. UNCHANGED ProcessOf
  BY DEF ProcessOf
<1>2. CASE Active(r)
  <2>1. row[r] = "running" /\ row' = [row EXCEPT ![r] = why]
    BY <1>2 DEF Active
  <2>2. Record!Finalize(r)
    BY <1>1, <1>2, <2>1 DEF Record!Finalize
  <2> QED
    BY <2>2 DEF Record!Next
<1>3. CASE ~Active(r)
  <2>1. row' = row
    BY <1>3 DEF TypeInv, TypeOK
  <2> QED
    BY <2>1, RecordStutters
<1> QED
  BY <1>2, <1>3

\* Every action is a step of RunRecord or leaves its variables alone.
LEMMA RecordStep == TypeInv /\ RunInv /\ [Next]_vars => [Record!Next]_(Record!vars)
<1> SUFFICES ASSUME TypeInv, RunInv, [Next]_vars PROVE [Record!Next]_(Record!vars)
  OBVIOUS
<1> USE DEF storeVars, osVars, dispVars, connVars, downVars, hubAndStoreVars
<1>1. ASSUME NEW r \in Run, DispatchInsert(r) PROVE Record!Create(r)
  <2>1. row[r] = "absent"
    BY <1>1 DEF RunInv, DispatchShape, DispatchInsert
  <2> QED
    BY <1>1, <2>1 DEF DispatchInsert, Record!Create, ProcessOf
<1>2. ASSUME NEW r \in Run, SpawnRunner(r) PROVE [Record!Next]_(Record!vars)
  <2>1. leader[r] = "none" /\ row[r] # "absent" /\ UNCHANGED <<row, sidecar>>
    BY <1>2 DEF RunInv, DispatchShape, SpawnRunner
  <2>2. CASE leader' = leader
    BY <2>1, <2>2, RecordStutters
  <2>3. CASE leader' = [leader EXCEPT ![r] = "starting"]
    <3>1. ProcessOf[r] = "none" /\ ProcessOf' = [ProcessOf EXCEPT ![r] = "alive"]
      BY <2>1, <2>3 DEF ProcessOf, TypeInv, TypeOK
    <3>2. Record!Start(r)
      BY <2>1, <3>1 DEF Record!Start
    <3> QED
      BY <3>2 DEF Record!Next
  <2> QED
    BY <1>2, <2>2, <2>3 DEF SpawnRunner
<1>3. ASSUME NEW r \in Run, StartAttempt(r) \/ SendReport(r) PROVE UNCHANGED Record!vars
  <2>1. UNCHANGED <<row, sidecar, ProcessOf>>
    BY <1>3 DEF StartAttempt, SendReport, ProcessOf, TypeInv, TypeOK
  <2> QED
    BY <2>1 DEF Record!vars
<1>4. ASSUME NEW r \in Run, RecordFinal(r) PROVE Record!Record(r)
  <2>1. /\ ProcessOf[r] = "alive" /\ UNCHANGED <<row, ProcessOf>>
        /\ sidecar[r] = "none" /\ \E f \in {"ok", "error"} : sidecar' = [sidecar EXCEPT ![r] = f]
    BY <1>4 DEF RecordFinal, ProcessOf, TypeInv, TypeOK, RunInv, RecordShape
  <2> QED
    BY <2>1 DEF Record!Record
<1>5. ASSUME NEW r \in Run, LeaderExits(r) \/ LeaderCrashes(r) PROVE Record!End(r)
  <2>1. /\ leader[r] \notin {"none", "dead"} /\ leader' = [leader EXCEPT ![r] = "dead"]
        /\ UNCHANGED <<row, sidecar>>
    BY <1>5 DEF LeaderExits, LeaderCrashes, LeaderGone, LeaderAlive
  <2>2. leader'[r] = "dead" /\ \A q \in Run : q # r => leader'[q] = leader[q]
    BY <2>1 DEF TypeInv, TypeOK
  <2>3. ProcessOf' = [ProcessOf EXCEPT ![r] = "gone"]
    BY <2>2 DEF ProcessOf
  <2>4. ProcessOf[r] = "alive"
    BY <2>1 DEF ProcessOf
  <2> QED
    BY <2>1, <2>3, <2>4 DEF Record!End
<1>6. ASSUME NEW r \in Run, MarkSpawnFailed(r) PROVE [Record!Next]_(Record!vars)
  <2>1. leader[r] = "none"
    BY <1>6 DEF RunInv, DispatchShape, MarkSpawnFailed
  <2>2. "spawn_failed" \in Record!Truthful(r)
    BY <2>1 DEF Record!Truthful, ProcessOf
  <2> QED
    BY <1>6, <2>2, RecordFinalizes DEF MarkSpawnFailed, SetRunResultIfUnset
<1>7. ASSUME NEW t \in TaskId, TaskCommit(t) PROVE [Record!Next]_(Record!vars)
  <2>1. task[t].run \in Run
    BY <1>7 DEF TypeInv, TaskShape, TaskCommit
  <2>2. {"cancelled", "dispatcher_disconnected"} \subseteq Record!Truthful(task[t].run)
    BY DEF Record!Truthful
  <2>3. \E why \in {"cancelled", "dispatcher_disconnected"} :
           SetRunResultIfUnset(task[t].run, why)
    BY <1>7 DEF TaskCommit
  <2> QED
    BY <1>7, <2>1, <2>2, <2>3, RecordFinalizes DEF TaskCommit, SetRunResultIfUnset
<1>8. ASSUME NEW r \in Run, OrphanCommit(r) PROVE [Record!Next]_(Record!vars)
  <2>1. "dispatcher_disconnected" \in Record!Truthful(r)
    BY DEF Record!Truthful
  <2> QED
    BY <1>8, <2>1, RecordFinalizes DEF OrphanCommit, SetRunResultIfUnset
<1>9. ASSUME NEW r \in Run, HandleReport(r) PROVE [Record!Next]_(Record!vars)
  <2>1. sidecar[r] \in {"ok", "error"}
    BY <1>9 DEF HandleReport, RunInv, RecordShape, TypeInv, TypeOK
  <2>2. OutcomeOf(r, "agent_error") \in Record!Truthful(r)
    BY <2>1 DEF OutcomeOf, Record!Truthful
  <2> QED
    BY <1>9, <2>2, RecordFinalizes DEF HandleReport, SetRunResultIfUnset
<1>10. ASSUME NEW r \in Run, ReapCommit(r) PROVE [Record!Next]_(Record!vars)
  <2>1. leader[r] = "dead" /\ sidecar[r] \in Final
    BY <1>10 DEF ReapCommit, RunInv, ReapShape, TypeInv, TypeOK
  <2>2. OutcomeOf(r, "no_result") \in Record!Truthful(r)
    BY <2>1 DEF OutcomeOf, Record!Truthful, ProcessOf
  <2> QED
    BY <1>10, <2>2, RecordFinalizes DEF ReapCommit, SetRunResultIfUnset
<1>11. ASSUME NEW r \in Run, ReconcileRow(r) PROVE [Record!Next]_(Record!vars)
  <2>1. sidecar[r] \in Final
    BY DEF TypeInv, TypeOK
  <2>2. OutcomeOf(r, "restart_reconciled") \in Record!Truthful(r)
    BY <2>1 DEF OutcomeOf, Record!Truthful
  <2> QED
    BY <1>11, <2>2, RecordFinalizes DEF ReconcileRow
<1>12. ASSUME NEW r \in Run,
              \/ DispatchCheck(r) \/ SpawnFailedNotify(r) \/ DispatchTrack(r)
              \/ DispatchRecordGroup(r) \/ DispatchRecordGroupFails(r) \/ ReportNotify(r)
              \/ ReapExit(r) \/ ReapNotify(r) \/ ReapTeardown(r) \/ ChildExits(r)
              \/ ReconcileKill(r)
       PROVE  UNCHANGED <<row, sidecar, leader>>
  BY <1>12 DEF DispatchCheck, SpawnFailedNotify, DispatchTrack, DispatchRecordGroup,
     DispatchRecordGroupFails, ReportNotify, ReapExit, ReapNotify, ReapTeardown, ChildExits,
     ReconcileKill
<1>13. ASSUME NEW n \in Node, Disconnect(n) \/ Claim(n) \/ Registered(n) \/ ReaperStep(n)
       PROVE  UNCHANGED <<row, sidecar, leader>>
  BY <1>13 DEF Disconnect, Claim, Registered, ReaperStep, ReaperWake, ReaperNext
<1>14. ASSUME NEW c \in CancelReq, CancelStart(c) \/ CancelNext(c)
       PROVE  UNCHANGED <<row, sidecar, leader>>
  BY <1>14 DEF CancelStart, CancelNext
<1>15. ASSUME NEW t \in TaskId, TaskKill(t) \/ TaskNotify(t)
       PROVE  UNCHANGED <<row, sidecar, leader>>
  BY <1>15 DEF TaskKill, TaskNotify
<1>16. ASSUME Crash \/ Restart \/ ReconcileTerminal \/ UNCHANGED vars
       PROVE  UNCHANGED <<row, sidecar, leader>>
  BY <1>16 DEF Crash, Restart, ReconcileTerminal, vars
<1>17. \A r \in Run : Record!Create(r) \/ Record!Record(r) \/ Record!End(r) => Record!Next
  BY DEF Record!Next
<1>18. QED
  BY <1>1, <1>2, <1>3, <1>4, <1>5, <1>6, <1>7, <1>8, <1>9, <1>10, <1>11, <1>12, <1>13, <1>14,
     <1>15, <1>16, <1>17, RecordStutters
  DEF Next, HubStep, RunnerStep, ReconcileStep, TaskStep

\* The daemon starts where RunRecord starts.
LEMMA RecordInit == Init => Record!Init
BY DEF Init, Record!Init, ProcessOf

-----------------------------------------------------------------------------
\* The theorems.

Inv == TypeInv /\ RunInv /\ TaskInv /\ SocketInv

\* The daemon starts in the inductive invariant.
LEMMA InvInit == Init => Inv
BY TypeInit, ConstantsAssumption
   DEF Init, Inv, RunInv, DispatchShape, RecordShape, ReapShape, DownShape, TaskInv, SocketInv,
       IdleTask, TaskId

\* Every action keeps the inductive invariant.
LEMMA InvStep == Inv /\ [Next]_vars => Inv'
BY TypeStep, RunStep, TaskInvStep, SocketStep DEF Inv

\* The inductive invariant holds throughout.
LEMMA InvAlways == Spec => []Inv
BY InvInit, InvStep, PTL DEF Spec

\* Every variable keeps its type.
THEOREM TypeCorrect == Spec => []TypeOK
<1>1. Inv => TypeOK
  BY DEF Inv, TypeInv
<1> QED
  BY InvAlways, <1>1, PTL

\* Whatever cancels, disconnects, faults and crashes there are, a running row
\* has a party left that will finalize it.
THEOREM RunsAreRemembered == Spec => []NoRunForgotten
<1>1. Init => NoRunForgotten
  BY DEF Init, NoRunForgotten, Active
<1>2. Inv /\ NoRunForgotten /\ [Next]_vars => NoRunForgotten'
  BY NoRunForgottenStep DEF Inv
<1> QED
  BY InvAlways, <1>1, <1>2, PTL DEF Spec

\* Only a reaper cancelled by a reconnect leaves the waiters of a finalized run
\* without somebody who is about to notify them.
THEOREM WaitersAreTold == Spec => []SomebodyTells
<1>1. Init => SomebodyTells
  BY DEF Init, SomebodyTells
<1>2. Inv /\ SomebodyTells /\ [Next]_vars => SomebodyTells'
  BY SomebodyTellsStep DEF Inv
<1> QED
  BY InvAlways, <1>1, <1>2, PTL DEF Spec

\* A daemon that has not crashed can find every live runner it spawned.
THEOREM ProcessesAreTracked == Spec => []LiveProcessIsTracked
<1>1. Init => LiveProcessIsTracked
  BY DEF Init, LiveProcessIsTracked, LeaderAlive
<1>2. Inv /\ LiveProcessIsTracked /\ [Next]_vars => LiveProcessIsTracked'
  BY LiveProcessStep DEF Inv
<1> QED
  BY InvAlways, <1>1, <1>2, PTL DEF Spec

\* The runs of a dispatcher that is away are under its reaper, for any number
\* of runs, dispatchers and reconnects.
THEOREM AbsenceIsReaped == Spec => []AbsentDispatcherIsReaped
<1>1. Init => AbsentDispatcherIsReaped
  BY DEF Init, AbsentDispatcherIsReaped
<1>2. Inv /\ AbsentDispatcherIsReaped /\ [Next]_vars => AbsentDispatcherIsReaped'
  BY AbsentStep DEF Inv
<1> QED
  BY InvAlways, <1>1, <1>2, PTL DEF Spec

\* No workspace is removed under a runner that is alive.
THEOREM WorkspacesOutliveRunners == Spec => []TeardownAfterExit
<1>1. Init => TeardownAfterExit
  BY DEF Init, TeardownAfterExit
<1>2. Inv /\ TeardownAfterExit /\ [Next]_vars => TeardownAfterExit'
  BY TeardownStep DEF Inv
<1> QED
  BY InvAlways, <1>1, <1>2, PTL DEF Spec

\* The daemon's run lifecycle implements the promise of RunRecord: whichever
\* finalizer wins, each row is finalized once and truthfully.
THEOREM ImplementsRunRecord == Spec => RowKeepsItsPromise
<1>1. Inv /\ [Next]_vars => [Record!Next]_(Record!vars)
  BY RecordStep DEF Inv
<1> QED
  BY InvAlways, RecordInit, <1>1, PTL DEF Spec, RowKeepsItsPromise, Record!Spec
=============================================================================
