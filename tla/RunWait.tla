------------------------------- MODULE RunWait -------------------------------
(***************************************************************************)
(* Waiting for agents.  A wait frame names agents; its task looks up their *)
(* current runs, registers a waiter for those still running, sleeps until  *)
(* the waiter's future is set or its time is up, and looks up the current  *)
(* runs again.  Whoever finalizes a run first commits the row, then lists  *)
(* the waiters, reads in a thread which of their runs are terminal, and    *)
(* sets the futures of those that have none left.                          *)
(***************************************************************************)
CONSTANTS
  Run,       \* run ids, one per dispatch
  Agent,     \* agents
  AgentOf,   \* the agent of a run
  Foreign,   \* the runs dispatched by somebody else than the one who waits
  Wait,      \* wait frames
  ById,      \* the agents a frame names by id
  ByHandle,  \* the agents a frame names by handle
  NoRun      \* no row: agents.current_run_id is NULL, or not the waiter's to see

ASSUME ConstantsAssumption ==
  /\ AgentOf \in [Run -> Agent]
  /\ Foreign \subseteq Run
  /\ ById \in [Wait -> SUBSET Agent] /\ ByHandle \in [Wait -> SUBSET Agent]
  /\ NoRun \notin Run

VARIABLES
  row,        \* runs.status, failed and completed alike
  current,    \* agents.current_run_id
  notifier,   \* notify_run_finalized of a run: where it is, whom it lists, what it read
  wait,       \* where wait_for_agents is
  runIds,     \* waiter.run_ids
  registered, \* waits in Registry._waiters
  woken,      \* waits whose future is set
  expired,    \* waits whose time was up
  late,       \* waits registered when nobody was left to notify them
  answer      \* the current run and status a wait read last, per agent

waitVars == <<wait, runIds, registered, expired, late, answer>>
vars == <<row, current, notifier, woken, waitVars>>

RunningWait == {"handles", "register", "waiting", "ids2", "handles2"}
Item == [run : Run \cup {NoRun}, status : {"unknown", "running", "terminal"}]
Notifier == [pc : {"idle", "list", "read", "wake", "done"},
             whom : SUBSET Wait, terminal : SUBSET Run]

TypeOK ==
  /\ row \in [Run -> {"absent", "running", "terminal"}]
  /\ current \in [Agent -> Run \cup {NoRun}]
  /\ notifier \in [Run -> Notifier]
  /\ wait \in [Wait -> {"idle", "answered", "gone"} \cup RunningWait]
  /\ runIds \in [Wait -> SUBSET Run]
  /\ registered \subseteq Wait /\ woken \subseteq Wait
  /\ expired \subseteq Wait /\ late \subseteq Wait
  /\ answer \in [Wait -> [Agent -> Item]]

Init ==
  /\ row = [r \in Run |-> "absent"]
  /\ current = [a \in Agent |-> NoRun]
  /\ notifier = [r \in Run |-> [pc |-> "idle", whom |-> {}, terminal |-> {}]]
  /\ wait = [w \in Wait |-> "idle"]
  /\ runIds = [w \in Wait |-> {}]
  /\ registered = {} /\ woken = {} /\ expired = {} /\ late = {}
  /\ answer = [w \in Wait |-> [a \in Agent |-> [run |-> NoRun, status |-> "unknown"]]]

-----------------------------------------------------------------------------
\* Dispatch, and the two halves of every finalizer.

\* create_run: a retask needs the current run to be terminal.
Dispatch(r) ==
  /\ row[r] = "absent"
  /\ \A q \in Run : AgentOf[q] = AgentOf[r] => row[q] # "running"
  /\ row' = [row EXCEPT ![r] = "running"]
  /\ current' = [current EXCEPT ![AgentOf[r]] = r]
  /\ UNCHANGED <<notifier, woken, waitVars>>

SetNotifier(r, pc, whom, terminal) ==
  notifier' = [notifier EXCEPT ![r] = [pc |-> pc, whom |-> whom, terminal |-> terminal]]

\* The finalizer that wins set_run_result_if_unset goes on to notify.
Finalize(r) ==
  /\ row[r] = "running"
  /\ row' = [row EXCEPT ![r] = "terminal"]
  /\ SetNotifier(r, "list", {}, {})
  /\ UNCHANGED <<current, woken, waitVars>>

NotifyList(r) ==
  /\ notifier[r].pc = "list"
  /\ LET whom == {w \in registered \ woken : r \in runIds[w]}
     IN  SetNotifier(r, IF whom = {} THEN "done" ELSE "read", whom, {})
  /\ UNCHANGED <<row, current, woken, waitVars>>

\* Mutant: only the run just finalized is looked at.
NotifyReadOwn(r) ==
  /\ notifier[r].pc = "read"
  /\ SetNotifier(r, "wake", notifier[r].whom, {r})
  /\ UNCHANGED <<row, current, woken, waitVars>>

\* get_run_wait_results, terminal_only, of every run the listed waiters wait for.
NotifyRead(r) ==
  /\ notifier[r].pc = "read"
  /\ LET whom == notifier[r].whom
         terminal == {q \in UNION {runIds[w] : w \in whom} : row[q] = "terminal"}
     IN  SetNotifier(r, "wake", whom, terminal)
  /\ UNCHANGED <<row, current, woken, waitVars>>

\* Mutant: one terminal run is enough.
NotifyWakeAny(r) ==
  /\ notifier[r].pc = "wake"
  /\ woken' = woken \cup (notifier[r].whom \ expired)
  /\ SetNotifier(r, "done", {}, {})
  /\ UNCHANGED <<row, current, waitVars>>

\* A future that the timeout cancelled is done and is left alone.
NotifyWake(r) ==
  /\ notifier[r].pc = "wake"
  /\ woken' = woken \cup {w \in notifier[r].whom \ expired : runIds[w] \subseteq notifier[r].terminal}
  /\ SetNotifier(r, "done", {}, {})
  /\ UNCHANGED <<row, current, waitVars>>

-----------------------------------------------------------------------------
\* wait_for_agents, one task per frame.

Step(w, from, to) == wait[w] = from /\ wait' = [wait EXCEPT ![w] = to]

\* get_agents_current_runs: the LEFT JOIN on the requester's own runs.
Project(a) ==
  LET r == IF current[a] \in Run \ Foreign THEN current[a] ELSE NoRun
  IN  [run |-> r, status |-> IF r = NoRun THEN "unknown" ELSE row[r]]

\* One of the two reads of build_wait_projection.
Read(w, from, to, agents) ==
  /\ Step(w, from, to)
  /\ answer' = [answer EXCEPT ![w] = [a \in Agent |-> IF a \in agents THEN Project(a) ELSE @[a]]]
  /\ UNCHANGED <<row, current, notifier, woken, runIds, registered, expired, late>>

BeginWait(w)   == Read(w, "idle", "handles", ById[w])
ReadHandles(w) == Read(w, "handles", "register", ByHandle[w])
ReadAgain(w)   == Read(w, "ids2", "handles2", ById[w])
ReadLast(w)    == Read(w, "handles2", "answered", ByHandle[w])

\* wait_target_run_ids
Targets(w) ==
  {answer[w][a].run : a \in {b \in ById[w] \cup ByHandle[w] : answer[w][b].status = "running"}}

\* add_waiter, if there is anything to wait for.  The rows are not read again.
Register(w) ==
  /\ Step(w, "register", IF Targets(w) = {} THEN "ids2" ELSE "waiting")
  /\ runIds' = [runIds EXCEPT ![w] = Targets(w)]
  /\ registered' = IF Targets(w) = {} THEN registered ELSE registered \cup {w}
  /\ late' = IF Targets(w) # {} /\ Targets(w) \cap {r \in Run : notifier[r].pc \in {"idle", "list"}} = {}
               THEN late \cup {w} ELSE late
  /\ UNCHANGED <<row, current, notifier, woken, expired, answer>>

StopWaiting(w, to) == Step(w, "waiting", to) /\ registered' = registered \ {w}

WaitEnds(w) ==
  /\ w \in woken
  /\ StopWaiting(w, "ids2")
  /\ UNCHANGED <<row, current, notifier, woken, runIds, expired, late, answer>>

\* Mutant: the time is counted from the last run that finished.
WaitExpiresFirst(w) ==
  /\ w \notin woken /\ (\A r \in runIds[w] : row[r] = "running")
  /\ StopWaiting(w, "ids2") /\ expired' = expired \cup {w}
  /\ UNCHANGED <<row, current, notifier, woken, runIds, late, answer>>

WaitExpires(w) ==
  /\ w \notin woken
  /\ StopWaiting(w, "ids2") /\ expired' = expired \cup {w}
  /\ UNCHANGED <<row, current, notifier, woken, runIds, late, answer>>

\* The socket of the one who waits ends, and its reply tasks are cancelled.
Abandon(w) ==
  /\ wait[w] \in RunningWait
  /\ wait' = [wait EXCEPT ![w] = "gone"]
  /\ registered' = registered \ {w}
  /\ UNCHANGED <<row, current, notifier, woken, runIds, expired, late, answer>>

NotifyStep(r) == NotifyList(r) \/ NotifyRead(r) \/ NotifyWake(r)
WaitStep(w) ==
  \/ ReadHandles(w) \/ Register(w) \/ WaitEnds(w) \/ WaitExpires(w)
  \/ ReadAgain(w) \/ ReadLast(w)

Next ==
  \/ \E r \in Run : Dispatch(r) \/ Finalize(r) \/ NotifyStep(r)
  \/ \E w \in Wait : BeginWait(w) \/ WaitStep(w) \/ Abandon(w)

Spec == Init /\ [][Next]_vars

\* The event loop and its threads run what is ready, and timeouts fire.
Fairness ==
  /\ \A r \in Run : WF_vars(NotifyStep(r))
  /\ \A w \in Wait : WF_vars(WaitStep(w))

FairSpec == Spec /\ Fairness

-----------------------------------------------------------------------------
\* Properties.

\* A notifier that will set the future of w: it has yet to list the waiters, or
\* it listed w and has read, or will read, that all its runs are terminal.
WillBeWoken(w) ==
  \E r \in runIds[w] :
    \/ notifier[r].pc = "list"
    \/ notifier[r].pc = "read" /\ w \in notifier[r].whom
    \/ /\ notifier[r].pc = "wake" /\ w \in notifier[r].whom
       /\ runIds[w] \subseteq notifier[r].terminal

Asleep(w) == wait[w] = "waiting" /\ w \notin woken
AllTerminal(w) == \A r \in runIds[w] : row[r] = "terminal"

\* However many runs a wait is for, in whichever order and however concurrently
\* they end, the last of their finalizers sees that it was the last: a waiter
\* that came before any one of them listed the waiters is not forgotten.
LastFinalizerWakes == \A w \in Wait \ late : Asleep(w) /\ AllTerminal(w) => WillBeWoken(w)

\* Before its time is up a wait is not told that a run it waited for is running:
\* it can only be told so of a run that a retask made current meanwhile.
RunningAnswerIsOfNewRun ==
  \A w \in Wait : wait[w] = "answered" /\ w \notin expired =>
    \A a \in ById[w] \cup ByHandle[w] :
      answer[w][a].status = "running" => answer[w][a].run \notin runIds[w]

\* Every wait is answered, or its socket has gone.
WaitIsAnswered == \A w \in Wait : wait[w] = "handles" ~> wait[w] \in {"answered", "gone"}

\* hub-protocol.md: the run is marked failed "and waiters are woken".  Nobody is
\* asleep on runs that have all ended with nobody left to wake it.
NobodySleepsOnFinishedRuns == \A w \in Wait : Asleep(w) /\ AllTerminal(w) => WillBeWoken(w)
=============================================================================
