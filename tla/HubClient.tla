------------------------------ MODULE HubClient ------------------------------
(***************************************************************************)
(* One process' connection to the hub.  session_start ensures the hub and  *)
(* opens a socket, session_shutdown closes it; the connection, its         *)
(* metadata publisher and the peer delivery handler are process scoped and *)
(* survive a /reload, the list of cleanups is the load's own.  JavaScript  *)
(* runs one task at a time: an action is what runs between two awaits.     *)
(***************************************************************************)
EXTENDS Naturals

CONSTANTS
  Socket,    \* connections, one per session_start
  Request,   \* tool calls that send frames and wait for their answers
  Attempts,  \* how often a dispatch tries, on a duplicate handle
  MaxLoads,  \* bound on how often the extension is loaded
  NoSocket

ASSUME ClientAssumption == NoSocket \notin Socket /\ MaxLoads \in Nat \ {0} /\ Attempts \in Nat \ {0}

VARIABLES
  load,       \* which load of the extension is current
  session,    \* "down", "up", or "stopping": session_shutdown awaits the attempt
  socket,     \* each socket's state
  outdated,   \* attempts of an earlier generation
  connection, \* state.connection
  connecting, \* state.connecting
  wired,      \* what connect listeners left: see NoWiring
  daemon,     \* the status shown
  request

clientVars == <<load, session, socket, outdated, connection, connecting, wired, daemon, request>>

SocketState == {"unused", "ensuring", "opening", "open", "stray", "closing", "closed"}

\* HubConnectionState.metadataWiring and AgentConnectState.
NoWiring == [publisher |-> NoSocket,      \* the connection metadata is published on
             handlers  |-> [s \in Socket |-> 0], \* delivery handlers subscribed on each socket
             unsub     |-> NoSocket,      \* whose handler peerDeliveryUnsubscribe removes
             widget    |-> FALSE,         \* the widget polls
             cleanups  |-> FALSE]         \* this load has cleanups to run

ClientTypeOK ==
  /\ load \in 1..MaxLoads /\ session \in {"down", "up", "stopping"}
  /\ socket \in [Socket -> SocketState] /\ outdated \subseteq Socket
  /\ connection \in Socket \cup {NoSocket} /\ connecting \in Socket \cup {NoSocket}
  /\ wired.publisher \in Socket \cup {NoSocket} /\ wired.unsub \in Socket \cup {NoSocket}
  /\ wired.handlers \in [Socket -> Nat] /\ wired.widget \in BOOLEAN /\ wired.cleanups \in BOOLEAN
  /\ daemon \in {"idle", "starting", "connected", "unavailable", "disconnected"}
  /\ request \in [Request -> [at : {"idle", "held", "waiting", "answered", "failed"},
                              for : {"answer", "wait", "list", "dispatch", "ask"},
                              on : Socket \cup {NoSocket}, late : BOOLEAN, try : 1..Attempts]]

ClientInit ==
  /\ load = 1 /\ session = "down"
  /\ socket = [s \in Socket |-> "unused"] /\ outdated = {}
  /\ connection = NoSocket /\ connecting = NoSocket
  /\ wired = NoWiring /\ daemon = "idle"
  /\ request = [r \in Request |-> [at |-> "idle", for |-> "answer", on |-> NoSocket,
                                   late |-> FALSE, try |-> 1]]

-----------------------------------------------------------------------------
\* Wiring.

\* peerDeliveryUnsubscribe?.()
Unsubscribe(w) ==
  IF w.unsub = NoSocket THEN w ELSE [w EXCEPT !.handlers[w.unsub] = @ - 1, !.unsub = NoSocket]

\* The cleanup registerAgentSurfaces returned, if this load has one.
RunCleanups(w) ==
  IF ~w.cleanups THEN w ELSE [Unsubscribe(w) EXCEPT !.widget = FALSE, !.cleanups = FALSE]

ClearMetadata(w) == [w EXCEPT !.publisher = NoSocket]

\* startSessionMetadataPublisher, in place of the publisher there was.
Publish(w, s) == [ClearMetadata(w) EXCEPT !.publisher = s]

\* The connect listener of registerAgentSurfaces: stop the widget, unsubscribe, wire anew.
Subscribe(w, s) ==
  [Unsubscribe(w) EXCEPT !.handlers[s] = @ + 1, !.unsub = s, !.widget = TRUE, !.cleanups = TRUE]

\* What session_start does once it has a connection.
Wire(w, s) == Subscribe(Publish(RunCleanups(w), s), s)

-----------------------------------------------------------------------------
\* session_start.

\* A connection that survived a reload is wired at once; otherwise a new attempt starts.
\* The status stays "starting" on a survivor: only trackDaemonConnection says "connected".
StartSession(w) ==
  /\ daemon' = "starting" /\ session' = "up"
  /\ IF connection # NoSocket
     THEN wired' = Wire(w, connection) /\ UNCHANGED <<socket, connecting>>
     ELSE \E s \in Socket :
            /\ socket[s] = "unused" /\ socket' = [socket EXCEPT ![s] = "ensuring"]
            /\ connecting' = s /\ wired' = w

SessionStart ==
  /\ session = "down" /\ StartSession(wired)
  /\ UNCHANGED <<load, outdated, connection, request>>

\* A reload: fresh modules, so no cleanups; with or without a shutdown before it.
Reload ==
  /\ load < MaxLoads /\ session # "stopping" /\ connecting = NoSocket
  /\ load' = load + 1 /\ StartSession([wired EXCEPT !.cleanups = FALSE])
  /\ UNCHANGED <<outdated, connection, request>>

\* ensureDaemon returned (a spawned agent takes BASECAMP_DAEMON_UDS): open the socket.
Ensured(s) ==
  /\ socket[s] = "ensuring" /\ socket' = [socket EXCEPT ![s] = "opening"]
  /\ UNCHANGED <<load, session, outdated, connection, connecting, wired, daemon, request>>

Finish(s) == connecting' = IF s \in outdated THEN connecting ELSE NoSocket

\* Mutant: the generation is not compared once the connection is there.
RegisteredStale(s) ==
  /\ socket[s] = "opening" /\ Finish(s)
  /\ socket' = [socket EXCEPT ![s] = "open"] /\ connection' = s
  /\ daemon' = "connected" /\ wired' = Wire(wired, s)
  /\ UNCHANGED <<load, session, outdated, request>>

\* The hub answered `registered`: an attempt of an earlier generation closes its socket.
Registered(s) ==
  /\ socket[s] = "opening" /\ Finish(s)
  /\ IF s \in outdated
     THEN socket' = [socket EXCEPT ![s] = "closing"] /\ UNCHANGED <<connection, daemon, wired>>
     ELSE /\ socket' = [socket EXCEPT ![s] = "open"] /\ connection' = s
          /\ daemon' = "connected" /\ wired' = Wire(wired, s)
  /\ UNCHANGED <<load, session, outdated, request>>

\* connect rejects, or ensureDaemon throws.  A socket whose hub speaks another protocol
\* is left open by connect: a stray.
ConnectFails(s) ==
  /\ \/ socket[s] = "ensuring" /\ socket' = [socket EXCEPT ![s] = "closed"]
     \/ socket[s] = "opening" /\ \E end \in {"closed", "stray"} : socket' = [socket EXCEPT ![s] = end]
  /\ Finish(s)
  /\ IF s \in outdated THEN UNCHANGED <<daemon, wired>>
     ELSE daemon' = "unavailable" /\ wired' = RunCleanups(ClearMetadata(wired))
  /\ UNCHANGED <<load, session, outdated, connection, request>>

\* Mutant: waitForFrame does not listen for the close event.
ClosedUnheard(s) ==
  /\ socket[s] \in {"open", "stray", "closing"} /\ socket' = [socket EXCEPT ![s] = "closed"]
  /\ connection' = IF connection = s THEN NoSocket ELSE connection
  /\ daemon' = IF connection = s THEN "disconnected" ELSE daemon
  /\ LET w == IF wired.publisher = s THEN RunCleanups(ClearMetadata(wired)) ELSE wired
     IN  wired' = IF w.unsub = s THEN [w EXCEPT !.unsub = NoSocket] ELSE w
  /\ UNCHANGED <<load, session, outdated, connecting, request>>

\* The close event: trackDaemonConnection's handler, then the wiring's, then the delivery's,
\* and waitForFrame's of every request that waits.
Closed(s) ==
  /\ socket[s] \in {"open", "stray", "closing"} /\ socket' = [socket EXCEPT ![s] = "closed"]
  /\ connection' = IF connection = s THEN NoSocket ELSE connection
  /\ daemon' = IF connection = s THEN "disconnected" ELSE daemon
  /\ LET w == IF wired.publisher = s THEN RunCleanups(ClearMetadata(wired)) ELSE wired
     IN  wired' = IF w.unsub = s THEN [w EXCEPT !.unsub = NoSocket] ELSE w
  /\ request' = [r \in Request |-> IF request[r].at = "waiting" /\ request[r].on = s
                                   THEN [request[r] EXCEPT !.at = "failed"] ELSE request[r]]
  /\ UNCHANGED <<load, session, outdated, connecting>>

-----------------------------------------------------------------------------
\* session_shutdown.

Shutdown ==
  /\ session = "up"
  /\ session' = IF connecting = NoSocket THEN "down" ELSE "stopping"
  /\ outdated' = outdated \cup (Socket \cap {connecting})
  /\ connection' = NoSocket /\ connecting' = NoSocket /\ daemon' = "idle"
  /\ wired' = RunCleanups(ClearMetadata(wired))
  /\ socket' = [s \in Socket |-> IF s = connection /\ socket[s] = "open" THEN "closing" ELSE socket[s]]
  /\ UNCHANGED <<load, request>>

\* The attempt that session_shutdown awaits has ended.
ShutdownEnds ==
  /\ session = "stopping" /\ \A s \in outdated : socket[s] \notin {"ensuring", "opening"}
  /\ session' = "down"
  /\ UNCHANGED <<load, socket, outdated, connection, connecting, wired, daemon, request>>

-----------------------------------------------------------------------------
\* Tool calls.

sessionVars == <<load, session, socket, outdated, connection, connecting, wired, daemon>>

\* awaitDaemonConnection, which waits for an attempt that is under way; no connection, no call.
Begins(r, at, for) ==
  /\ request[r].at = "idle" /\ session = "up" /\ connecting = NoSocket
  /\ request' = [request EXCEPT ![r] =
       [@ EXCEPT !.at = IF connection = NoSocket THEN "failed" ELSE at,
                 !.for = for, !.on = connection]]
  /\ UNCHANGED sessionVars

\* One frame, one answer.
ListAgents(r)   == Begins(r, "waiting", "answer")
CancelAgent(r)  == Begins(r, "waiting", "answer")
MessageAgent(r) == Begins(r, "waiting", "answer")

\* The calls that take the user's abort.
WaitForAgent(r)  == Begins(r, "waiting", "wait")
MessageStatus(r) == Begins(r, "waiting", "wait")

\* A workspace comes first, and for a retask the list of agents.
DispatchAgent(r) == Begins(r, "held", "dispatch") \/ Begins(r, "waiting", "list")
AskAgent(r)      == Begins(r, "held", "ask")

\* The workspace is provisioned: the connection the call holds may have closed since.
\* waitForFrame subscribes to a close event that then never comes.
Issue(r) ==
  /\ request[r].at = "held"
  /\ request' = [request EXCEPT ![r] =
       [@ EXCEPT !.at = "waiting", !.late = socket[request[r].on] = "closed"]]
  /\ UNCHANGED sessionVars

\* Provisioning throws, or the launch is refused.
LaunchRefused(r) ==
  /\ request[r].at = "held" /\ request' = [request EXCEPT ![r].at = "failed"]
  /\ UNCHANGED sessionVars

\* awaitAnswer: one wait for the answerer, which the user may abort.
AwaitAnswer(q) == [q EXCEPT !.for = "wait"]

\* What an answer leads to.  Any may be the last: a result, a rejection, an unknown handle.
\* The listed agent is retasked, once; a duplicate handle is dispatched again under another
\* name, ask_agent in the workspace it has; an accepted question is waited for.
After(q) ==
  LET again == IF q.try < Attempts THEN {q.try + 1} ELSE {} IN
  {[q EXCEPT !.at = "answered"]} \cup
  CASE q.for = "list"     -> {[q EXCEPT !.at = "held", !.for = "dispatch", !.try = Attempts]}
    [] q.for = "dispatch" -> {[q EXCEPT !.at = "held", !.try = n] : n \in again}
    [] q.for = "ask"      -> {AwaitAnswer(q)} \cup {[q EXCEPT !.try = n] : n \in again}
    [] OTHER              -> {}

Answer(r) ==
  /\ request[r].at = "waiting" /\ socket[request[r].on] = "open"
  /\ \E q \in After(request[r]) : request' = [request EXCEPT ![r] = q]
  /\ UNCHANGED sessionVars

Abort(r) ==
  /\ request[r].at = "waiting" /\ request[r].for = "wait"
  /\ request' = [request EXCEPT ![r].at = "failed"]
  /\ UNCHANGED sessionVars

ClientNext ==
  \/ SessionStart \/ Reload \/ Shutdown \/ ShutdownEnds
  \/ \E s \in Socket : Ensured(s) \/ Registered(s) \/ ConnectFails(s) \/ Closed(s)
  \/ \E r \in Request :
       \/ ListAgents(r) \/ CancelAgent(r) \/ MessageAgent(r) \/ WaitForAgent(r) \/ MessageStatus(r)
       \/ DispatchAgent(r) \/ AskAgent(r) \/ Issue(r) \/ LaunchRefused(r) \/ Answer(r) \/ Abort(r)

\* A close that was asked for completes, a hub answers a request it received, and
\* provisioning, whose commands have time limits, ends.
ClientFairness ==
  /\ \A s \in Socket : WF_clientVars(socket[s] = "closing" /\ Closed(s))
  /\ \A r \in Request : WF_clientVars(Answer(r)) /\ WF_clientVars(Issue(r) \/ LaunchRefused(r))

ClientSpec == ClientInit /\ [][ClientNext]_clientVars /\ ClientFairness

-----------------------------------------------------------------------------
\* Over reloads, drops and restarts a message reaches the session once: of all sockets
\* only state.connection is live, so that no earlier session's socket answers the hub's probe
\* of a later one; it has one delivery handler and the metadata is published on it; and
\* nothing is delivered on another socket, the stray of another protocol included.  A session
\* that was shut down while it connected leaves no connection behind.
DeliveredOnce ==
  /\ session = "down" => connection = NoSocket
  /\ \A s \in Socket : socket[s] \in {"open", "stray"} =>
       /\ socket[s] = "open" => s = connection
       /\ wired.handlers[s] = IF s = connection THEN 1 ELSE 0
       /\ wired.publisher = s <=> s = connection

\* A tool call is answered or fails, whatever it retries and whenever the connection closes,
\* unless it subscribed to a socket that had closed before.
RequestSettles ==
  \A r \in Request : request[r].at \in {"held", "waiting"}
                     ~> request[r].at \in {"answered", "failed"} \/ request[r].late
=============================================================================
