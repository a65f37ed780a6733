------------------------- MODULE ConnectionRegistry -------------------------
(***************************************************************************)
(* Who holds a node id.  One handler task per WebSocket registers the same *)
(* node: a session, its accidental resumptions, its reconnections.  The    *)
(* registry admits one; a newcomer probes the incumbent and takes over     *)
(* from one that does not answer, and the end of the session that holds    *)
(* the node starts the disconnect reaper.  A generation is claimed by one  *)
(* handler, once, so a handler stands for its generation here.             *)
(***************************************************************************)
CONSTANTS
  Socket,  \* WebSocket handlers, in no order
  Nobody   \* no entry in Registry._connections

ASSUME ConstantsAssumption == Nobody \notin Socket

VARIABLES
  pc,      \* where the handler is
  entry,   \* Registry._connections of the node
  seen,    \* the entry a newcomer observed before its probe
  probe,   \* the newcomer's probe of that incumbent
  peer,    \* the client behind the socket
  closed,  \* sockets the daemon closed
  stalled, \* sockets whose client or read loop was ever stuck, or whose client left
  known,   \* the node has been registered and may own runs
  reaper   \* the node's disconnect reaper

sockVars == <<peer, closed, stalled>>
vars == <<pc, entry, seen, probe, sockVars, known, reaper>>

Holding == {"upserting", "serving", "busy", "leaving"}
Serving == {"serving", "busy"}

TypeOK ==
  /\ pc \in [Socket -> {"new", "probing", "touching", "rejected", "done"} \cup Holding]
  /\ entry \in Socket \cup {Nobody}
  /\ seen \in [Socket -> Socket \cup {Nobody}]
  /\ probe \in [Socket -> {"none", "sent", "ponged", "answered", "dead"}]
  /\ peer \in [Socket -> {"well", "frozen", "gone"}]
  /\ closed \subseteq Socket /\ stalled \subseteq Socket
  /\ known \in BOOLEAN
  /\ reaper \in {"none", "grace", "working", "finished"}

Init ==
  /\ pc = [s \in Socket |-> "new"]
  /\ entry = Nobody
  /\ seen = [s \in Socket |-> Nobody]
  /\ probe = [s \in Socket |-> "none"]
  /\ peer = [s \in Socket |-> "well"]
  /\ closed = {} /\ stalled = {}
  /\ known = FALSE
  /\ reaper = "none"

Goto(s, to) == pc' = [pc EXCEPT ![s] = to]
Probe(s, to) == probe' = [probe EXCEPT ![s] = to]

-----------------------------------------------------------------------------
\* Registration.

\* Mutant: a probe is armed per node, so that a second one cancels the first.
RegisterOneProbe(s) ==
  /\ pc[s] = "new"
  /\ IF entry = Nobody
       THEN entry' = s /\ Goto(s, "upserting") /\ UNCHANGED <<seen, probe>>
       ELSE /\ seen' = [seen EXCEPT ![s] = entry]
            /\ probe' = [t \in Socket |-> IF t = s THEN "sent"
                           ELSE IF probe[t] \in {"sent", "ponged"} THEN "dead" ELSE probe[t]]
            /\ Goto(s, "probing") /\ UNCHANGED entry
  /\ UNCHANGED <<sockVars, known, reaper>>

\* A free node is claimed at once, without an await in between; otherwise the
\* incumbent is sent a ping with a nonce of this probe.
Register(s) ==
  /\ pc[s] = "new"
  /\ IF entry = Nobody
       THEN entry' = s /\ Goto(s, "upserting") /\ UNCHANGED <<seen, probe>>
       ELSE /\ seen' = [seen EXCEPT ![s] = entry]
            /\ Probe(s, IF peer[entry] = "gone" THEN "dead" ELSE "sent")
            /\ Goto(s, "probing") /\ UNCHANGED entry
  /\ UNCHANGED <<sockVars, known, reaper>>

\* The incumbent's client answers with the nonce ...
Pong(s) ==
  /\ pc[s] = "probing" /\ probe[s] = "sent" /\ peer[seen[s]] = "well"
  /\ Probe(s, "ponged")
  /\ UNCHANGED <<pc, entry, seen, sockVars, known, reaper>>

\* ... and the incumbent's read loop, when it is not busy, resolves the probe.
ResolveProbe(s) ==
  /\ pc[s] = "probing" /\ probe[s] = "ponged" /\ pc[seen[s]] = "serving"
  /\ Probe(s, "answered")
  /\ UNCHANGED <<pc, entry, seen, sockVars, known, reaper>>

\* Mutant: only a broken transport counts.
ProbeTimeoutOnlyGone(s) ==
  /\ pc[s] = "probing" /\ probe[s] \in {"sent", "ponged"} /\ peer[seen[s]] = "gone"
  /\ Probe(s, "dead")
  /\ UNCHANGED <<pc, entry, seen, sockVars, known, reaper>>

\* Ten seconds are up.  A client and a read loop that were never stuck answer
\* sooner; an incumbent still in its upsert was stuck there.
ProbeTimeout(s) ==
  /\ pc[s] = "probing" /\ probe[s] \in {"sent", "ponged"}
  /\ \/ seen[s] \in stalled \cup closed /\ UNCHANGED stalled
     \/ pc[seen[s]] \notin Serving /\ stalled' = stalled \cup {seen[s]}
  /\ Probe(s, "dead")
  /\ UNCHANGED <<pc, entry, seen, peer, closed, known, reaper>>

Rejected(s) ==
  /\ pc[s] = "probing" /\ probe[s] = "answered"
  /\ Goto(s, "rejected") /\ closed' = closed \cup {s}
  /\ UNCHANGED <<entry, seen, probe, peer, stalled, known, reaper>>

\* Mutant: set_connection, whoever holds the node by now.
TakeOverBlindly(s) ==
  /\ pc[s] = "probing" /\ probe[s] = "dead"
  /\ entry' = s /\ closed' = closed \cup {seen[s]} /\ Goto(s, "upserting")
  /\ UNCHANGED <<seen, probe, peer, stalled, known, reaper>>

\* Close the incumbent's socket, then claim_connection if the entry is still the
\* one observed.  Closing writes to the transport without an await.
TakeOver(s) ==
  /\ pc[s] = "probing" /\ probe[s] = "dead"
  /\ IF entry = seen[s]
       THEN entry' = s /\ closed' = closed \cup {seen[s]} /\ Goto(s, "upserting")
       ELSE Goto(s, "rejected") /\ closed' = closed \cup {seen[s], s} /\ UNCHANGED entry
  /\ UNCHANGED <<seen, probe, peer, stalled, known, reaper>>

\* upsert_agent returned, the registered frame is written, a reaper cancelled.
Registered(s) ==
  /\ pc[s] = "upserting" /\ s \notin closed
  /\ known' = TRUE
  /\ Goto(s, "serving") /\ reaper' = "none"
  /\ UNCHANGED <<entry, seen, probe, sockVars>>

\* upsert_agent raises, or the registered frame cannot be written any more.
RegistrationFails(s) ==
  /\ pc[s] = "upserting"
  /\ Goto(s, "leaving")
  /\ UNCHANGED <<entry, seen, probe, sockVars, known, reaper>>

\* DuplicateAgentHandleError: another agent has the handle, which cannot be for
\* a node that has registered with it before.
DuplicateHandle(s) ==
  /\ pc[s] = "upserting" /\ ~known
  /\ entry' = IF entry = s THEN Nobody ELSE entry
  /\ Goto(s, "rejected") /\ closed' = closed \cup {s}
  /\ UNCHANGED <<seen, probe, peer, stalled, known, reaper>>

-----------------------------------------------------------------------------
\* The read loop.

\* Frames handled inline: dispatch, cancel, messages, workstreams.
BeginFrame(s) ==
  /\ pc[s] = "serving" /\ Goto(s, "busy")
  /\ stalled' = stalled \cup {s}
  /\ UNCHANGED <<entry, seen, probe, peer, closed, known, reaper>>

EndFrame(s) ==
  /\ pc[s] = "busy" /\ Goto(s, "serving")
  /\ UNCHANGED <<entry, seen, probe, sockVars, known, reaper>>

\* A handler raises: the error is sent and the socket closed.
FrameFails(s) ==
  /\ pc[s] = "busy" /\ Goto(s, "leaving")
  /\ closed' = closed \cup {s}
  /\ UNCHANGED <<entry, seen, probe, peer, stalled, known, reaper>>

\* The end of the socket is noticed; reply tasks are cancelled.
ReadLoopEnds(s) ==
  /\ pc[s] = "serving" /\ (peer[s] = "gone" \/ s \in closed)
  /\ Goto(s, "leaving")
  /\ UNCHANGED <<entry, seen, probe, sockVars, known, reaper>>

\* remove_connection with the handler's own generation; then touch_agent.
Remove(s) ==
  /\ pc[s] = "leaving"
  /\ IF entry = s THEN entry' = Nobody /\ Goto(s, "touching")
                  ELSE Goto(s, "done") /\ UNCHANGED entry
  /\ UNCHANGED <<seen, probe, sockVars, known, reaper>>

\* Mutant: no second look at the registry.
ScheduleReaperBlindly(s) ==
  /\ pc[s] = "touching" /\ Goto(s, "done")
  /\ reaper' = "grace"
  /\ UNCHANGED <<entry, seen, probe, sockVars, known>>

\* Mutant: a failed touch_agent ends the handler.
ScheduleReaperIfTouched(s) ==
  /\ pc[s] = "touching" /\ Goto(s, "done")
  /\ reaper' \in {reaper, IF entry = Nobody THEN "grace" ELSE reaper}
  /\ UNCHANGED <<entry, seen, probe, sockVars, known>>

\* touch_agent suspended the handler: schedule_disconnect_reaper, which replaces
\* a previous reaper, only if nobody came in the meantime.
ScheduleReaper(s) ==
  /\ pc[s] = "touching" /\ Goto(s, "done")
  /\ reaper' = IF entry = Nobody THEN "grace" ELSE reaper
  /\ UNCHANGED <<entry, seen, probe, sockVars, known>>

-----------------------------------------------------------------------------
\* The reaper looks at the registry when it wakes and before each run.

ReaperWakes ==
  /\ reaper = "grace"
  /\ reaper' = IF entry # Nobody THEN "none" ELSE "working"
  /\ UNCHANGED <<pc, entry, seen, probe, sockVars, known>>

ReaperEnds ==
  /\ reaper = "working"
  /\ reaper' = IF entry # Nobody THEN "none" ELSE "finished"
  /\ UNCHANGED <<pc, entry, seen, probe, sockVars, known>>

-----------------------------------------------------------------------------
\* The client, as long as its handler listens to it.
Freeze(s) ==
  /\ peer[s] = "well" /\ pc[s] \in Holding
  /\ peer' = [peer EXCEPT ![s] = "frozen"] /\ stalled' = stalled \cup {s}
  /\ UNCHANGED <<pc, entry, seen, probe, closed, known, reaper>>

Thaw(s) ==
  /\ peer[s] = "frozen" /\ pc[s] \in Holding
  /\ peer' = [peer EXCEPT ![s] = "well"]
  /\ UNCHANGED <<pc, entry, seen, probe, closed, stalled, known, reaper>>

Leave(s) ==
  /\ peer[s] # "gone" /\ pc[s] \in Holding \cup {"probing"}
  /\ peer' = [peer EXCEPT ![s] = "gone"] /\ stalled' = stalled \cup {s}
  /\ UNCHANGED <<pc, entry, seen, probe, closed, known, reaper>>

HandlerStep(s) ==
  \/ ResolveProbe(s) \/ ProbeTimeout(s) \/ Rejected(s) \/ TakeOver(s)
  \/ Registered(s) \/ RegistrationFails(s) \/ DuplicateHandle(s)
  \/ EndFrame(s) \/ FrameFails(s) \/ ReadLoopEnds(s) \/ Remove(s) \/ ScheduleReaper(s)
ReaperStep == ReaperWakes \/ ReaperEnds
ClientStep(s) == Pong(s) \/ Freeze(s) \/ Thaw(s) \/ Leave(s)

Next ==
  \/ \E s \in Socket : Register(s) \/ BeginFrame(s) \/ HandlerStep(s) \/ ClientStep(s)
  \/ ReaperStep

Spec == Init /\ [][Next]_vars

\* The event loop runs every ready handler and its timers; a client that is well
\* answers a ping.  Nothing makes a client connect, thaw or leave.
Fairness ==
  /\ \A s \in Socket : WF_vars(HandlerStep(s)) /\ WF_vars(Pong(s))
  /\ WF_vars(ReaperStep)

FairSpec == Spec /\ Fairness

-----------------------------------------------------------------------------
\* Properties.

\* A session whose client and read loop were never stuck keeps its node, however
\* many registrations probe it, and whomever they observed when they began.
LiveIncumbentKeepsNode == \A s \in Socket \ stalled : pc[s] \in Serving => entry = s

\* A handler that serves frames is the registered one, or its socket is closed:
\* nobody goes on serving while invisible to routing and to its own clean-up.
DisplacedHandlerIsClosed == \A s \in Socket : pc[s] \in Serving => entry = s \/ s \in closed

\* A session that is being served is not under the reaper of a former absence,
\* although the end of the former session suspends before it schedules one.
ServedSessionIsNotReaped ==
  \A s \in Socket : entry = s /\ pc[s] \in Serving => reaper \in {"none", "finished"}

\* A node that has registered and is away is under a reaper, was reaped, or the
\* handler that removed it is about to schedule one.
AbsentNodeIsReaped ==
  entry = Nobody /\ known => reaper # "none" \/ \E s \in Socket : pc[s] = "touching"

\* An entry is of a handler that will remove it: the node is never locked.
EntryHasHandler == entry # Nobody => pc[entry] \in Holding

\* Whoever registers, is probed, fails and leaves at once, the node keeps the promise of
\* NodeSession: it goes from one session to another only if the former was lost, who lost it
\* is closed, and nothing is reaped while a session is served.
Node == INSTANCE NodeSession
          WITH holder <- entry, served <- {s \in Socket : pc[s] \in Serving}, lost <- stalled,
               reaping <- reaper = "working"

NodeKeepsItsPromise == Node!Spec

\* A registration that probes is answered, one way or the other.
ProbeIsDecided ==
  \A s \in Socket : pc[s] = "probing" ~> pc[s] \in {"rejected", "upserting"}

\* hub-protocol.md: "only an unanswered probe releases the node id".  A newcomer
\* is told that its node is already connected only if it is.
RejectedOnlyIfHeld ==
  [][\A s \in Socket : pc[s] = "probing" /\ pc'[s] = "rejected" => entry # Nobody]_vars
=============================================================================
