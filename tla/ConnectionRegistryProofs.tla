---------------------- MODULE ConnectionRegistryProofs ----------------------
(***************************************************************************)
(* Theorems about ConnectionRegistry, for every set of sockets.            *)
(***************************************************************************)
EXTENDS ConnectionRegistry, TLAPS

USE DEF Holding, Serving

\* A handler that registers or serves holds the node, or was displaced and closed.
HolderShape(s) ==
  /\ pc[s] \in {"new", "probing"} => s \notin closed
  /\ pc[s] \in {"upserting"} \cup Serving => entry = s \/ s \in closed
  /\ pc[s] \in {"upserting"} \cup Serving /\ s \in closed => entry # s
  /\ pc[s] \in Serving /\ s \notin stalled => entry = s
  /\ peer[s] = "gone" \/ pc[s] = "busy" => s \in stalled
  /\ pc[s] = "leaving" /\ entry = s /\ s \in closed => s \in stalled

\* A newcomer probes a handler that got further than itself, and gives up only on
\* one that was stuck, left or was closed.
ProbeShape(s) ==
  /\ pc[s] = "probing" => seen[s] \in Socket /\ pc[seen[s]] \notin {"new", "probing"}
  /\ pc[s] = "probing" /\ probe[s] = "dead" => seen[s] \in stalled \cup closed

Inv ==
  /\ TypeOK
  /\ EntryHasHandler
  /\ \A s \in Socket : HolderShape(s)
  /\ \A s \in Socket : ProbeShape(s)

\* A handler starts in the inductive invariant.
LEMMA InvInit == Init => Inv
BY ConstantsAssumption DEF Init, Inv, TypeOK, EntryHasHandler, HolderShape, ProbeShape

\* Steps of a newcomer up to the decision on its registration.
LEMMA NewcomerStep ==
  ASSUME Inv, NEW s \in Socket,
         \/ Register(s) \/ Pong(s) \/ ResolveProbe(s) \/ ProbeTimeout(s)
         \/ Rejected(s) \/ TakeOver(s)
  PROVE  Inv'
<1> USE ConstantsAssumption DEF Goto, Probe, sockVars
<1>1. CASE Register(s)
  <2> USE <1>1 DEF Register
  <2>1. TypeOK'
    BY DEF Inv, TypeOK
  <2>2. EntryHasHandler'
    BY DEF Inv, TypeOK, EntryHasHandler, HolderShape, ProbeShape
  <2>3. ASSUME NEW t \in Socket PROVE HolderShape(t)'
    BY DEF Inv, TypeOK, EntryHasHandler, HolderShape, ProbeShape
  <2>4. ASSUME NEW t \in Socket PROVE ProbeShape(t)'
    BY DEF Inv, TypeOK, EntryHasHandler, HolderShape, ProbeShape
  <2> QED
    BY <2>1, <2>2, <2>3, <2>4 DEF Inv
<1>2. CASE Pong(s)
  <2> USE <1>2 DEF Pong
  <2>1. TypeOK'
    BY DEF Inv, TypeOK
  <2>2. EntryHasHandler'
    BY DEF Inv, TypeOK, EntryHasHandler, HolderShape, ProbeShape
  <2>3. ASSUME NEW t \in Socket PROVE HolderShape(t)'
    BY DEF Inv, TypeOK, EntryHasHandler, HolderShape, ProbeShape
  <2>4. ASSUME NEW t \in Socket PROVE ProbeShape(t)'
    BY DEF Inv, TypeOK, EntryHasHandler, HolderShape, ProbeShape
  <2> QED
    BY <2>1, <2>2, <2>3, <2>4 DEF Inv
<1>3. CASE ResolveProbe(s)
  <2> USE <1>3 DEF ResolveProbe
  <2>1. TypeOK'
    BY DEF Inv, TypeOK
  <2>2. EntryHasHandler'
    BY DEF Inv, TypeOK, EntryHasHandler, HolderShape, ProbeShape
  <2>3. ASSUME NEW t \in Socket PROVE HolderShape(t)'
    BY DEF Inv, TypeOK, EntryHasHandler, HolderShape, ProbeShape
  <2>4. ASSUME NEW t \in Socket PROVE ProbeShape(t)'
    BY DEF Inv, TypeOK, EntryHasHandler, HolderShape, ProbeShape
  <2> QED
    BY <2>1, <2>2, <2>3, <2>4 DEF Inv
<1>4. CASE ProbeTimeout(s)
  <2> USE <1>4 DEF ProbeTimeout
  <2>1. TypeOK'
    BY DEF Inv, TypeOK, ProbeShape
  <2>2. EntryHasHandler'
    BY DEF Inv, TypeOK, EntryHasHandler, HolderShape, ProbeShape
  <2>3. ASSUME NEW t \in Socket PROVE HolderShape(t)'
    BY DEF Inv, TypeOK, EntryHasHandler, HolderShape, ProbeShape
  <2>4. ASSUME NEW t \in Socket PROVE ProbeShape(t)'
    BY DEF Inv, TypeOK, EntryHasHandler, HolderShape, ProbeShape
  <2> QED
    BY <2>1, <2>2, <2>3, <2>4 DEF Inv
<1>5. CASE Rejected(s)
  <2> USE <1>5 DEF Rejected
  <2>1. TypeOK'
    BY DEF Inv, TypeOK
  <2>2. EntryHasHandler'
    BY DEF Inv, TypeOK, EntryHasHandler, HolderShape, ProbeShape
  <2>3. ASSUME NEW t \in Socket PROVE HolderShape(t)'
    BY DEF Inv, TypeOK, EntryHasHandler, HolderShape, ProbeShape
  <2>4. ASSUME NEW t \in Socket PROVE ProbeShape(t)'
    BY DEF Inv, TypeOK, EntryHasHandler, HolderShape, ProbeShape
  <2> QED
    BY <2>1, <2>2, <2>3, <2>4 DEF Inv
<1>6. CASE TakeOver(s)
  <2> USE <1>6 DEF TakeOver
  <2>1. TypeOK'
    BY DEF Inv, TypeOK, ProbeShape
  <2>2. EntryHasHandler'
    BY DEF Inv, TypeOK, EntryHasHandler, HolderShape, ProbeShape
  <2>3. ASSUME NEW t \in Socket PROVE HolderShape(t)'
    BY DEF Inv, TypeOK, EntryHasHandler, HolderShape, ProbeShape
  <2>4. ASSUME NEW t \in Socket PROVE ProbeShape(t)'
    BY DEF Inv, TypeOK, EntryHasHandler, HolderShape, ProbeShape
  <2> QED
    BY <2>1, <2>2, <2>3, <2>4 DEF Inv
<1> QED
  BY <1>1, <1>2, <1>3, <1>4, <1>5, <1>6

\* Steps of a handler that registers, serves or ends.
LEMMA HolderStep ==
  ASSUME Inv, NEW s \in Socket,
         \/ Registered(s) \/ RegistrationFails(s) \/ DuplicateHandle(s) \/ BeginFrame(s)
         \/ EndFrame(s) \/ FrameFails(s) \/ ReadLoopEnds(s) \/ Remove(s)
         \/ ScheduleReaper(s)
  PROVE  Inv'
<1> USE ConstantsAssumption DEF Goto, Probe, sockVars
<1>1. CASE Registered(s)
  <2> USE <1>1 DEF Registered
  <2>1. TypeOK'
    BY DEF Inv, TypeOK
  <2>2. EntryHasHandler'
    BY DEF Inv, TypeOK, EntryHasHandler, HolderShape, ProbeShape
  <2>3. ASSUME NEW t \in Socket PROVE HolderShape(t)'
    BY DEF Inv, TypeOK, EntryHasHandler, HolderShape, ProbeShape
  <2>4. ASSUME NEW t \in Socket PROVE ProbeShape(t)'
    BY DEF Inv, TypeOK, EntryHasHandler, HolderShape, ProbeShape
  <2> QED
    BY <2>1, <2>2, <2>3, <2>4 DEF Inv
<1>2. CASE RegistrationFails(s)
  <2> USE <1>2 DEF RegistrationFails
  <2>1. TypeOK'
    BY DEF Inv, TypeOK
  <2>2. EntryHasHandler'
    BY DEF Inv, TypeOK, EntryHasHandler, HolderShape, ProbeShape
  <2>3. ASSUME NEW t \in Socket PROVE HolderShape(t)'
    BY DEF Inv, TypeOK, EntryHasHandler, HolderShape, ProbeShape
  <2>4. ASSUME NEW t \in Socket PROVE ProbeShape(t)'
    BY DEF Inv, TypeOK, EntryHasHandler, HolderShape, ProbeShape
  <2> QED
    BY <2>1, <2>2, <2>3, <2>4 DEF Inv
<1>3. CASE DuplicateHandle(s)
  <2> USE <1>3 DEF DuplicateHandle
  <2>1. TypeOK'
    BY DEF Inv, TypeOK
  <2>2. EntryHasHandler'
    BY DEF Inv, TypeOK, EntryHasHandler, HolderShape, ProbeShape
  <2>3. ASSUME NEW t \in Socket PROVE HolderShape(t)'
    BY DEF Inv, TypeOK, EntryHasHandler, HolderShape, ProbeShape
  <2>4. ASSUME NEW t \in Socket PROVE ProbeShape(t)'
    BY DEF Inv, TypeOK, EntryHasHandler, HolderShape, ProbeShape
  <2> QED
    BY <2>1, <2>2, <2>3, <2>4 DEF Inv
<1>4. CASE BeginFrame(s)
  <2> USE <1>4 DEF BeginFrame
  <2>1. TypeOK'
    BY DEF Inv, TypeOK
  <2>2. EntryHasHandler'
    BY DEF Inv, TypeOK, EntryHasHandler, HolderShape, ProbeShape
  <2>3. ASSUME NEW t \in Socket PROVE HolderShape(t)'
    BY DEF Inv, TypeOK, EntryHasHandler, HolderShape, ProbeShape
  <2>4. ASSUME NEW t \in Socket PROVE ProbeShape(t)'
    BY DEF Inv, TypeOK, EntryHasHandler, HolderShape, ProbeShape
  <2> QED
    BY <2>1, <2>2, <2>3, <2>4 DEF Inv
<1>5. CASE EndFrame(s)
  <2> USE <1>5 DEF EndFrame
  <2>1. TypeOK'
    BY DEF Inv, TypeOK
  <2>2. EntryHasHandler'
    BY DEF Inv, TypeOK, EntryHasHandler, HolderShape, ProbeShape
  <2>3. ASSUME NEW t \in Socket PROVE HolderShape(t)'
    BY DEF Inv, TypeOK, EntryHasHandler, HolderShape, ProbeShape
  <2>4. ASSUME NEW t \in Socket PROVE ProbeShape(t)'
    BY DEF Inv, TypeOK, EntryHasHandler, HolderShape, ProbeShape
  <2> QED
    BY <2>1, <2>2, <2>3, <2>4 DEF Inv
<1>6. CASE FrameFails(s)
  <2> USE <1>6 DEF FrameFails
  <2>1. TypeOK'
    BY DEF Inv, TypeOK
  <2>2. EntryHasHandler'
    BY DEF Inv, TypeOK, EntryHasHandler, HolderShape, ProbeShape
  <2>3. ASSUME NEW t \in Socket PROVE HolderShape(t)'
    BY DEF Inv, TypeOK, EntryHasHandler, HolderShape, ProbeShape
  <2>4. ASSUME NEW t \in Socket PROVE ProbeShape(t)'
    BY DEF Inv, TypeOK, EntryHasHandler, HolderShape, ProbeShape
  <2> QED
    BY <2>1, <2>2, <2>3, <2>4 DEF Inv
<1>7. CASE ReadLoopEnds(s)
  <2> USE <1>7 DEF ReadLoopEnds
  <2>1. TypeOK'
    BY DEF Inv, TypeOK
  <2>2. EntryHasHandler'
    BY DEF Inv, TypeOK, EntryHasHandler, HolderShape, ProbeShape
  <2>3. ASSUME NEW t \in Socket PROVE HolderShape(t)'
    BY DEF Inv, TypeOK, EntryHasHandler, HolderShape, ProbeShape
  <2>4. ASSUME NEW t \in Socket PROVE ProbeShape(t)'
    BY DEF Inv, TypeOK, EntryHasHandler, HolderShape, ProbeShape
  <2> QED
    BY <2>1, <2>2, <2>3, <2>4 DEF Inv
<1>8. CASE Remove(s)
  <2> USE <1>8 DEF Remove
  <2>1. TypeOK'
    BY DEF Inv, TypeOK
  <2>2. EntryHasHandler'
    BY DEF Inv, TypeOK, EntryHasHandler, HolderShape, ProbeShape
  <2>3. ASSUME NEW t \in Socket PROVE HolderShape(t)'
    BY DEF Inv, TypeOK, EntryHasHandler, HolderShape, ProbeShape
  <2>4. ASSUME NEW t \in Socket PROVE ProbeShape(t)'
    BY DEF Inv, TypeOK, EntryHasHandler, HolderShape, ProbeShape
  <2> QED
    BY <2>1, <2>2, <2>3, <2>4 DEF Inv
<1>9. CASE ScheduleReaper(s)
  <2> USE <1>9 DEF ScheduleReaper
  <2>1. TypeOK'
    BY DEF Inv, TypeOK
  <2>2. EntryHasHandler'
    BY DEF Inv, TypeOK, EntryHasHandler, HolderShape, ProbeShape
  <2>3. ASSUME NEW t \in Socket PROVE HolderShape(t)'
    BY DEF Inv, TypeOK, EntryHasHandler, HolderShape, ProbeShape
  <2>4. ASSUME NEW t \in Socket PROVE ProbeShape(t)'
    BY DEF Inv, TypeOK, EntryHasHandler, HolderShape, ProbeShape
  <2> QED
    BY <2>1, <2>2, <2>3, <2>4 DEF Inv
<1> QED
  BY <1>1, <1>2, <1>3, <1>4, <1>5, <1>6, <1>7, <1>8, <1>9

\* Steps of the client behind a socket.
LEMMA PeerStep ==
  ASSUME Inv, NEW s \in Socket,
         Freeze(s) \/ Thaw(s) \/ Leave(s)
  PROVE  Inv'
<1> USE ConstantsAssumption DEF Goto, Probe, sockVars
<1>1. CASE Freeze(s)
  <2> USE <1>1 DEF Freeze
  <2>1. TypeOK'
    BY DEF Inv, TypeOK
  <2>2. EntryHasHandler'
    BY DEF Inv, TypeOK, EntryHasHandler, HolderShape, ProbeShape
  <2>3. ASSUME NEW t \in Socket PROVE HolderShape(t)'
    BY DEF Inv, TypeOK, EntryHasHandler, HolderShape, ProbeShape
  <2>4. ASSUME NEW t \in Socket PROVE ProbeShape(t)'
    BY DEF Inv, TypeOK, EntryHasHandler, HolderShape, ProbeShape
  <2> QED
    BY <2>1, <2>2, <2>3, <2>4 DEF Inv
<1>2. CASE Thaw(s)
  <2> USE <1>2 DEF Thaw
  <2>1. TypeOK'
    BY DEF Inv, TypeOK
  <2>2. EntryHasHandler'
    BY DEF Inv, TypeOK, EntryHasHandler, HolderShape, ProbeShape
  <2>3. ASSUME NEW t \in Socket PROVE HolderShape(t)'
    BY DEF Inv, TypeOK, EntryHasHandler, HolderShape, ProbeShape
  <2>4. ASSUME NEW t \in Socket PROVE ProbeShape(t)'
    BY DEF Inv, TypeOK, EntryHasHandler, HolderShape, ProbeShape
  <2> QED
    BY <2>1, <2>2, <2>3, <2>4 DEF Inv
<1>3. CASE Leave(s)
  <2> USE <1>3 DEF Leave
  <2>1. TypeOK'
    BY DEF Inv, TypeOK
  <2>2. EntryHasHandler'
    BY DEF Inv, TypeOK, EntryHasHandler, HolderShape, ProbeShape
  <2>3. ASSUME NEW t \in Socket PROVE HolderShape(t)'
    BY DEF Inv, TypeOK, EntryHasHandler, HolderShape, ProbeShape
  <2>4. ASSUME NEW t \in Socket PROVE ProbeShape(t)'
    BY DEF Inv, TypeOK, EntryHasHandler, HolderShape, ProbeShape
  <2> QED
    BY <2>1, <2>2, <2>3, <2>4 DEF Inv
<1> QED
  BY <1>1, <1>2, <1>3

\* Every action keeps the inductive invariant.
LEMMA InvStep == Inv /\ [Next]_vars => Inv'
<1> SUFFICES ASSUME Inv, [Next]_vars PROVE Inv'
  OBVIOUS
<1>1. ASSUME ReaperStep \/ UNCHANGED vars PROVE Inv'
  <2>1. UNCHANGED <<pc, entry, seen, probe, peer, closed, stalled, known>>
    BY <1>1 DEF ReaperStep, ReaperWakes, ReaperEnds, vars, sockVars
  <2>2. reaper' \in {"none", "grace", "working", "finished"}
    BY <1>1 DEF ReaperStep, ReaperWakes, ReaperEnds, vars, Inv, TypeOK
  <2> QED
    BY <2>1, <2>2 DEF Inv, TypeOK, EntryHasHandler, HolderShape, ProbeShape
<1> QED
  BY <1>1, NewcomerStep, HolderStep, PeerStep DEF Next, HandlerStep, ClientStep

\* The inductive invariant holds throughout.
LEMMA InvAlways == Spec => []Inv
BY InvInit, InvStep, PTL DEF Spec

-----------------------------------------------------------------------------
\* The theorems.

\* Every variable keeps its type.
THEOREM TypeCorrect == Spec => []TypeOK
<1>1. Inv => TypeOK
  BY DEF Inv
<1> QED
  BY InvAlways, <1>1, PTL

\* However many registrations race for a node, a session that never got stuck
\* keeps it.
THEOREM LiveSessionsStay == Spec => []LiveIncumbentKeepsNode
<1>1. Inv => LiveIncumbentKeepsNode
  BY DEF Inv, HolderShape, LiveIncumbentKeepsNode
<1> QED
  BY InvAlways, <1>1, PTL

\* Whoever lost its node while serving has a closed socket.
THEOREM DisplacedAreClosed == Spec => []DisplacedHandlerIsClosed
<1>1. Inv => DisplacedHandlerIsClosed
  BY DEF Inv, HolderShape, DisplacedHandlerIsClosed
<1> QED
  BY InvAlways, <1>1, PTL

\* A node is never locked by an entry nobody will remove.
THEOREM EntriesHaveHandlers == Spec => []EntryHasHandler
<1>1. Inv => EntryHasHandler
  BY DEF Inv
<1> QED
  BY InvAlways, <1>1, PTL

\* The reaper of a former absence is gone when a session is served.
THEOREM ServedAreNotReaped == Spec => []ServedSessionIsNotReaped
<1>1. Init => ServedSessionIsNotReaped
  BY DEF Init, ServedSessionIsNotReaped
<1>2. Inv /\ ServedSessionIsNotReaped /\ [Next]_vars => ServedSessionIsNotReaped'
  <2> SUFFICES ASSUME Inv, ServedSessionIsNotReaped, [Next]_vars,
                      NEW s \in Socket, entry' = s, pc'[s] \in Serving
               PROVE  reaper' \in {"none", "finished"}
    BY DEF ServedSessionIsNotReaped
  <2> USE ConstantsAssumption DEF Goto, Probe, sockVars, vars
  <2>1. CASE reaper' = "none"
    BY <2>1
  <2>2. ASSUME NEW t \in Socket, ScheduleReaper(t) PROVE reaper' \in {"none", "finished"}
    BY <2>2 DEF ScheduleReaper, Inv, TypeOK, ServedSessionIsNotReaped
  <2>3. CASE ReaperStep
    BY <2>3 DEF ReaperStep, ReaperWakes, ReaperEnds, ServedSessionIsNotReaped
  <2>4. CASE UNCHANGED vars
    BY <2>4 DEF ServedSessionIsNotReaped
  <2>5. ASSUME NEW t \in Socket,
               \/ Register(t) \/ TakeOver(t) \/ DuplicateHandle(t) \/ Remove(t)
               \/ Rejected(t) \/ RegistrationFails(t)
        PROVE  reaper' \in {"none", "finished"}
    BY <2>5 DEF Register, TakeOver, DuplicateHandle, Remove, Rejected, RegistrationFails,
                Inv, TypeOK, ServedSessionIsNotReaped
  <2>6. ASSUME NEW t \in Socket,
               \/ BeginFrame(t) \/ EndFrame(t) \/ FrameFails(t) \/ ReadLoopEnds(t)
               \/ ResolveProbe(t) \/ ProbeTimeout(t) \/ ClientStep(t)
        PROVE  reaper' \in {"none", "finished"}
    BY <2>6 DEF BeginFrame, EndFrame, FrameFails, ReadLoopEnds, ResolveProbe, ProbeTimeout,
                ClientStep, Pong, Freeze, Thaw, Leave, Inv, TypeOK, ServedSessionIsNotReaped
  <2>7. ASSUME NEW t \in Socket, Registered(t) PROVE reaper' = "none"
    BY <2>7 DEF Registered
  <2> QED
    BY <2>1, <2>2, <2>3, <2>4, <2>5, <2>6, <2>7 DEF Next, HandlerStep
<1> QED
  BY InvAlways, <1>1, <1>2, PTL DEF Spec

\* A registered node that is away is under a reaper, or about to be.
THEOREM AbsentAreReaped == Spec => []AbsentNodeIsReaped
<1>1. Init => AbsentNodeIsReaped
  BY DEF Init, AbsentNodeIsReaped
<1>2. Inv /\ AbsentNodeIsReaped /\ [Next]_vars => AbsentNodeIsReaped'
  <2> SUFFICES ASSUME Inv, AbsentNodeIsReaped, [Next]_vars, entry' = Nobody, known'
               PROVE  reaper' # "none" \/ \E s \in Socket : pc'[s] = "touching"
    BY DEF AbsentNodeIsReaped
  <2> USE ConstantsAssumption DEF Goto, Probe, sockVars, vars
  <2>1. ASSUME NEW t \in Socket, Registered(t) PROVE FALSE
    BY <2>1 DEF Registered, Inv, TypeOK, HolderShape
  <2>2. ASSUME NEW t \in Socket, Remove(t) \/ ScheduleReaper(t)
        PROVE  reaper' # "none" \/ \E s \in Socket : pc'[s] = "touching"
    BY <2>2 DEF Remove, ScheduleReaper, Inv, TypeOK, AbsentNodeIsReaped
  <2>3. CASE ReaperStep
    BY <2>3 DEF ReaperStep, ReaperWakes, ReaperEnds, AbsentNodeIsReaped
  <2>4. ASSUME NEW t \in Socket,
               \/ Register(t) \/ TakeOver(t) \/ DuplicateHandle(t) \/ Rejected(t)
               \/ RegistrationFails(t)
        PROVE  reaper' # "none" \/ \E s \in Socket : pc'[s] = "touching"
    BY <2>4 DEF Register, TakeOver, DuplicateHandle, Rejected, RegistrationFails,
                Inv, TypeOK, AbsentNodeIsReaped
  <2>5. ASSUME \/ UNCHANGED vars
               \/ \E t \in Socket :
                    \/ BeginFrame(t) \/ EndFrame(t) \/ FrameFails(t) \/ ReadLoopEnds(t)
                    \/ ResolveProbe(t) \/ ProbeTimeout(t) \/ ClientStep(t)
        PROVE  reaper' # "none" \/ \E s \in Socket : pc'[s] = "touching"
    <3>1. UNCHANGED <<entry, known, reaper>>
      BY <2>5 DEF BeginFrame, EndFrame, FrameFails, ReadLoopEnds, ResolveProbe, ProbeTimeout,
                  ClientStep, Pong, Freeze, Thaw, Leave
    <3>2. \A s \in Socket : pc[s] = "touching" => pc'[s] = "touching"
      BY <2>5 DEF BeginFrame, EndFrame, FrameFails, ReadLoopEnds, ResolveProbe, ProbeTimeout,
                  ClientStep, Pong, Freeze, Thaw, Leave, Inv, TypeOK
    <3> QED
      BY <3>1, <3>2 DEF AbsentNodeIsReaped
  <2> QED
    BY <2>1, <2>2, <2>3, <2>4, <2>5 DEF Next, HandlerStep
<1> QED
  BY InvAlways, <1>1, <1>2, PTL DEF Spec

-----------------------------------------------------------------------------
\* The node as NodeSession has it.

Served == {s \in Socket : pc[s] \in Serving}

\* A step that is none of the node's.
LEMMA NodeGoesOn ==
  ASSUME UNCHANGED <<entry, closed, stalled>>, Served' = Served,
         (reaper' = "working") <=> (reaper = "working")
  PROVE  UNCHANGED Node!vars
BY DEF Node!vars, Served

\* A socket that gets stuck, or leaves.
LEMMA NodeLoses ==
  ASSUME NEW s \in Socket, stalled' = stalled \cup {s}, UNCHANGED <<entry, closed, reaper>>,
         Served' = Served
  PROVE  [Node!Next]_(Node!vars)
BY DEF Node!vars, Node!Next, Node!Lose, Served

\* Steps up to the decision on a registration.
LEMMA NodeByNewcomer ==
  ASSUME Inv, NEW s \in Socket,
         \/ Register(s) \/ Pong(s) \/ ResolveProbe(s) \/ ProbeTimeout(s)
         \/ Rejected(s) \/ TakeOver(s)
  PROVE  [Node!Next]_(Node!vars)
<1> USE ConstantsAssumption DEF Goto, Probe, sockVars
<1>1. pc[s] \in {"new", "probing"} /\ Served' = Served
  BY DEF Register, Pong, ResolveProbe, ProbeTimeout, Rejected, TakeOver, Inv, TypeOK, Served
<1>2. s \notin closed /\ entry # s /\ s \notin Served
  BY <1>1 DEF Inv, HolderShape, EntryHasHandler, Served
<1>3. CASE Register(s)
  <2>1. CASE entry = Nobody
    <3>1. Node!Claim(s)
      BY <1>1, <1>2, <1>3, <2>1 DEF Register, Node!Claim, Served
    <3> QED BY <3>1 DEF Node!Next
  <2>2. CASE entry # Nobody
    BY <1>1, <1>3, <2>2, NodeGoesOn DEF Register
  <2> QED BY <2>1, <2>2
<1>4. CASE Pong(s) \/ ResolveProbe(s)
  BY <1>1, <1>4, NodeGoesOn DEF Pong, ResolveProbe
<1>5. CASE ProbeTimeout(s)
  <2>1. seen[s] \in Socket
    BY <1>5 DEF ProbeTimeout, Inv, ProbeShape
  <2>2. CASE stalled' = stalled
    BY <1>1, <1>5, <2>2, NodeGoesOn DEF ProbeTimeout
  <2>3. CASE stalled' = stalled \cup {seen[s]}
    BY <1>1, <1>5, <2>1, <2>3, NodeLoses DEF ProbeTimeout
  <2> QED BY <1>5, <2>2, <2>3 DEF ProbeTimeout
<1>6. CASE Rejected(s)
  <2>1. Node!Close(s, s)
    BY <1>1, <1>2, <1>6 DEF Rejected, Node!Close, Served
  <2> QED BY <2>1 DEF Node!Next
<1>7. CASE TakeOver(s)
  <2>1. seen[s] \in Socket /\ seen[s] \in stalled \cup closed
    BY <1>7 DEF TakeOver, Inv, ProbeShape
  <2>2. CASE entry = seen[s]
    <3>1. entry \in stalled
      BY <2>1, <2>2 DEF Inv, HolderShape, EntryHasHandler
    <3>2. Node!Displace(s)
      BY <1>1, <1>2, <1>7, <2>2, <3>1 DEF TakeOver, Node!Displace, Served
    <3> QED BY <3>2 DEF Node!Next
  <2>3. CASE entry # seen[s]
    <3>1. Node!Close(seen[s], s)
      BY <1>1, <1>2, <1>7, <2>3 DEF TakeOver, Node!Close, Served
    <3> QED BY <2>1, <3>1 DEF Node!Next
  <2> QED BY <2>2, <2>3
<1> QED BY <1>3, <1>4, <1>5, <1>6, <1>7

\* Steps of a handler that has claimed the node.
LEMMA NodeByHolder ==
  ASSUME Inv, NEW s \in Socket,
         \/ Registered(s) \/ RegistrationFails(s) \/ DuplicateHandle(s) \/ BeginFrame(s)
         \/ EndFrame(s) \/ FrameFails(s) \/ ReadLoopEnds(s) \/ Remove(s) \/ ScheduleReaper(s)
  PROVE  [Node!Next]_(Node!vars)
<1> USE ConstantsAssumption DEF Goto, Probe, sockVars
<1>1. CASE Registered(s)
  <2>1. entry = s /\ Served' = Served \cup {s}
    BY <1>1 DEF Registered, Inv, TypeOK, HolderShape, Served
  <2>2. Node!Serve(s)
    BY <1>1, <2>1 DEF Registered, Node!Serve, Served
  <2> QED BY <2>2 DEF Node!Next
<1>2. CASE RegistrationFails(s) \/ EndFrame(s)
  <2>1. Served' = Served
    BY <1>2 DEF RegistrationFails, EndFrame, Inv, TypeOK, Served
  <2> QED BY <1>2, <2>1, NodeGoesOn DEF RegistrationFails, EndFrame
<1>3. CASE DuplicateHandle(s)
  <2>1. Served' = Served /\ s \notin Served
    BY <1>3 DEF DuplicateHandle, Inv, TypeOK, Served
  <2>2. CASE entry = s
    <3>1. Node!Release
      BY <1>3, <2>1, <2>2 DEF DuplicateHandle, Node!Release, Served
    <3> QED BY <3>1 DEF Node!Next
  <2>3. CASE entry # s
    <3>1. Node!Close(s, s)
      BY <1>3, <2>1, <2>3 DEF DuplicateHandle, Node!Close, Served
    <3> QED BY <3>1 DEF Node!Next
  <2> QED BY <2>2, <2>3
<1>4. CASE BeginFrame(s)
  <2>1. Served' = Served
    BY <1>4 DEF BeginFrame, Inv, TypeOK, Served
  <2> QED BY <1>4, <2>1, NodeLoses DEF BeginFrame
<1>5. CASE FrameFails(s) \/ ReadLoopEnds(s)
  <2>1. s \in Served /\ Served' = Served \ {s}
    BY <1>5 DEF FrameFails, ReadLoopEnds, Inv, TypeOK, Served
  <2>2. s \in stalled \cup closed
    BY <1>5 DEF FrameFails, ReadLoopEnds, Inv, HolderShape
  <2>3. Node!End(s)
    BY <1>5, <2>1, <2>2 DEF FrameFails, ReadLoopEnds, Node!End, Served
  <2> QED BY <2>3 DEF Node!Next
<1>6. CASE Remove(s)
  <2>1. Served' = Served /\ s \notin Served
    BY <1>6 DEF Remove, Inv, TypeOK, Served
  <2>2. CASE entry = s
    <3>1. Node!Release
      BY <1>6, <2>1, <2>2 DEF Remove, Node!Release, Served
    <3> QED BY <3>1 DEF Node!Next
  <2>3. CASE entry # s
    BY <1>6, <2>1, <2>3, NodeGoesOn DEF Remove
  <2> QED BY <2>2, <2>3
<1>7. CASE ScheduleReaper(s)
  <2>1. Served' = Served
    BY <1>7 DEF ScheduleReaper, Inv, TypeOK, Served
  <2>2. CASE entry = Nobody
    <3>1. Node!StopReaping
      BY <1>7, <2>1, <2>2 DEF ScheduleReaper, Node!StopReaping, Served
    <3> QED BY <3>1 DEF Node!Next
  <2>3. CASE entry # Nobody
    BY <1>7, <2>1, <2>3, NodeGoesOn DEF ScheduleReaper
  <2> QED BY <2>2, <2>3
<1> QED BY <1>1, <1>2, <1>3, <1>4, <1>5, <1>6, <1>7

LEMMA NodeStep == Inv /\ [Next]_vars => [Node!Next]_(Node!vars)
<1> SUFFICES ASSUME Inv, [Next]_vars PROVE [Node!Next]_(Node!vars)
  OBVIOUS
<1> USE DEF sockVars
<1>1. CASE ReaperWakes
  <2>1. CASE entry = Nobody
    <3>1. Node!Reap
      BY <1>1, <2>1 DEF ReaperWakes, Node!Reap
    <3> QED BY <3>1 DEF Node!Next
  <2>2. CASE entry # Nobody
    BY <1>1, <2>2, NodeGoesOn DEF ReaperWakes, Served
  <2> QED BY <2>1, <2>2
<1>2. CASE ReaperEnds
  <2>1. Node!StopReaping
    BY <1>2 DEF ReaperEnds, Node!StopReaping
  <2> QED BY <2>1 DEF Node!Next
<1>3. ASSUME NEW s \in Socket, Freeze(s) \/ Leave(s) PROVE [Node!Next]_(Node!vars)
  BY <1>3, NodeLoses DEF Freeze, Leave, Served
<1>4. ASSUME NEW s \in Socket, Thaw(s) PROVE [Node!Next]_(Node!vars)
  BY <1>4, NodeGoesOn DEF Thaw, Served
<1>5. CASE UNCHANGED vars
  BY <1>5, NodeGoesOn DEF vars, Served
<1> QED
  BY <1>1, <1>2, <1>3, <1>4, <1>5, NodeByNewcomer, NodeByHolder
  DEF Next, HandlerStep, ClientStep, ReaperStep

LEMMA NodeInit == Init => Node!Init
BY DEF Init, Node!Init

\* Any number of sockets of one node, registering, probing, frozen, failing and leaving at any
\* moment, implement the node of one session.
THEOREM ImplementsNodeSession == Spec => NodeKeepsItsPromise
BY InvAlways, NodeInit, NodeStep, PTL DEF Spec, NodeKeepsItsPromise, Node!Spec
=============================================================================
