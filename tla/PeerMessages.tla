---------------------------- MODULE PeerMessages ----------------------------
(***************************************************************************)
(* Peer messages: a stored message is pushed to the socket of its target   *)
(* by a background task, the target acknowledges it over the same socket,  *)
(* and anybody entitled to may ask for the status and wait until it is     *)
(* terminal.  Statuses are written in worker threads; waiters live in the  *)
(* daemon's memory and are woken by the event loop after the write.        *)
(***************************************************************************)
EXTENDS Naturals

CONSTANTS
  Message,     \* stored messages
  Query,       \* message_status frames
  Node,        \* targets
  TargetOf,    \* the target of a message
  MessageOf,   \* the message a query is about
  Waits,       \* the queries with wait_until_delivery
  Strangers,   \* the queries of neither the sender nor the target
  MaxSockets,  \* bound on the sockets targets open
  MaxCrashes   \* bound on daemon crashes

ASSUME ConstantsAssumption ==
  /\ TargetOf \in [Message -> Node]
  /\ MessageOf \in [Query -> Message]
  /\ Waits \subseteq Query /\ Strangers \subseteq Query
  /\ MaxSockets \in Nat /\ MaxCrashes \in Nat

VARIABLES
  status,   \* messages.status
  push,     \* where _push_peer_message_delivery is
  conn,     \* the target's socket: a frozen peer still takes bytes
  frame,    \* the delivery frame; a stray one is in the buffers of a dead socket
  ack,      \* the delivery acknowledgement and its handler
  asked,    \* where message_status_result is
  seen,     \* the status that handler read last
  waiters,  \* queries in Registry._message_waiters
  woken,    \* queries whose waiter's future is set
  expired,  \* queries whose wait timed out
  sockets, crashes

msgVars  == <<status, push, frame, ack>>
askVars  == <<asked, seen, waiters, expired>>
downVars == <<conn, sockets, crashes>>
vars == <<msgVars, askVars, woken, downVars>>

Settled == {"queued", "failed", "unavailable"}
Status == {"absent", "accepted", "sent"} \cup Settled
\* is_message_delivery_terminal
DeliveryTerminal(s) == s \in Settled \cup {"unknown"}
AskMid == {"asked", "decide", "recheck", "rechecked", "waiting", "final", "reply"}

TypeOK ==
  /\ status \in [Message -> Status]
  /\ push \in [Message -> {"none", "ready", "noTarget", "sending", "raised", "written",
                          "notify", "done"}]
  /\ conn \in [Node -> {"off", "live", "frozen"}]
  /\ frame \in [Message -> {"none", "flight", "stray", "lost", "taken", "refused"}]
  /\ ack \in [Message -> {"none", "flight", "notify", "done"}]
  /\ asked \in [Query -> {"idle", "answered", "gone"} \cup AskMid]
  /\ seen \in [Query -> (Status \ {"absent"}) \cup {"unknown"}]
  /\ waiters \subseteq Query /\ woken \subseteq Query /\ expired \subseteq Query
  /\ sockets \in 0 .. MaxSockets /\ crashes \in 0 .. MaxCrashes

Init ==
  /\ status = [m \in Message |-> "absent"]
  /\ push = [m \in Message |-> "none"]
  /\ conn = [n \in Node |-> "off"]
  /\ frame = [m \in Message |-> "none"]
  /\ ack = [m \in Message |-> "none"]
  /\ asked = [q \in Query |-> "idle"]
  /\ seen = [q \in Query |-> "unknown"]
  /\ waiters = {} /\ woken = {} /\ expired = {}
  /\ sockets = 0 /\ crashes = 0

-----------------------------------------------------------------------------
\* Store operations.

\* mark_message_queued, _failed and _unavailable: one UPDATE guarded by the status.
Settle(m, s) ==
  status' = [status EXCEPT ![m] = IF @ \in {"accepted", "sent"} THEN s ELSE @]

Settleable(m) == status[m] \in {"accepted", "sent"}

\* get_message_status: what the asker may know.
View(q) ==
  IF q \in Strangers \/ status[MessageOf[q]] = "absent"
    THEN "unknown" ELSE status[MessageOf[q]]

\* notify_message_delivery_terminal: set the future of every registered waiter.
Wake(m) == woken' = woken \cup {q \in waiters : MessageOf[q] = m}

-----------------------------------------------------------------------------
\* Acceptance and the push task.

Goto(m, pc) == push' = [push EXCEPT ![m] = pc]

\* accept_peer_message commits create_message; the handler starts the push task.
Accept(m) ==
  /\ status[m] = "absent"
  /\ status' = [status EXCEPT ![m] = "accepted"]
  /\ Goto(m, "ready")
  /\ UNCHANGED <<frame, ack, askVars, woken, downVars>>

\* Mutant: an absent target ends the push task.
PushDropsAbsent(m) ==
  /\ push[m] = "ready"
  /\ IF conn[TargetOf[m]] = "off"
       THEN Goto(m, "done") /\ UNCHANGED frame
       ELSE Goto(m, "sending") /\ frame' = [frame EXCEPT ![m] = "flight"]
  /\ UNCHANGED <<status, ack, askVars, woken, downVars>>

\* get_connection and the write, in one synchronous stretch.
Push(m) ==
  /\ push[m] = "ready"
  /\ IF conn[TargetOf[m]] = "off"
       THEN Goto(m, "noTarget") /\ UNCHANGED frame
       ELSE Goto(m, "sending") /\ frame' = [frame EXCEPT ![m] = "flight"]
  /\ UNCHANGED <<status, ack, askVars, woken, downVars>>

\* send_json returns, or raises because the socket died under it: the frame may
\* have arrived all the same.
SendEnds(m) ==
  /\ push[m] = "sending"
  /\ Goto(m, "written") \/ Goto(m, "raised")
  /\ UNCHANGED <<status, frame, ack, askVars, woken, downVars>>

\* Mutant: UPDATE without the status guard.
MarkSentAlways(m) ==
  /\ push[m] = "written"
  /\ status' = [status EXCEPT ![m] = "sent"]
  /\ Goto(m, "done")
  /\ UNCHANGED <<frame, ack, askVars, woken, downVars>>

\* mark_message_sent: NOT IN the terminal statuses; nobody is notified.
MarkSent(m) ==
  /\ push[m] = "written"
  /\ status' = [status EXCEPT ![m] = IF @ \in Settled THEN @ ELSE "sent"]
  /\ Goto(m, "done")
  /\ UNCHANGED <<frame, ack, askVars, woken, downVars>>

MarkUndelivered(m) ==
  /\ push[m] \in {"noTarget", "raised"}
  /\ Settle(m, IF push[m] = "raised" THEN "failed" ELSE "unavailable")
  /\ Goto(m, IF Settleable(m) THEN "notify" ELSE "done")
  /\ UNCHANGED <<frame, ack, askVars, woken, downVars>>

PushNotify(m) ==
  /\ push[m] = "notify"
  /\ Wake(m) /\ Goto(m, "done")
  /\ UNCHANGED <<status, frame, ack, askVars, downVars>>

-----------------------------------------------------------------------------
\* The recipient's session, and the acknowledgement.

\* handlePeerMessageDelivery: the session takes or refuses the message and says
\* so, unless the transport fails.  A frame nobody listens for is dropped.
Receive(m) ==
  /\ \/ frame[m] = "flight" /\ conn[TargetOf[m]] = "live"
     \/ frame[m] = "stray"
  /\ \E how \in {"taken", "refused", "lost"} :
       /\ frame' = [frame EXCEPT ![m] = how]
       /\ \/ /\ frame[m] = "flight" /\ how # "lost"
             /\ ack' = [ack EXCEPT ![m] = "flight"]
          \/ UNCHANGED ack
  /\ UNCHANGED <<status, push, askVars, woken, downVars>>

Verdict(m) == IF frame[m] = "taken" THEN "queued" ELSE "failed"

\* handle_peer_message_delivery_ack, awaited by the target's read loop.
AckMark(m) ==
  /\ ack[m] = "flight" /\ conn[TargetOf[m]] # "off"
  /\ Settle(m, Verdict(m))
  /\ ack' = [ack EXCEPT ![m] = IF Settleable(m) THEN "notify" ELSE "done"]
  /\ UNCHANGED <<push, frame, askVars, woken, downVars>>

AckNotify(m) ==
  /\ ack[m] = "notify"
  /\ Wake(m)
  /\ ack' = [ack EXCEPT ![m] = "done"]
  /\ UNCHANGED <<status, push, frame, askVars, downVars>>

-----------------------------------------------------------------------------
\* The target's socket.

\* What was in flight on the sockets of nodes N is cut off.
Cut(N) ==
  /\ frame' = [m \in Message |->
                 IF TargetOf[m] \in N /\ frame[m] = "flight" THEN "stray" ELSE frame[m]]
  /\ ack' = [m \in Message |->
               IF TargetOf[m] \in N /\ ack[m] = "flight" THEN "none" ELSE ack[m]]

\* A register frame, also one that takes the node over from a frozen peer.
Connect(n) ==
  /\ conn[n] # "live" /\ sockets < MaxSockets
  /\ conn' = [conn EXCEPT ![n] = "live"] /\ sockets' = sockets + 1
  /\ Cut({n})
  /\ UNCHANGED <<status, push, askVars, woken, crashes>>

\* The handler notices the end of the socket once it is back in its read loop.
Disconnect(n) ==
  /\ conn[n] # "off"
  /\ \A m \in Message : TargetOf[m] = n => ack[m] # "notify"
  /\ conn' = [conn EXCEPT ![n] = "off"]
  /\ Cut({n})
  /\ UNCHANGED <<status, push, askVars, woken, sockets, crashes>>

FreezeOrThaw(n) ==
  /\ conn[n] # "off"
  /\ conn' = [conn EXCEPT ![n] = IF @ = "live" THEN "frozen" ELSE "live"]
  /\ UNCHANGED <<msgVars, askVars, woken, sockets, crashes>>

-----------------------------------------------------------------------------
\* message_status_result, one task per query.

Ask(q) ==
  /\ asked[q] = "idle" /\ asked' = [asked EXCEPT ![q] = "asked"]
  /\ UNCHANGED <<msgVars, seen, waiters, expired, woken, downVars>>

\* A read of the store in a worker thread.
Read(q, from, to) ==
  /\ asked[q] = from /\ asked' = [asked EXCEPT ![q] = to]
  /\ seen' = [seen EXCEPT ![q] = View(q)]
  /\ UNCHANGED <<msgVars, waiters, expired, woken, downVars>>

FirstRead(q) == Read(q, "asked", "decide")
Recheck(q)   == Read(q, "recheck", "rechecked")
FinalRead(q) == Read(q, "final", "reply")

\* Mutant: wait as soon as the waiter is registered.
DecideNoRecheck(q) ==
  /\ asked[q] = "decide"
  /\ IF q \in Waits /\ ~DeliveryTerminal(seen[q])
       THEN asked' = [asked EXCEPT ![q] = "waiting"] /\ waiters' = waiters \cup {q}
       ELSE asked' = [asked EXCEPT ![q] = "reply"] /\ UNCHANGED waiters
  /\ UNCHANGED <<msgVars, seen, expired, woken, downVars>>

\* add_message_waiter, if there is something to wait for.
Decide(q) ==
  /\ asked[q] = "decide"
  /\ IF q \in Waits /\ ~DeliveryTerminal(seen[q])
       THEN asked' = [asked EXCEPT ![q] = "recheck"] /\ waiters' = waiters \cup {q}
       ELSE asked' = [asked EXCEPT ![q] = "reply"] /\ UNCHANGED waiters
  /\ UNCHANGED <<msgVars, seen, expired, woken, downVars>>

\* The end of the try block: the waiter is removed and the status read once more.
StopWaiting(q) ==
  /\ waiters' = waiters \ {q}
  /\ asked' = [asked EXCEPT ![q] = "final"]

Resume(q) ==
  /\ asked[q] = "rechecked"
  /\ IF DeliveryTerminal(seen[q])
       THEN StopWaiting(q)
       ELSE asked' = [asked EXCEPT ![q] = "waiting"] /\ UNCHANGED waiters
  /\ UNCHANGED <<msgVars, seen, expired, woken, downVars>>

\* Mutant: the answer is what was read before the wait.
WaitEndsStale(q) ==
  /\ asked[q] = "waiting" /\ q \in woken
  /\ waiters' = waiters \ {q} /\ asked' = [asked EXCEPT ![q] = "reply"]
  /\ UNCHANGED <<msgVars, seen, expired, woken, downVars>>

WaitEnds(q) ==
  /\ asked[q] = "waiting" /\ q \in woken
  /\ StopWaiting(q)
  /\ UNCHANGED <<msgVars, seen, expired, woken, downVars>>

\* Mutant: a timeout starts another wait.
WaitExpiresAgain(q) ==
  /\ asked[q] = "waiting" /\ q \notin woken
  /\ expired' = expired \cup {q}
  /\ UNCHANGED <<msgVars, asked, seen, waiters, woken, downVars>>

WaitExpires(q) ==
  /\ asked[q] = "waiting" /\ q \notin woken
  /\ expired' = expired \cup {q}
  /\ StopWaiting(q)
  /\ UNCHANGED <<msgVars, seen, woken, downVars>>

Reply(q) ==
  /\ asked[q] = "reply" /\ asked' = [asked EXCEPT ![q] = "answered"]
  /\ UNCHANGED <<msgVars, seen, waiters, expired, woken, downVars>>

\* The asker's socket ends: its reply tasks are cancelled at whatever they await.
Abandon(q) ==
  /\ asked[q] \in AskMid /\ asked' = [asked EXCEPT ![q] = "gone"]
  /\ waiters' = waiters \ {q}
  /\ UNCHANGED <<msgVars, seen, expired, woken, downVars>>

-----------------------------------------------------------------------------
\* The daemon dies; the next one does not go over the messages.
Crash ==
  /\ crashes < MaxCrashes /\ crashes' = crashes + 1
  /\ push' = [m \in Message |-> IF push[m] = "none" THEN "none" ELSE "done"]
  /\ frame' = [m \in Message |-> IF frame[m] = "flight" THEN "stray" ELSE frame[m]]
  /\ ack' = [m \in Message |-> "none"]
  /\ conn' = [n \in Node |-> "off"]
  /\ asked' = [q \in Query |-> IF asked[q] \in AskMid THEN "gone" ELSE asked[q]]
  /\ waiters' = {} /\ woken' = {}
  /\ UNCHANGED <<status, seen, expired, sockets>>

PushStep(m) == Push(m) \/ SendEnds(m) \/ MarkSent(m) \/ MarkUndelivered(m) \/ PushNotify(m)
AckStep(m) == AckMark(m) \/ AckNotify(m)
AskStep(q) ==
  \/ FirstRead(q) \/ Decide(q) \/ Recheck(q) \/ Resume(q)
  \/ WaitEnds(q) \/ WaitExpires(q) \/ FinalRead(q) \/ Reply(q)

Next ==
  \/ \E m \in Message : Accept(m) \/ PushStep(m) \/ Receive(m) \/ AckStep(m)
  \/ \E n \in Node : Connect(n) \/ Disconnect(n) \/ FreezeOrThaw(n)
  \/ \E q \in Query : Ask(q) \/ AskStep(q) \/ Abandon(q)
  \/ Crash

Spec == Init /\ [][Next]_vars

\* The event loop and its threads run what is ready, and timeouts fire.  Nothing
\* makes a target connect, thaw, read or acknowledge.
Fairness ==
  /\ \A m \in Message : WF_vars(PushStep(m)) /\ WF_vars(AckNotify(m))
  /\ \A q \in Query : WF_vars(AskStep(q))

FairSpec == Spec /\ Fairness

-----------------------------------------------------------------------------
\* Properties.

FateOf ==
  [m \in Message |-> CASE frame[m] = "none" -> "unsent"
                       [] frame[m] \in {"flight", "stray", "lost"} -> "out"
                       [] OTHER -> frame[m]]
Record == INSTANCE MessageRecord WITH fate <- FateOf

\* messages.status keeps the promise of MessageRecord although the push task and
\* the acknowledgement write it in either order: an acknowledgement that
\* overtakes mark_message_sent is not undone, and no status is reported that is
\* not true of the frame.
StatusKeepsItsPromise == Record!Spec

\* No lost wakeup in message_status_result: if a query is asleep on a message
\* that is settled, the handler that settled it is about to notify.
SleeperWillBeWoken ==
  \A q \in Query :
    /\ asked[q] = "waiting" /\ q \notin woken
    /\ status[MessageOf[q]] \in Settled
    => push[MessageOf[q]] = "notify" \/ ack[MessageOf[q]] = "notify"

\* A query that asked to wait gets a non-terminal answer only if its time ran out.
AnswerIsTerminalOrLate ==
  \A q \in Waits :
    asked[q] \in {"reply", "answered"} => DeliveryTerminal(seen[q]) \/ q \in expired

\* Unless the daemon dies an accepted message does not stay accepted, wherever
\* its target's socket is.
AcceptedIsPushed ==
  \A m \in Message : status[m] = "accepted" ~> (status[m] # "accepted" \/ crashes > 0)

\* Every query is answered, even if its message never settles, or its asker left.
QueryIsAnswered ==
  \A q \in Query : asked[q] = "asked" ~> asked[q] \in {"answered", "gone"}
=============================================================================
