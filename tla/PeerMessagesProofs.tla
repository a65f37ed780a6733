------------------------- MODULE PeerMessagesProofs -------------------------
(***************************************************************************)
(* Theorems about PeerMessages, for every set of messages, queries and     *)
(* targets and every bound.                                                *)
(***************************************************************************)
EXTENDS PeerMessages, TLAPS

USE DEF Settled, Status, AskMid, DeliveryTerminal

Waiting == {"recheck", "rechecked", "waiting"}

\* Where the push task is tells what became of the frame and of the status.
PushShape(m) ==
  /\ push[m] = "none" <=> status[m] = "absent"
  /\ push[m] = "none" => frame[m] = "none"
  /\ push[m] \in {"ready", "noTarget"} => frame[m] = "none" /\ status[m] = "accepted"
  /\ push[m] \in {"sending", "raised", "written"} => frame[m] # "none"
  /\ status[m] = "sent" => push[m] = "done" /\ frame[m] # "none"

\* A target acknowledges what it took or refused, and who notifies has settled.
AckShape(m) ==
  /\ ack[m] # "none" => frame[m] \in {"taken", "refused"}
  /\ push[m] = "notify" \/ ack[m] = "notify" => status[m] \in Settled

MsgInv == \A m \in Message : PushShape(m) /\ AckShape(m)

Known(q) == q \notin Strangers /\ status[MessageOf[q]] # "absent"
Over(q) == status[MessageOf[q]] \in Settled
Told(q) == push[MessageOf[q]] = "notify" \/ ack[MessageOf[q]] = "notify"

\* A query waits for a message it may know, with its waiter registered.
WaitShape(q) ==
  /\ asked[q] \in Waiting => q \in waiters
  /\ asked[q] = "decide" /\ ~DeliveryTerminal(seen[q]) => Known(q)
  /\ asked[q] \in Waiting \cup {"final"} => Known(q)
  /\ q \in woken => Over(q)

\* What it read is stale only in the direction that does no harm: a query about
\* to sleep on a settled message will be woken.
SleepShape(q) ==
  /\ asked[q] = "rechecked" /\ DeliveryTerminal(seen[q]) => Over(q)
  /\ \/ asked[q] = "waiting"
     \/ asked[q] = "rechecked" /\ ~DeliveryTerminal(seen[q])
     => q \in woken \/ ~Over(q) \/ Told(q)
  /\ asked[q] = "final" => Over(q) \/ q \in expired
  /\ q \in Waits /\ asked[q] \in {"reply", "answered"} =>
       DeliveryTerminal(seen[q]) \/ q \in expired

AskInv == \A q \in Query : WaitShape(q) /\ SleepShape(q)

Inv == TypeOK /\ MsgInv /\ AskInv

-----------------------------------------------------------------------------
\* A query refers to a message.
LEMMA QueriesRefer == \A q \in Query : MessageOf[q] \in Message
BY ConstantsAssumption

\* What the queries rely on is kept by a step that leaves them alone, does not
\* unsettle a message, does not make one absent, and settles none unannounced.
LEMMA AskInvFrame ==
  ASSUME Inv, UNCHANGED <<asked, seen, waiters, expired>>, woken \subseteq woken',
         \A q \in woken' \ woken : q \in waiters /\ Over(q),
         \A m \in Message :
           /\ status[m] # "absent" => status'[m] # "absent"
           /\ status[m] \in Settled => status'[m] \in Settled
           /\ status[m] \notin Settled /\ status'[m] \in Settled =>
                push'[m] = "notify" \/ ack'[m] = "notify",
         \A m \in Message :
           push[m] = "notify" \/ ack[m] = "notify" =>
             \/ push'[m] = "notify" \/ ack'[m] = "notify"
             \/ \A q \in waiters : MessageOf[q] = m => q \in woken'
  PROVE  AskInv'
<1> SUFFICES ASSUME NEW q \in Query PROVE WaitShape(q)' /\ SleepShape(q)'
  BY DEF AskInv
<1>1. MessageOf[q] \in Message /\ WaitShape(q) /\ SleepShape(q)
  BY QueriesRefer DEF Inv, AskInv
<1>2. Over(q) => Over(q)'
  BY <1>1 DEF Over
<1>3. Known(q) => Known(q)'
  BY <1>1 DEF Known
<1>4. WaitShape(q)'
  BY <1>1, <1>2, <1>3 DEF WaitShape
<1>5. q \in waiters /\ (q \in woken \/ ~Over(q) \/ Told(q)) =>
        (q \in woken \/ ~Over(q) \/ Told(q))'
  BY <1>1 DEF Over, Told
<1>6. SleepShape(q)'
  BY <1>1, <1>2, <1>5 DEF WaitShape, SleepShape, Waiting
<1> QED
  BY <1>4, <1>6

\* Steps of the messages and their acknowledgements.
LEMMA MsgStep ==
  ASSUME Inv, NEW m \in Message, Accept(m) \/ PushStep(m) \/ Receive(m) \/ AckStep(m)
  PROVE  Inv'
<1> USE DEF msgVars, askVars, downVars, Goto, Settle, Settleable, Wake
<1> USE ConstantsAssumption
<1>1. CASE Accept(m)
  <2>1. TypeOK'
    BY <1>1 DEF Inv, TypeOK, Accept
  <2>2. MsgInv'
    BY <1>1 DEF Inv, TypeOK, MsgInv, PushShape, AckShape, Accept
  <2>3. AskInv'
    BY <1>1, AskInvFrame DEF Inv, TypeOK, MsgInv, PushShape, Accept
  <2> QED
    BY <2>1, <2>2, <2>3 DEF Inv
<1>2. CASE Push(m)
  <2>1. TypeOK'
    BY <1>2 DEF Inv, TypeOK, Push
  <2>2. MsgInv'
    BY <1>2 DEF Inv, TypeOK, MsgInv, PushShape, AckShape, Push
  <2>3. AskInv'
    BY <1>2, AskInvFrame DEF Inv, TypeOK, Push
  <2> QED
    BY <2>1, <2>2, <2>3 DEF Inv
<1>3. CASE SendEnds(m)
  <2>1. TypeOK'
    BY <1>3 DEF Inv, TypeOK, SendEnds
  <2>2. MsgInv'
    BY <1>3 DEF Inv, TypeOK, MsgInv, PushShape, AckShape, SendEnds
  <2>3. AskInv'
    BY <1>3, AskInvFrame DEF Inv, TypeOK, SendEnds
  <2> QED
    BY <2>1, <2>2, <2>3 DEF Inv
<1>4. CASE MarkSent(m)
  <2>1. TypeOK'
    BY <1>4 DEF Inv, TypeOK, MarkSent
  <2>2. MsgInv'
    BY <1>4 DEF Inv, TypeOK, MsgInv, PushShape, AckShape, MarkSent
  <2>3. AskInv'
    BY <1>4, AskInvFrame DEF Inv, TypeOK, MarkSent
  <2> QED
    BY <2>1, <2>2, <2>3 DEF Inv
<1>5. CASE MarkUndelivered(m)
  <2>1. TypeOK'
    BY <1>5 DEF Inv, TypeOK, MarkUndelivered
  <2>2. MsgInv'
    BY <1>5 DEF Inv, TypeOK, MsgInv, PushShape, AckShape, MarkUndelivered
  <2>3. AskInv'
    BY <1>5, AskInvFrame DEF Inv, TypeOK, MarkUndelivered
  <2> QED
    BY <2>1, <2>2, <2>3 DEF Inv
<1>6. CASE PushNotify(m)
  <2>1. TypeOK'
    BY <1>6 DEF Inv, TypeOK, PushNotify
  <2>2. MsgInv'
    BY <1>6 DEF Inv, TypeOK, MsgInv, PushShape, AckShape, PushNotify
  <2>3. status[m] \in Settled
    BY <1>6 DEF Inv, MsgInv, AckShape, PushNotify
  <2>4. AskInv'
    BY <1>6, <2>3, AskInvFrame DEF Inv, TypeOK, PushNotify, Over
  <2> QED
    BY <2>1, <2>2, <2>4 DEF Inv
<1>7. CASE Receive(m)
  <2>1. TypeOK'
    BY <1>7 DEF Inv, TypeOK, Receive
  <2>2. MsgInv'
    BY <1>7 DEF Inv, TypeOK, MsgInv, PushShape, AckShape, Receive
  <2>3. AskInv'
    BY <1>7, AskInvFrame DEF Inv, TypeOK, MsgInv, AckShape, Receive
  <2> QED
    BY <2>1, <2>2, <2>3 DEF Inv
<1>8. CASE AckMark(m)
  <2>1. TypeOK'
    BY <1>8 DEF Inv, TypeOK, AckMark, Verdict
  <2>2. MsgInv'
    BY <1>8 DEF Inv, TypeOK, MsgInv, PushShape, AckShape, AckMark, Verdict
  <2>3. AskInv'
    BY <1>8, AskInvFrame DEF Inv, TypeOK, AckMark, Verdict
  <2> QED
    BY <2>1, <2>2, <2>3 DEF Inv
<1>9. CASE AckNotify(m)
  <2>1. TypeOK'
    BY <1>9 DEF Inv, TypeOK, AckNotify
  <2>2. MsgInv'
    BY <1>9 DEF Inv, TypeOK, MsgInv, PushShape, AckShape, AckNotify
  <2>3. status[m] \in Settled
    BY <1>9 DEF Inv, MsgInv, AckShape, AckNotify
  <2>4. AskInv'
    BY <1>9, <2>3, AskInvFrame DEF Inv, TypeOK, AckNotify, Over
  <2> QED
    BY <2>1, <2>2, <2>4 DEF Inv
<1> QED
  BY <1>1, <1>2, <1>3, <1>4, <1>5, <1>6, <1>7, <1>8, <1>9 DEF PushStep, AckStep

\* Steps of the sockets: what is cut off was not acknowledged yet.
LEMMA SocketStep ==
  ASSUME Inv, NEW n \in Node, Connect(n) \/ Disconnect(n) \/ FreezeOrThaw(n)
  PROVE  Inv'
<1> USE DEF msgVars, askVars, Cut
<1>1. TypeOK'
  BY ConstantsAssumption DEF Inv, TypeOK, Connect, Disconnect, FreezeOrThaw
<1>2. MsgInv'
  BY DEF Inv, TypeOK, MsgInv, PushShape, AckShape, Connect, Disconnect, FreezeOrThaw
<1>3. AskInv'
  <2>1. UNCHANGED <<status, push, asked, seen, waiters, expired, woken>>
    BY DEF Connect, Disconnect, FreezeOrThaw
  <2>2. \A m \in Message : ack[m] = "notify" => ack'[m] = "notify"
    BY DEF Inv, TypeOK, Connect, Disconnect, FreezeOrThaw
  <2> QED
    BY <2>1, <2>2, AskInvFrame
<1> QED
  BY <1>1, <1>2, <1>3 DEF Inv

\* A step of one query disturbs no other and no message.
LEMMA AskInvOther ==
  ASSUME Inv, NEW q \in Query, UNCHANGED <<status, push, ack, woken>>,
         \A p \in Query \ {q} :
           /\ asked'[p] = asked[p] /\ seen'[p] = seen[p]
           /\ p \in waiters => p \in waiters'
           /\ p \in expired => p \in expired',
         WaitShape(q)' /\ SleepShape(q)'
  PROVE  AskInv'
<1> SUFFICES ASSUME NEW p \in Query \ {q} PROVE WaitShape(p)' /\ SleepShape(p)'
  BY DEF AskInv
<1> QED
  BY DEF Inv, AskInv, WaitShape, SleepShape, Waiting, Known, Over, Told

\* Steps of the queries.
LEMMA QueryStep ==
  ASSUME Inv, NEW q \in Query, Ask(q) \/ AskStep(q) \/ Abandon(q)
  PROVE  Inv'
<1> USE DEF msgVars, downVars, StopWaiting
<1>1. MessageOf[q] \in Message /\ WaitShape(q) /\ SleepShape(q)
  BY QueriesRefer DEF Inv, AskInv
<1>2. View(q) \in (Status \ {"absent"}) \cup {"unknown"}
  BY <1>1 DEF View, Inv, TypeOK
<1>3. ~DeliveryTerminal(View(q)) => Known(q) /\ ~Over(q)
  BY <1>1 DEF View, Known, Over
<1>4. Known(q) => View(q) = status[MessageOf[q]]
  BY DEF View, Known
<1>5. UNCHANGED <<status, push, frame, ack, woken, conn, sockets, crashes>>
  BY DEF Ask, AskStep, FirstRead, Decide, Recheck, Resume, WaitEnds, WaitExpires, FinalRead,
         Reply, Abandon, Read
<1>6. MsgInv'
  BY <1>5 DEF Inv, MsgInv, PushShape, AckShape
<1>7. asked \in [Query -> {"idle", "answered", "gone"} \cup AskMid]
  BY DEF Inv, TypeOK
<1>8. seen \in [Query -> (Status \ {"absent"}) \cup {"unknown"}]
  BY DEF Inv, TypeOK
<1>9. waiters \subseteq Query /\ woken \subseteq Query /\ expired \subseteq Query
  BY DEF Inv, TypeOK
<1>10. /\ asked' \in [Query -> {"idle", "answered", "gone"} \cup AskMid]
       /\ seen' \in [Query -> (Status \ {"absent"}) \cup {"unknown"}]
       /\ waiters' \subseteq Query /\ expired' \subseteq Query
       /\ \A p \in Query \ {q} :
            /\ asked'[p] = asked[p] /\ seen'[p] = seen[p]
            /\ p \in waiters => p \in waiters'
            /\ p \in expired => p \in expired'
  <2>1. CASE Ask(q) \/ Reply(q) \/ Abandon(q)
    BY <2>1, <1>7, <1>8, <1>9 DEF Ask, Reply, Abandon
  <2>2. CASE FirstRead(q) \/ Recheck(q) \/ FinalRead(q)
    BY <2>2, <1>2, <1>7, <1>8, <1>9 DEF FirstRead, Recheck, FinalRead, Read
  <2>3. CASE Decide(q) \/ Resume(q)
    BY <2>3, <1>7, <1>8, <1>9 DEF Decide, Resume
  <2>4. CASE WaitEnds(q) \/ WaitExpires(q)
    BY <2>4, <1>7, <1>8, <1>9 DEF WaitEnds, WaitExpires
  <2> QED
    BY <2>1, <2>2, <2>3, <2>4 DEF AskStep
<1>11. TypeOK'
  BY <1>5, <1>10 DEF Inv, TypeOK
<1>12. /\ Known(q)' <=> Known(q)
       /\ Over(q)' <=> Over(q)
       /\ Told(q)' <=> Told(q)
  BY <1>5 DEF Known, Over, Told
<1>13. WaitShape(q)' /\ SleepShape(q)'
  <2> USE DEF WaitShape, SleepShape, Waiting
  <2>1. CASE Ask(q) \/ Reply(q) \/ Abandon(q)
    BY <2>1, <1>1, <1>5, <1>7, <1>12 DEF Ask, Reply, Abandon
  <2>2. CASE FirstRead(q) \/ Recheck(q) \/ FinalRead(q)
    <3>1. Known(q) /\ DeliveryTerminal(View(q)) => Over(q)
      BY <1>1, <1>4 DEF Over, Known, Inv, TypeOK
    <3>2. Over(q) /\ Known(q) => DeliveryTerminal(View(q))
      BY <1>4 DEF Over
    <3>3. seen'[q] = View(q)
      BY <2>2, <1>8 DEF FirstRead, Recheck, FinalRead, Read
    <3>4. UNCHANGED <<waiters, expired, woken>>
      BY <2>2 DEF FirstRead, Recheck, FinalRead, Read
    <3>5. CASE FirstRead(q)
      <4>1. asked'[q] = "decide"
        BY <3>5, <1>7 DEF FirstRead, Read
      <4> QED
        BY <4>1, <1>1, <1>3, <1>12, <3>3, <3>4
    <3>6. CASE Recheck(q)
      <4>1. asked[q] = "recheck" /\ asked'[q] = "rechecked"
        BY <3>6, <1>7 DEF Recheck, Read
      <4> QED
        BY <4>1, <1>1, <1>3, <1>12, <3>1, <3>3, <3>4
    <3>7. CASE FinalRead(q)
      <4>1. asked[q] = "final" /\ asked'[q] = "reply"
        BY <3>7, <1>7 DEF FinalRead, Read
      <4> QED
        BY <4>1, <1>1, <1>12, <3>2, <3>3, <3>4
    <3> QED
      BY <2>2, <3>5, <3>6, <3>7
  <2>3. CASE Decide(q)
    BY <2>3, <1>1, <1>7, <1>9, <1>12 DEF Decide
  <2>4. CASE Resume(q)
    BY <2>4, <1>1, <1>7, <1>12 DEF Resume
  <2>5. CASE WaitEnds(q) \/ WaitExpires(q)
    BY <2>5, <1>1, <1>7, <1>12 DEF WaitEnds, WaitExpires
  <2> QED
    BY <2>1, <2>2, <2>3, <2>4, <2>5 DEF AskStep
<1> QED
  BY <1>5, <1>6, <1>10, <1>11, <1>13, AskInvOther DEF Inv

\* A crash forgets the waiters together with the queries that registered them.
LEMMA CrashStep == Inv /\ Crash => Inv'
<1> SUFFICES ASSUME Inv, Crash PROVE Inv'
  OBVIOUS
<1>1. TypeOK'
  BY ConstantsAssumption DEF Inv, TypeOK, Crash
<1>2. MsgInv'
  BY DEF Inv, TypeOK, MsgInv, PushShape, AckShape, Crash
<1>3. AskInv'
  BY DEF Inv, TypeOK, AskInv, WaitShape, SleepShape, Waiting, Known, Over, Told, Crash
<1> QED
  BY <1>1, <1>2, <1>3 DEF Inv

\* The daemon starts in the inductive invariant.
LEMMA InvInit == Init => Inv
BY ConstantsAssumption
   DEF Init, Inv, TypeOK, MsgInv, PushShape, AckShape, AskInv, WaitShape, SleepShape, Waiting

\* Every action keeps the inductive invariant.
LEMMA InvStep == Inv /\ [Next]_vars => Inv'
<1> SUFFICES ASSUME Inv, [Next]_vars PROVE Inv'
  OBVIOUS
<1>1. CASE UNCHANGED vars
  BY <1>1 DEF Inv, TypeOK, MsgInv, PushShape, AckShape, AskInv, WaitShape, SleepShape, Known,
              Over, Told, vars, msgVars, askVars, downVars
<1> QED
  BY <1>1, MsgStep, SocketStep, QueryStep, CrashStep DEF Next

\* The inductive invariant holds throughout.
LEMMA InvAlways == Spec => []Inv
BY InvInit, InvStep, PTL DEF Spec

-----------------------------------------------------------------------------
\* The refinement of MessageRecord.

\* A status that follows the present one is a report.
LEMMA ReportIsStep ==
  ASSUME Inv, NEW m \in Message, UNCHANGED FateOf,
         NEW s \in Record!Following(m) \cup {status[m]},
         status' = [status EXCEPT ![m] = s]
  PROVE  [Record!Next]_(Record!vars)
<1>1. status \in [Message -> Status]
  BY DEF Inv, TypeOK
<1>2. CASE s = status[m]
  BY <1>1, <1>2 DEF Record!vars
<1>3. CASE s \in Record!Following(m)
  BY <1>3 DEF Record!Next, Record!Report
<1> QED
  BY <1>2, <1>3

\* A step that changes neither the status nor the fate is a stutter.
LEMMA RecordStutters == UNCHANGED <<status, FateOf>> => [Record!Next]_(Record!vars)
BY DEF Record!vars

\* The fate of each message.
LEMMA FateFacts ==
  ASSUME Inv
  PROVE  /\ FateOf = [m \in Message |-> FateOf[m]]
         /\ \A m \in Message :
              /\ frame[m] = "none" => FateOf[m] = "unsent"
              /\ frame[m] \in {"flight", "stray", "lost"} => FateOf[m] = "out"
              /\ frame[m] = "taken" => FateOf[m] = "taken"
              /\ frame[m] = "refused" => FateOf[m] = "refused"
BY DEF FateOf

\* Every step maps to a step of MessageRecord or to a stutter.
LEMMA RecordStep == Inv /\ [Next]_vars => [Record!Next]_(Record!vars)
<1> SUFFICES ASSUME Inv, [Next]_vars PROVE [Record!Next]_(Record!vars)
  OBVIOUS
<1> USE DEF msgVars, askVars, downVars, Goto
<1>1. status \in [Message -> Status] /\ frame \in
        [Message -> {"none", "flight", "stray", "lost", "taken", "refused"}]
  BY DEF Inv, TypeOK
<1>2. UNCHANGED frame => UNCHANGED FateOf
  BY DEF FateOf
<1>3. ASSUME NEW m \in Message, Accept(m) PROVE [Record!Next]_(Record!vars)
  <2>1. "accepted" \in Record!Following(m)
    BY <1>3 DEF Accept, Record!Following
  <2> QED
    BY <1>2, <1>3, <2>1, ReportIsStep DEF Accept
<1>4. ASSUME NEW m \in Message, Push(m) PROVE [Record!Next]_(Record!vars)
  <2>1. CASE UNCHANGED frame
    BY <1>2, <1>4, <2>1, RecordStutters DEF Push
  <2>2. CASE frame' = [frame EXCEPT ![m] = "flight"]
    <3>1. status[m] = "accepted" /\ FateOf[m] = "unsent"
      BY <1>4, FateFacts DEF Push, Inv, MsgInv, PushShape
    <3>2. FateOf' = [FateOf EXCEPT ![m] = "out"]
      BY <1>1, <2>2 DEF FateOf
    <3> QED
      BY <1>4, <3>1, <3>2 DEF Push, Record!Next, Record!Transmit
  <2> QED
    BY <1>4, <2>1, <2>2 DEF Push
<1>5. ASSUME NEW m \in Message, MarkSent(m) PROVE [Record!Next]_(Record!vars)
  <2>1. status[m] = "accepted" => "sent" \in Record!Following(m)
    <3>1. frame[m] # "none"
      BY <1>5 DEF MarkSent, Inv, MsgInv, PushShape
    <3> QED
      BY <1>1, <3>1, FateFacts DEF Record!Following
  <2>2. status[m] # "absent"
    BY <1>5 DEF MarkSent, Inv, MsgInv, PushShape
  <2>3. (IF status[m] \in Settled THEN status[m] ELSE "sent")
          \in Record!Following(m) \cup {status[m]}
    BY <1>1, <2>1, <2>2
  <2> QED
    BY <1>2, <1>5, <2>3, ReportIsStep DEF MarkSent
<1>6. ASSUME NEW m \in Message, MarkUndelivered(m) PROVE [Record!Next]_(Record!vars)
  <2> DEFINE s == IF status[m] \in {"accepted", "sent"}
                    THEN IF push[m] = "raised" THEN "failed" ELSE "unavailable"
                    ELSE status[m]
  <2>1. s \in Record!Following(m) \cup {status[m]}
    <3>1. CASE push[m] = "noTarget"
      <4>1. status[m] = "accepted" /\ FateOf[m] = "unsent"
        BY <3>1, FateFacts DEF Inv, MsgInv, PushShape
      <4>2. "unavailable" \in Record!Following(m)
        BY <4>1 DEF Record!Following
      <4> QED
        BY <3>1, <4>1, <4>2
    <3>2. CASE push[m] = "raised"
      <4>1. frame[m] # "none" /\ status[m] # "sent"
        BY <3>2 DEF Inv, MsgInv, PushShape
      <4>2. status[m] = "accepted" => "failed" \in Record!Following(m)
        BY <1>1, <4>1, FateFacts DEF Record!Following
      <4> QED
        BY <3>2, <4>1, <4>2
    <3> QED
      BY <1>6, <3>1, <3>2 DEF MarkUndelivered
  <2>2. status' = [status EXCEPT ![m] = s]
    BY <1>6 DEF MarkUndelivered, Settle
  <2> QED
    BY <1>2, <1>6, <2>1, <2>2, ReportIsStep DEF MarkUndelivered
<1>7. ASSUME NEW m \in Message, AckMark(m) PROVE [Record!Next]_(Record!vars)
  <2> DEFINE s == IF status[m] \in {"accepted", "sent"} THEN Verdict(m) ELSE status[m]
  <2>1. frame[m] \in {"taken", "refused"}
    BY <1>7 DEF AckMark, Inv, MsgInv, AckShape
  <2>2. status[m] \in {"accepted", "sent"} => Verdict(m) \in Record!Following(m)
    BY <2>1, FateFacts DEF Record!Following, Verdict
  <2>3. s \in Record!Following(m) \cup {status[m]}
    BY <2>2
  <2>4. status' = [status EXCEPT ![m] = s]
    BY <1>7 DEF AckMark, Settle
  <2> QED
    BY <1>2, <1>7, <2>3, <2>4, ReportIsStep DEF AckMark
<1>8. ASSUME NEW m \in Message, Receive(m) PROVE [Record!Next]_(Record!vars)
  <2>1. PICK how \in {"taken", "refused", "lost"} : frame' = [frame EXCEPT ![m] = how]
    BY <1>8 DEF Receive
  <2>2. FateOf[m] = "out"
    BY <1>8, FateFacts DEF Receive
  <2>3. UNCHANGED status
    BY <1>8 DEF Receive
  <2>4. CASE how = "lost"
    <3>1. UNCHANGED FateOf
      BY <1>1, <1>8, <2>1, <2>4 DEF FateOf, Receive
    <3> QED
      BY <2>3, <3>1, RecordStutters
  <2>5. CASE how # "lost"
    <3>1. FateOf' = [FateOf EXCEPT ![m] = how]
      BY <1>1, <2>1, <2>5 DEF FateOf
    <3> QED
      BY <2>2, <2>3, <2>5, <3>1 DEF Record!Next, Record!Arrive
  <2> QED
    BY <2>4, <2>5
<1>9. ASSUME NEW n \in Node, Connect(n) \/ Disconnect(n) \/ FreezeOrThaw(n)
      PROVE  [Record!Next]_(Record!vars)
  <2>1. UNCHANGED status
    BY <1>9 DEF Connect, Disconnect, FreezeOrThaw
  <2>2. UNCHANGED FateOf
    BY <1>1, <1>9 DEF FateOf, Connect, Disconnect, FreezeOrThaw, Cut
  <2> QED
    BY <2>1, <2>2, RecordStutters
<1>10. ASSUME Crash PROVE [Record!Next]_(Record!vars)
  <2>1. UNCHANGED FateOf
    BY <1>1, <1>10 DEF FateOf, Crash
  <2> QED
    BY <1>10, <2>1, RecordStutters DEF Crash
<1>11. ASSUME NEW m \in Message, SendEnds(m) \/ PushNotify(m) \/ AckNotify(m)
       PROVE  UNCHANGED <<status, frame>>
  BY <1>11 DEF SendEnds, PushNotify, AckNotify
<1>12. ASSUME NEW q \in Query, Ask(q) \/ AskStep(q) \/ Abandon(q)
       PROVE  UNCHANGED <<status, frame>>
  BY <1>12 DEF Ask, AskStep, FirstRead, Decide, Recheck, Resume, WaitEnds, WaitExpires,
               FinalRead, Reply, Abandon, Read
<1>13. CASE UNCHANGED vars
  BY <1>2, <1>13, RecordStutters DEF vars
<1> QED
  BY <1>2, <1>3, <1>4, <1>5, <1>6, <1>7, <1>8, <1>9, <1>10, <1>11, <1>12, <1>13,
     RecordStutters DEF Next, PushStep, AckStep

\* No message exists and nothing was sent.
LEMMA RecordInit == Init => Record!Init
BY DEF Init, Record!Init, FateOf

-----------------------------------------------------------------------------
\* The theorems.

\* Every variable keeps its type.
THEOREM TypeCorrect == Spec => []TypeOK
<1>1. Inv => TypeOK
  BY DEF Inv
<1> QED
  BY InvAlways, <1>1, PTL

\* No wakeup is lost: a query asleep on a settled message has been or is about
\* to be woken, whatever threads, sockets and crashes do.
THEOREM NoLostWakeup == Spec => []SleeperWillBeWoken
<1>1. Inv => SleeperWillBeWoken
  BY DEF Inv, AskInv, SleepShape, Over, Told, SleeperWillBeWoken
<1> QED
  BY InvAlways, <1>1, PTL

\* A query that asked to wait reports a message as undecided only when its time
\* ran out.
THEOREM AnswersAreTerminal == Spec => []AnswerIsTerminalOrLate
<1>1. Inv => AnswerIsTerminalOrLate
  BY ConstantsAssumption DEF Inv, AskInv, SleepShape, AnswerIsTerminalOrLate
<1> QED
  BY InvAlways, <1>1, PTL

\* The two writers of a message's status, the push task and the acknowledgement
\* handler, together implement the promise of MessageRecord.
THEOREM ImplementsMessageRecord == Spec => StatusKeepsItsPromise
BY InvAlways, RecordInit, RecordStep, PTL DEF Spec, StatusKeepsItsPromise, Record!Spec
=============================================================================
