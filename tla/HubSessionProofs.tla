-------------------------- MODULE HubSessionProofs --------------------------
(***************************************************************************)
(* How a hub is come by and used: that its path is safe from other hubs    *)
(* and stays reachable as long as nothing disturbs the start; that a       *)
(* process has one live connection, wired once; that workstreams keep what *)
(* was reported; that a shown page keeps going.                            *)
(***************************************************************************)
EXTENDS MCHubSession, TLAPS

-----------------------------------------------------------------------------
\* The start of a hub.
USE EnsureAssumption

\* The flock is held by one hub at a time.
OneFlock == \A g, h \in Hub : hub[g] \in Flocked /\ hub[h] \in Flocked => g = h

\* An outdated hub serves from the beginning, or never.
OutdatedShape == \A o \in Outdated : hub[o] \in {"absent", "serving", "stopping", "dead"}

FlockInv == OneFlock /\ OutdatedShape

\* The lock file belongs to a holder, or to a dead client; undisturbed, every holder has it.
LockInv ==
  /\ \A c \in Client : spawnLock = c => ens[c] \in Holder \cup {"dead"}
  /\ ~disturbed => \A c \in Client : ens[c] \in Holder => spawnLock = c

\* An outdated hub that serves is alone, and nobody is about to spawn another.
OutdatedIsAlone ==
  \A o \in Outdated : hub[o] = "serving" =>
    /\ \A h \in Hub \ Outdated : ~Alive(h)
    /\ \A c \in Client : ens[c] # "spawn"

\* Who terminates a hub terminates the only one.
TargetIsAll ==
  \A c \in Client :
    /\ ens[c] \in {"find", "term", "stop"} => \A h \in Hub \ Outdated : ~Alive(h)
    /\ ens[c] \in {"term", "stop"} => \A o \in Outdated : Alive(o) => target[c] = o
    /\ ens[c] \in {"unsock", "unpid"} => \A h \in Hub : ~Alive(h)

Undisturbed == ~disturbed => OutdatedIsAlone /\ TargetIsAll /\ (\A h \in Hub : hub[h] = "serving" => sock = h)

-----------------------------------------------------------------------------
\* What a ping leads to.
LEMMA Pinged ==
  ASSUME NEW c \in Client, NEW from, NEW a, NEW b, NEW m,
         PingStep(c, from, [none |-> a, other |-> b, match |-> m])
  PROVE  /\ ens[c] = from /\ UNCHANGED <<expired, target, spawnLock, aged, hub, sock, pidFile>>
         /\ disturbed => disturbed'
         /\ \/ ens' = [ens EXCEPT ![c] = a] /\ (~disturbed' => Health = "none")
            \/ ens' = [ens EXCEPT ![c] = b] /\ Health = "other"
            \/ ens' = [ens EXCEPT ![c] = m] /\ Health = "match"
<1> PICK answer \in {"none", "other", "match"} :
      /\ Ping(answer) /\ GoTo(c, from, [none |-> a, other |-> b, match |-> m][answer])
      /\ UNCHANGED <<expired, target, lockVars, hubVars>>
  BY DEF PingStep
<1>1. CASE answer = "none"  BY <1>1 DEF Ping, GoTo, lockVars, hubVars, Health
<1>2. CASE answer = "other" BY <1>2 DEF Ping, GoTo, lockVars, hubVars, Health
<1>3. CASE answer = "match" BY <1>3 DEF Ping, GoTo, lockVars, hubVars, Health
<1> QED BY <1>1, <1>2, <1>3
-----------------------------------------------------------------------------
\* Every step of the client goes from one place of ensureDaemon to another.
LEMMA TypePreserved == EnsureTypeOK /\ [EnsureNext]_ensureVars => EnsureTypeOK'
<1> SUFFICES ASSUME EnsureTypeOK, [EnsureNext]_ensureVars PROVE EnsureTypeOK'
  OBVIOUS
<1> USE DEF EnsureTypeOK, EnsurePc, Ended, Flocked, lockVars, hubVars, ensurerVars
<1>1. CASE UNCHANGED ensureVars BY <1>1 DEF ensureVars
<1>2. ASSUME NEW c \in Client, EnsureStarts(c) PROVE EnsureTypeOK'
  BY <1>2 DEF EnsureStarts, GoTo
<1>3. ASSUME NEW c \in Client, FirstPing(c) \/ LockedPing(c) \/ Contend(c) \/ PollHealthy(c)
      PROVE  EnsureTypeOK'
  <2>1. disturbed' \in BOOLEAN
    BY <1>3 DEF FirstPing, LockedPing, Contend, PollHealthy, PingStep, Ping
  <2>2. CASE FirstPing(c) BY <2>1, <2>2, Pinged DEF FirstPing
  <2>3. CASE LockedPing(c) BY <2>1, <2>3, Pinged DEF LockedPing
  <2>4. CASE Contend(c) BY <2>1, <2>4, Pinged DEF Contend
  <2>5. CASE PollHealthy(c) BY <2>1, <2>5, Pinged DEF PollHealthy
  <2> QED BY <1>3, <2>2, <2>3, <2>4, <2>5
<1>4. ASSUME NEW c \in Client, WriteSpawnLock(c) PROVE EnsureTypeOK'
  BY <1>4 DEF WriteSpawnLock, GoTo
<1>5. ASSUME NEW c \in Client, JudgeLock(c) PROVE EnsureTypeOK'
  BY <1>5 DEF JudgeLock, GoTo
<1>6. ASSUME NEW c \in Client, ReclaimLock(c) PROVE EnsureTypeOK'
  BY <1>6 DEF ReclaimLock, GoTo, UnlinkLock
<1>7. ASSUME NEW c \in Client, FindHub(c) PROVE EnsureTypeOK'
  <2>1. PICK t \in Hub \cup {Nobody} : target' = [target EXCEPT ![c] = t]
    BY <1>7 DEF FindHub
  <2> QED BY <1>7, <2>1 DEF FindHub, GoTo
<1>8. ASSUME NEW c \in Client, SignalHub(c) PROVE EnsureTypeOK'
  BY <1>8 DEF SignalHub, GoTo
<1>9. ASSUME NEW c \in Client, HubStops(c) PROVE EnsureTypeOK'
  BY <1>9 DEF HubStops, GoTo
<1>10. ASSUME NEW c \in Client, KillHub(c) PROVE EnsureTypeOK'
  BY <1>10 DEF KillHub, GoTo
<1>11. ASSUME NEW c \in Client, UnlinkSocket(c) \/ UnlinkPid(c) PROVE EnsureTypeOK'
  BY <1>11 DEF UnlinkSocket, UnlinkPid, GoTo
<1>12. ASSUME NEW c \in Client, SpawnHub(c) PROVE EnsureTypeOK'
  <2>1. hub' \in [Hub -> {"absent", "started", "dead"} \cup Flocked]
    BY <1>12 DEF SpawnHub
  <2> QED BY <1>12, <2>1 DEF SpawnHub, GoTo
<1>13. ASSUME NEW c \in Client, GiveUp(c) \/ CompareLock(c) PROVE EnsureTypeOK'
  BY <1>13 DEF GiveUp, CompareLock, GoTo
<1>14. ASSUME NEW c \in Client, ReleaseLock(c) PROVE EnsureTypeOK'
  BY <1>14 DEF ReleaseLock, UnlinkLock, GoTo
<1>15. ASSUME NEW c \in Client, Expire(c) PROVE EnsureTypeOK'
  BY <1>15 DEF Expire
<1>16. ASSUME NEW c \in Client, ClientDies(c) PROVE EnsureTypeOK'
  BY <1>16 DEF ClientDies
<1>17. ASSUME NEW h \in Hub, HubStep(h) PROVE EnsureTypeOK'
  BY <1>17 DEF HubStep, Flock, ClearPath, WritePid, Bind, CloseServer, Becomes
<1>18. ASSUME NEW h \in Hub, StartByHand(h) \/ HubDies(h) PROVE EnsureTypeOK'
  BY <1>18 DEF StartByHand, HubDies, Becomes
<1>19. CASE LockAges BY <1>19 DEF LockAges
<1> QED
  BY <1>1, <1>2, <1>3, <1>4, <1>5, <1>6, <1>7, <1>8, <1>9, <1>10, <1>11, <1>12, <1>13, <1>14,
     <1>15, <1>16, <1>17, <1>18, <1>19 DEF EnsureNext, ClientStep

-----------------------------------------------------------------------------
\* A hub gets into Flocked by the flock only.
LEMMA FlockPreserved ==
  ASSUME EnsureTypeOK, FlockInv, [EnsureNext]_ensureVars
  PROVE  FlockInv'
<1> USE DEF EnsureTypeOK, Flocked, lockVars, hubVars, ensurerVars
<1>1. ASSUME \A h \in Hub :
               \/ hub'[h] = hub[h]
               \/ hub'[h] = "dead"
               \/ hub[h] \in {"serving", "stopping"} /\ hub'[h] = "stopping"
      PROVE  FlockInv'
  BY <1>1 DEF FlockInv, OneFlock, OutdatedShape
<1>2. CASE UNCHANGED hub BY <1>2 DEF FlockInv, OneFlock, OutdatedShape
<1>3. ASSUME NEW c \in Client, ClientStep(c) PROVE FlockInv'
  <2>1. CASE FirstPing(c) \/ LockedPing(c) \/ Contend(c) \/ PollHealthy(c)
    BY <1>2, <2>1, Pinged DEF FirstPing, LockedPing, Contend, PollHealthy
  <2>2. CASE SignalHub(c) BY <1>1, <2>2 DEF SignalHub, Alive
  <2>3. CASE KillHub(c) BY <1>1, <2>3 DEF KillHub
  <2>4. CASE SpawnHub(c)
    <3>1. CASE UNCHANGED hub BY <3>1, <1>2
    <3>2. CASE ~UNCHANGED hub
      <4> PICK h \in Hub \ (Outdated \cup Manual) :
            hub[h] = "absent" /\ hub' = [hub EXCEPT ![h] = "started"]
        BY <2>4, <3>2 DEF SpawnHub
      <4> QED BY DEF FlockInv, OneFlock, OutdatedShape
    <3> QED BY <3>1, <3>2
  <2> QED
    BY <1>2, <1>3, <2>1, <2>2, <2>3, <2>4
    DEF ClientStep, WriteSpawnLock, JudgeLock, ReclaimLock, FindHub, HubStops, UnlinkSocket,
        UnlinkPid, GiveUp, CompareLock, ReleaseLock
<1>4. ASSUME NEW h \in Hub, Flock(h) PROVE FlockInv'
  BY <1>4 DEF Flock, Becomes, FlockInv, OneFlock, OutdatedShape
<1>5. ASSUME NEW h \in Hub, ClearPath(h) \/ WritePid(h) \/ Bind(h) \/ CloseServer(h)
      PROVE  FlockInv'
  BY <1>5 DEF ClearPath, WritePid, Bind, CloseServer, Becomes, FlockInv, OneFlock, OutdatedShape
<1>6. ASSUME NEW h \in Hub, StartByHand(h) \/ HubDies(h) PROVE FlockInv'
  BY <1>6 DEF StartByHand, HubDies, Becomes, FlockInv, OneFlock, OutdatedShape
<1>7. ASSUME NEW c \in Client, EnsureStarts(c) \/ Expire(c) \/ ClientDies(c) PROVE FlockInv'
  BY <1>2, <1>7 DEF EnsureStarts, Expire, ClientDies
<1>8. CASE LockAges BY <1>2, <1>8 DEF LockAges
<1>9. CASE UNCHANGED ensureVars BY <1>2, <1>9 DEF ensureVars
<1> QED BY <1>3, <1>4, <1>5, <1>6, <1>7, <1>8, <1>9 DEF EnsureNext, HubStep

\* The file appears with its holder; undisturbed, only its holder unlinks it, or somebody
\* else when its holder is dead.
LEMMA LockPreserved ==
  ASSUME EnsureTypeOK, LockInv, [EnsureNext]_ensureVars
  PROVE  LockInv'
<1> USE DEF EnsureTypeOK, Holder, lockVars, hubVars, ensurerVars
<1>1. ASSUME UNCHANGED <<ens, spawnLock>>, disturbed => disturbed' PROVE LockInv'
  BY <1>1 DEF LockInv
<1>2. ASSUME NEW c \in Client, ClientStep(c) PROVE LockInv'
  <2>1. ASSUME UNCHANGED spawnLock, disturbed => disturbed',
               NEW to, ens' = [ens EXCEPT ![c] = to],
               ens[c] # "dead", ens[c] \in Holder <=> to \in Holder
        PROVE  LockInv'
    BY <2>1 DEF LockInv
  <2>2. CASE FirstPing(c) BY <2>1, <2>2, Pinged DEF FirstPing
  <2>3. CASE LockedPing(c) BY <2>1, <2>3, Pinged DEF LockedPing
  <2>4. CASE Contend(c) BY <2>1, <2>4, Pinged DEF Contend
  <2>5. CASE PollHealthy(c) BY <2>1, <2>5, Pinged DEF PollHealthy
  <2>6. CASE WriteSpawnLock(c) BY <2>6 DEF WriteSpawnLock, GoTo, LockInv
  <2>7. CASE JudgeLock(c) BY <2>1, <2>7 DEF JudgeLock, GoTo
  <2>8. CASE ReclaimLock(c) BY <2>8 DEF ReclaimLock, UnlinkLock, GoTo, LockInv
  <2>9. CASE GiveUp(c) BY <2>1, <2>9 DEF GiveUp, GoTo
  <2>10. CASE CompareLock(c) BY <2>10 DEF CompareLock, GoTo, LockInv
  <2>11. CASE ReleaseLock(c) BY <2>11 DEF ReleaseLock, UnlinkLock, GoTo, LockInv
  <2>12. CASE FindHub(c) BY <2>1, <2>12 DEF FindHub, GoTo
  <2>13. CASE SignalHub(c) \/ HubStops(c) \/ KillHub(c) \/ UnlinkSocket(c) \/ UnlinkPid(c)
    BY <2>1, <2>13 DEF SignalHub, HubStops, KillHub, UnlinkSocket, UnlinkPid, GoTo
  <2>14. CASE SpawnHub(c) BY <2>1, <2>14 DEF SpawnHub, GoTo
  <2> QED
    BY <1>2, <2>2, <2>3, <2>4, <2>5, <2>6, <2>7, <2>8, <2>9, <2>10, <2>11, <2>12, <2>13, <2>14
    DEF ClientStep
<1>3. ASSUME NEW c \in Client, EnsureStarts(c) \/ ClientDies(c) PROVE LockInv'
  BY <1>3 DEF EnsureStarts, ClientDies, GoTo, LockInv
<1>4. ASSUME NEW c \in Client, Expire(c) PROVE LockInv'
  BY <1>1, <1>4 DEF Expire
<1>5. ASSUME NEW h \in Hub, HubStep(h) \/ StartByHand(h) \/ HubDies(h) PROVE LockInv'
  BY <1>1, <1>5 DEF HubStep, Flock, ClearPath, WritePid, Bind, CloseServer, StartByHand, HubDies
<1>6. CASE LockAges BY <1>1, <1>6 DEF LockAges
<1>7. CASE UNCHANGED ensureVars BY <1>1, <1>7 DEF ensureVars
<1> QED BY <1>2, <1>3, <1>4, <1>5, <1>6, <1>7 DEF EnsureNext

-----------------------------------------------------------------------------
ReachInv == EnsureTypeOK /\ FlockInv /\ LockInv /\ Undisturbed

\* Whatever changes no hub but for its death, and leaves the path and the clients alone.
LEMMA NothingNew ==
  ASSUME ReachInv, disturbed => disturbed', UNCHANGED <<ens, target, sock>>,
         \A h \in Hub : hub'[h] = hub[h] \/ hub'[h] = "dead"
  PROVE  Undisturbed'
  BY DEF ReachInv, EnsureTypeOK, Undisturbed, OutdatedIsAlone, TargetIsAll, Alive, Flocked

\* A client goes on without touching a hub: what it owes at the place it gets to.
LEMMA GoesOn ==
  ASSUME ReachInv, disturbed => disturbed', UNCHANGED <<hub, sock>>,
         NEW c \in Client, NEW to, ens' = [ens EXCEPT ![c] = to],
         \A d \in Client \ {c} : target'[d] = target[d],
         ~disturbed' => /\ to \in {"find", "term", "stop"} => \A h \in Hub \ Outdated : ~Alive(h)
                        /\ to \in {"term", "stop"} => \A o \in Outdated : Alive(o) => target'[c] = o
                        /\ to \in {"unsock", "unpid"} => \A h \in Hub : ~Alive(h)
                        /\ to = "spawn" => \A o \in Outdated : hub[o] # "serving"
  PROVE  Undisturbed'
  BY DEF ReachInv, EnsureTypeOK, Undisturbed, OutdatedIsAlone, TargetIsAll, Alive, Flocked

\* Undisturbed, a client that pings under the lock spawns beside no hub that serves, and
\* terminates the only one.
LEMMA ReachByClient ==
  ASSUME ReachInv, NEW c \in Client, ClientStep(c)
  PROVE  Undisturbed'
<1> USE DEF EnsureTypeOK, lockVars, hubVars
<1> EnsureTypeOK /\ FlockInv /\ LockInv /\ Undisturbed BY DEF ReachInv
<1>1. CASE FirstPing(c) BY <1>1, Pinged, GoesOn DEF FirstPing
<1>2. CASE Contend(c) BY <1>2, Pinged, GoesOn DEF Contend
<1>3. CASE PollHealthy(c) BY <1>3, Pinged, GoesOn DEF PollHealthy
<1>4. CASE LockedPing(c)
  <2>1. /\ UNCHANGED <<target, hub, sock>> /\ (disturbed => disturbed')
        /\ \/ ens' = [ens EXCEPT ![c] = "spawn"] /\ (~disturbed' => Health = "none")
           \/ ens' = [ens EXCEPT ![c] = "find"] /\ Health = "other"
           \/ ens' = [ens EXCEPT ![c] = "release"] /\ Health = "match"
    BY <1>4, Pinged DEF LockedPing
  <2>2. ~disturbed /\ Health = "none" => \A o \in Outdated : hub[o] # "serving"
    BY DEF Undisturbed, Health
  <2>3. ~disturbed /\ Health = "other" => \A h \in Hub \ Outdated : ~Alive(h)
    BY DEF Undisturbed, OutdatedIsAlone, Health
  <2> QED BY <2>1, <2>2, <2>3, GoesOn
<1>5. CASE WriteSpawnLock(c) BY <1>5, GoesOn DEF WriteSpawnLock, GoTo
<1>6. CASE JudgeLock(c) BY <1>6, GoesOn DEF JudgeLock, GoTo
<1>7. CASE ReclaimLock(c) BY <1>7, GoesOn DEF ReclaimLock, UnlinkLock, GoTo
<1>8. CASE FindHub(c)
  <2> DEFINE live == {h \in Hub : Alive(h)}
  <2>1. PICK t : /\ t \in IF pidFile \in live THEN {pidFile} ELSE IF live = {} THEN {Nobody} ELSE live
                 /\ target' = [target EXCEPT ![c] = t]
    BY <1>8 DEF FindHub
  <2>2. ens[c] = "find" /\ ens' = [ens EXCEPT ![c] = "term"] /\ UNCHANGED <<hub, sock, disturbed>>
    BY <1>8 DEF FindHub, GoTo
  <2>3. ~disturbed => \A h \in Hub \ Outdated : ~Alive(h)
    BY <2>2 DEF Undisturbed, TargetIsAll
  <2>4. ASSUME ~disturbed, NEW o \in Outdated, Alive(o) PROVE target'[c] = o
    <3>1. \A h \in Hub : Alive(h) => h = o
      BY <2>3, <2>4 DEF FlockInv, OneFlock, OutdatedShape, Alive, Flocked
    <3> QED BY <2>1, <2>4, <3>1
  <2> HIDE DEF live
  <2> QED BY <2>1, <2>2, <2>3, <2>4, GoesOn
<1>9. CASE SignalHub(c)
  <2>1. /\ ens[c] = "term" /\ ens' = [ens EXCEPT ![c] = "stop"]
        /\ UNCHANGED <<target, sock, disturbed>>
    BY <1>9 DEF SignalHub, GoTo
  <2>2. \A h \in Hub : /\ Alive(h)' => Alive(h)
                       /\ hub'[h] = "serving" => hub[h] = "serving"
    BY <1>9 DEF SignalHub, Alive, Flocked
  <2> QED BY <2>1, <2>2 DEF Undisturbed, OutdatedIsAlone, TargetIsAll
<1>10. CASE HubStops(c)
  <2>1. ~disturbed => \A h \in Hub : ~Alive(h)
    BY <1>10 DEF HubStops, GoTo, Gone, Undisturbed, TargetIsAll, Alive, Flocked
  <2> QED BY <1>10, <2>1, GoesOn DEF HubStops, GoTo
<1>11. CASE KillHub(c)
  <2>1. /\ ens[c] = "stop" /\ ens' = [ens EXCEPT ![c] = "unsock"] /\ target[c] \in Hub
        /\ hub' = [hub EXCEPT ![target[c]] = "dead"] /\ UNCHANGED <<target, sock, disturbed>>
    BY <1>11 DEF KillHub, GoTo, Gone
  <2>2. ~disturbed => \A h \in Hub : ~Alive(h)'
    BY <2>1 DEF Undisturbed, TargetIsAll, Alive, Flocked
  <2>3. \A h \in Hub : ~Alive(h)' => hub'[h] # "serving"
    BY DEF Alive, Flocked
  <2> QED BY <2>1, <2>2, <2>3 DEF Undisturbed, OutdatedIsAlone, TargetIsAll
<1>12. CASE UnlinkSocket(c)
  <2>1. ~disturbed => \A h \in Hub : ~Alive(h)
    BY <1>12 DEF UnlinkSocket, GoTo, Undisturbed, TargetIsAll
  <2> QED
    BY <1>12, <2>1
    DEF UnlinkSocket, GoTo, Undisturbed, OutdatedIsAlone, TargetIsAll, Alive, Flocked
<1>13. CASE UnlinkPid(c)
  <2>1. ~disturbed => \A h \in Hub : ~Alive(h)
    BY <1>13 DEF UnlinkPid, GoTo, Undisturbed, TargetIsAll
  <2> QED BY <1>13, <2>1, GoesOn DEF UnlinkPid, GoTo, Alive, Flocked
<1>14. CASE SpawnHub(c)
  <2>1. /\ ens[c] = "spawn" /\ ens' = [ens EXCEPT ![c] = "poll"]
        /\ UNCHANGED <<target, sock, disturbed>>
    BY <1>14 DEF SpawnHub, GoTo
  <2>2. ~disturbed => \A o \in Outdated : hub[o] # "serving"
    BY <2>1 DEF Undisturbed, OutdatedIsAlone
  <2>3. ~disturbed => \A d \in Client \ {c} : ens[d] \notin {"find", "term", "stop", "unsock", "unpid"}
    BY <2>1 DEF LockInv, Holder
  <2>4. CASE UNCHANGED hub BY <2>1, <2>4, GoesOn
  <2>5. CASE ~UNCHANGED hub
    <3> PICK h \in Hub \ (Outdated \cup Manual) : hub' = [hub EXCEPT ![h] = "started"]
      BY <1>14, <2>5 DEF SpawnHub
    <3>1. \A g \in Hub : hub'[g] = "serving" => hub[g] = "serving"
      OBVIOUS
    <3> QED BY <2>1, <2>2, <2>3, <3>1 DEF Undisturbed, OutdatedIsAlone, TargetIsAll
  <2> QED BY <2>4, <2>5
<1>15. CASE GiveUp(c) BY <1>15, GoesOn DEF GiveUp, GoTo
<1>16. CASE CompareLock(c) BY <1>16, GoesOn DEF CompareLock, GoTo
<1>17. CASE ReleaseLock(c) BY <1>17, GoesOn DEF ReleaseLock, UnlinkLock, GoTo
<1> QED
  BY <1>1, <1>2, <1>3, <1>4, <1>5, <1>6, <1>7, <1>8, <1>9, <1>10, <1>11, <1>12, <1>13, <1>14,
     <1>15, <1>16, <1>17 DEF ClientStep

\* A hub gets further only if no outdated one serves; a path is cleared under the flock.
LEMMA ReachByHub ==
  ASSUME ReachInv, NEW h \in Hub, HubStep(h)
  PROVE  Undisturbed'
<1> USE DEF EnsureTypeOK, lockVars, hubVars, ensurerVars, Becomes, Flocked
<1> EnsureTypeOK /\ FlockInv /\ Undisturbed BY DEF ReachInv
<1>1. h \in Outdated => hub[h] \in {"serving", "stopping", "absent", "dead"}
  BY DEF FlockInv, OutdatedShape
<1>2. CASE Flock(h)
  BY <1>1, <1>2 DEF Flock, Undisturbed, OutdatedIsAlone, TargetIsAll, Alive
<1>3. CASE ClearPath(h)
  <2>1. \A g \in Hub : hub[g] # "serving"
    BY <1>3 DEF ClearPath, FlockInv, OneFlock
  <2> QED BY <1>1, <1>3, <2>1 DEF ClearPath, Undisturbed, OutdatedIsAlone, TargetIsAll, Alive
<1>4. CASE WritePid(h)
  BY <1>1, <1>4 DEF WritePid, Undisturbed, OutdatedIsAlone, TargetIsAll, Alive
<1>5. CASE Bind(h)
  <2>1. \A g \in Hub \ {h} : hub[g] # "serving"
    BY <1>5 DEF Bind, FlockInv, OneFlock
  <2> QED BY <1>1, <1>5, <2>1 DEF Bind, Undisturbed, OutdatedIsAlone, TargetIsAll, Alive
<1>6. CASE CloseServer(h)
  <2>1. \A g \in Hub : hub[g] # "serving"
    BY <1>6 DEF CloseServer, FlockInv, OneFlock
  <2> QED BY <1>6, <2>1 DEF CloseServer, Undisturbed, OutdatedIsAlone, TargetIsAll, Alive
<1> QED BY <1>2, <1>3, <1>4, <1>5, <1>6 DEF HubStep

LEMMA ReachPreserved == ReachInv /\ [EnsureNext]_ensureVars => ReachInv'
<1> SUFFICES ASSUME ReachInv, [EnsureNext]_ensureVars PROVE Undisturbed'
  BY TypePreserved, FlockPreserved, LockPreserved DEF ReachInv
<1> USE DEF lockVars, hubVars, ensurerVars
<1>1. ASSUME NEW c \in Client, EnsureStarts(c) PROVE Undisturbed'
  BY <1>1, GoesOn DEF EnsureStarts, GoTo
<1>2. ASSUME NEW c \in Client, ClientDies(c) PROVE Undisturbed'
  BY <1>2, GoesOn DEF ClientDies
<1>3. CASE LockAges \/ UNCHANGED ensureVars \/ \E c \in Client : Expire(c)
  BY <1>3, NothingNew DEF LockAges, ensureVars, Expire
<1>4. ASSUME NEW h \in Hub, HubDies(h) PROVE Undisturbed'
  BY <1>4, NothingNew DEF HubDies, ReachInv, EnsureTypeOK
<1>5. ASSUME NEW h \in Hub, StartByHand(h) PROVE Undisturbed'
  BY <1>5 DEF StartByHand, Undisturbed
<1> QED BY <1>1, <1>2, <1>3, <1>4, <1>5, ReachByClient, ReachByHub DEF EnsureNext

LEMMA ReachInit == EnsureInit => ReachInv
<1> SUFFICES ASSUME EnsureInit PROVE ReachInv
  OBVIOUS
<1>1. EnsureTypeOK
  BY DEF EnsureInit, EnsureTypeOK, EnsurePc, Flocked
<1>2. FlockInv /\ LockInv
  BY DEF EnsureInit, FlockInv, OneFlock, OutdatedShape, LockInv, Flocked, Holder
<1>3. Undisturbed
  BY DEF EnsureInit, Undisturbed, OutdatedIsAlone, TargetIsAll, Alive, Flocked
<1> QED BY <1>1, <1>2, <1>3 DEF ReachInv

-----------------------------------------------------------------------------
\* ensureDaemon and run_hub keep clients, lock file, hubs and paths well typed.
THEOREM EnsureTypeCorrect == EnsureSpec => []EnsureTypeOK
<1>1. EnsureInit => EnsureTypeOK BY ReachInit DEF ReachInv
<1> QED BY <1>1, TypePreserved, PTL DEF EnsureSpec

\* While nothing disturbs it, the start of the hub, by any number of clients with an
\* outdated hub in the way, and with clients and hubs that die anywhere, never leaves a
\* hub that serves without its path.
THEOREM ServingHubIsReachable == EnsureSpec => []HubIsReachable
<1>1. ReachInv => HubIsReachable BY DEF ReachInv, Undisturbed, HubIsReachable
<1> QED BY <1>1, ReachInit, ReachPreserved, PTL DEF EnsureSpec

\* Disturbed or not, no other hub takes the path of one that serves, whatever the number of
\* hubs started at once: the flock comes before the path.
THEOREM PathIsSafeFromHubs == EnsureSpec => OnlyTerminateTakesPath
<1> DEFINE Taken(h) == hub[h] = "serving" /\ sock = h /\ hub'[h] = "serving" /\ sock' # h
           Safe == \A h \in Hub : Taken(h) => \E c \in Client : ens[c] = "unsock" /\ ens'[c] = "unpid"
<1>1. ReachInv /\ [EnsureNext]_ensureVars => Safe
  <2> SUFFICES ASSUME ReachInv, [EnsureNext]_ensureVars, NEW h \in Hub, Taken(h)
               PROVE  \E c \in Client : ens[c] = "unsock" /\ ens'[c] = "unpid"
    OBVIOUS
  <2> USE DEF lockVars, hubVars, ensurerVars, Flocked
  <2>1. ASSUME NEW c \in Client, UnlinkSocket(c) PROVE ens[c] = "unsock" /\ ens'[c] = "unpid"
    BY <2>1 DEF UnlinkSocket, GoTo, ReachInv, EnsureTypeOK
  <2>2. ASSUME NEW c \in Client, ClientStep(c) PROVE UnlinkSocket(c)
    BY <2>2, Pinged
    DEF ClientStep, FirstPing, LockedPing, Contend, PollHealthy, WriteSpawnLock, JudgeLock,
        ReclaimLock, FindHub, SignalHub, HubStops, KillHub, UnlinkPid, SpawnHub, GiveUp,
        CompareLock, ReleaseLock
  <2>3. ASSUME NEW g \in Hub, HubStep(g) PROVE FALSE
    BY <2>3
    DEF HubStep, Flock, ClearPath, WritePid, Bind, CloseServer, Becomes, ReachInv, EnsureTypeOK,
        FlockInv, OneFlock
  <2> QED
    BY <2>1, <2>2, <2>3
    DEF EnsureNext, EnsureStarts, Expire, ClientDies, StartByHand, HubDies, LockAges, ensureVars
<1>2. ReachInv /\ [EnsureNext]_ensureVars => [Safe]_ensureVars BY <1>1
<1> QED BY <1>2, ReachInit, ReachPreserved, PTL DEF EnsureSpec, OnlyTerminateTakesPath

-----------------------------------------------------------------------------
\* The refinement of HubService.

Serving == {h \in Hub : hub[h] = "serving"}

\* A step that takes no hub in, and none but the last one out, and leaves the path alone.
LEMMA ServiceGoesOn ==
  ASSUME ReachInv, disturbed' = disturbed \/ (disturbed' = TRUE /\ hub' = hub), UNCHANGED sock,
         \A h \in Hub : hub'[h] = "serving" => hub[h] = "serving"
  PROVE  [Service!Next]_(Service!vars)
<1>1. Serving' \subseteq Serving /\ \A g, h \in Serving : g = h
  BY DEF Serving, ReachInv, FlockInv, OneFlock, Flocked
<1>2. CASE Serving' = Serving
  BY <1>2 DEF Serving, Service!Next, Service!Disturb, Service!vars
<1>3. CASE Serving' # Serving
  <2>1. Serving # {} /\ Serving' = {} /\ disturbed' = disturbed
    BY <1>1, <1>3 DEF Serving
  <2> QED BY <2>1 DEF Serving, Service!Next, Service!End
<1> QED BY <1>2, <1>3

\* A step that takes the path away when no hub serves, or after a disturbance.
LEMMA ServiceUnlinks ==
  ASSUME Serving = {} \/ disturbed, Serving' = Serving, UNCHANGED disturbed, sock' \in {sock, Nobody}
  PROVE  [Service!Next]_(Service!vars)
BY DEF Serving, Service!Next, Service!Unlink, Service!vars

\* A client ends hubs, and takes the path of one that is gone; it takes none in.
LEMMA ServiceByClient ==
  ASSUME ReachInv, NEW c \in Client, ClientStep(c)
  PROVE  [Service!Next]_(Service!vars)
<1> USE DEF lockVars, hubVars
<1> EnsureTypeOK /\ Undisturbed BY DEF ReachInv
<1>1. CASE FirstPing(c) \/ LockedPing(c) \/ Contend(c) \/ PollHealthy(c)
  <2>1. UNCHANGED <<hub, sock>> /\ (disturbed' = disturbed \/ disturbed' = TRUE)
    BY <1>1 DEF FirstPing, LockedPing, Contend, PollHealthy, PingStep, Ping
  <2> QED BY <2>1, ServiceGoesOn
<1>2. CASE ReclaimLock(c) \/ ReleaseLock(c)
  <2>1. UNCHANGED <<hub, sock>> /\ (disturbed' = disturbed \/ disturbed' = TRUE)
    BY <1>2 DEF ReclaimLock, ReleaseLock, UnlinkLock, EnsureTypeOK
  <2> QED BY <2>1, ServiceGoesOn
<1>3. CASE SignalHub(c) \/ KillHub(c)
  BY <1>3, ServiceGoesOn DEF SignalHub, KillHub, EnsureTypeOK, Alive, Flocked
<1>4. CASE UnlinkSocket(c)
  <2>1. ens[c] = "unsock" /\ UNCHANGED <<hub, disturbed>> /\ sock' = Nobody
    BY <1>4 DEF UnlinkSocket, GoTo
  <2>2. Serving = {} \/ disturbed
    BY <2>1 DEF Undisturbed, TargetIsAll, Serving, Alive, Flocked
  <2> QED BY <2>1, <2>2, ServiceUnlinks DEF Serving
<1>5. CASE SpawnHub(c)
  <2>1. \A h \in Hub : hub'[h] = "serving" => hub[h] = "serving"
    BY <1>5 DEF SpawnHub, EnsureTypeOK
  <2> QED BY <1>5, <2>1, ServiceGoesOn DEF SpawnHub
<1>6. CASE \/ WriteSpawnLock(c) \/ JudgeLock(c) \/ FindHub(c) \/ HubStops(c) \/ UnlinkPid(c)
           \/ GiveUp(c) \/ CompareLock(c)
  BY <1>6, ServiceGoesOn
  DEF WriteSpawnLock, JudgeLock, FindHub, HubStops, UnlinkPid, GiveUp, CompareLock
<1> QED BY <1>1, <1>2, <1>3, <1>4, <1>5, <1>6 DEF ClientStep

\* A hub serves when it binds, which it gets to with the flock: none serves then, and none
\* served when it cleared the path.
LEMMA ServiceByHub ==
  ASSUME ReachInv, NEW h \in Hub, HubStep(h)
  PROVE  [Service!Next]_(Service!vars)
<1> USE DEF ensurerVars, lockVars, Becomes
<1> EnsureTypeOK /\ OneFlock /\ OutdatedShape BY DEF ReachInv, FlockInv
<1>1. CASE Flock(h) \/ WritePid(h)
  BY <1>1, ServiceGoesOn DEF Flock, WritePid, EnsureTypeOK
<1>2. CASE ClearPath(h) \/ CloseServer(h)
  <2>1. hub[h] \in {"flocked", "stopping"} /\ UNCHANGED disturbed /\ sock' \in {sock, Nobody}
    BY <1>2 DEF ClearPath, CloseServer
  <2>2. Serving = {} /\ Serving' = {}
    BY <1>2, <2>1 DEF ClearPath, CloseServer, Serving, OneFlock, Flocked, EnsureTypeOK
  <2> QED BY <2>1, <2>2, ServiceUnlinks
<1>3. CASE Bind(h)
  <2>1. /\ hub[h] = "named" /\ hub' = [hub EXCEPT ![h] = "serving"] /\ sock' = h
        /\ UNCHANGED disturbed
    BY <1>3 DEF Bind
  <2>2. Serving = {} /\ Serving' = {h} /\ h \notin Outdated
    BY <2>1 DEF Serving, OneFlock, OutdatedShape, Flocked, EnsureTypeOK
  <2> QED BY <2>1, <2>2 DEF Serving, Service!Next, Service!Serve
<1> QED BY <1>1, <1>2, <1>3 DEF HubStep

LEMMA ServiceStep == ReachInv /\ [EnsureNext]_ensureVars => [Service!Next]_(Service!vars)
<1> SUFFICES ASSUME ReachInv, [EnsureNext]_ensureVars PROVE [Service!Next]_(Service!vars)
  OBVIOUS
<1> USE DEF lockVars, hubVars, ensurerVars
<1>1. ASSUME NEW c \in Client, EnsureStarts(c) \/ Expire(c) \/ ClientDies(c)
      PROVE  [Service!Next]_(Service!vars)
  BY <1>1, ServiceGoesOn DEF EnsureStarts, Expire, ClientDies
<1>2. ASSUME NEW h \in Hub, StartByHand(h) PROVE [Service!Next]_(Service!vars)
  <2>1. Serving' = Serving /\ sock' = sock /\ disturbed' = TRUE
    BY <1>2 DEF StartByHand, Becomes, Serving, ReachInv, EnsureTypeOK
  <2> QED BY <2>1 DEF Serving, Service!Next, Service!Disturb
<1>3. ASSUME NEW h \in Hub, HubDies(h) PROVE [Service!Next]_(Service!vars)
  BY <1>3, ServiceGoesOn DEF HubDies, ReachInv, EnsureTypeOK
<1>4. CASE LockAges \/ UNCHANGED ensureVars
  BY <1>4, ServiceGoesOn DEF LockAges, ensureVars
<1> QED BY <1>1, <1>2, <1>3, <1>4, ServiceByClient, ServiceByHub DEF EnsureNext

LEMMA ServiceInit == EnsureInit => Service!Init
BY DEF EnsureInit, Service!Init

\* Any number of clients and hubs, whatever dies, is killed, stalls or is started by hand,
\* implements the service of one hub.
THEOREM ImplementsHubService == EnsureSpec => HubsKeepTheirPromise
BY ReachInit, ReachPreserved, ServiceInit, ServiceStep, PTL
DEF EnsureSpec, HubsKeepTheirPromise, Service!Spec

HIDE EnsureAssumption

-----------------------------------------------------------------------------
\* The connection of a process.
USE ClientAssumption

Wiring == [publisher : Socket \cup {NoSocket}, handlers : [Socket -> Nat],
           unsub : Socket \cup {NoSocket}, widget : BOOLEAN, cleanups : BOOLEAN]

\* One handler, which unsub removes, on c, and none if that is no socket.
Handled(w, c) ==
  /\ w \in Wiring /\ w.unsub = c
  /\ \A s \in Socket : w.handlers[s] = IF s = c THEN 1 ELSE 0

\* All that is wired is wired to c, and this load will clean it up.
WiredTo(w, c) == Handled(w, c) /\ w.publisher = c /\ (c # NoSocket => w.cleanups)

RequestRecord == [at : {"idle", "held", "waiting", "answered", "failed"},
                  for : {"answer", "wait", "list", "dispatch", "ask"},
                  on : Socket \cup {NoSocket}, late : BOOLEAN, try : 1..Attempts]

ClientTyped ==
  /\ load \in 1..MaxLoads /\ session \in {"down", "up", "stopping"}
  /\ socket \in [Socket -> SocketState] /\ outdated \subseteq Socket
  /\ connection \in Socket \cup {NoSocket} /\ connecting \in Socket \cup {NoSocket}
  /\ wired \in Wiring
  /\ daemon \in {"idle", "starting", "connected", "unavailable", "disconnected"}
  /\ request \in [Request -> RequestRecord]

\* An attempt under way is the current one of a session that is up and has no connection,
\* or is outdated.
AttemptShape ==
  /\ connecting # NoSocket => /\ session = "up" /\ connection = NoSocket
                              /\ connecting \notin outdated
                              /\ socket[connecting] \in {"ensuring", "opening"}
  /\ \A s \in Socket : socket[s] \in {"ensuring", "opening"} => s = connecting \/ s \in outdated
  /\ \A s \in outdated : socket[s] # "unused"

\* state.connection is open, and of all sockets the only one.
ConnectionShape ==
  /\ connection # NoSocket => session = "up" /\ socket[connection] = "open"
  /\ \A s \in Socket : socket[s] = "open" => s = connection

ClientInv == ClientTyped /\ AttemptShape /\ ConnectionShape /\ WiredTo(wired, connection)

-----------------------------------------------------------------------------
LEMMA Unsubscribed ==
  ASSUME NEW c \in Socket \cup {NoSocket}, NEW w, Handled(w, c)
  PROVE  Handled(Unsubscribe(w), NoSocket) /\ Unsubscribe(w).publisher = w.publisher
<1>1. CASE c = NoSocket
  BY <1>1 DEF Handled, Unsubscribe
<1>2. CASE c # NoSocket
  <2> DEFINE u == [w EXCEPT !.handlers[c] = @ - 1, !.unsub = NoSocket]
  <2>1. c \in Socket /\ w \in Wiring /\ w.unsub = c /\ w.handlers \in [Socket -> Nat]
    BY <1>2 DEF Handled, Wiring
  <2>2. Unsubscribe(w) = u
    BY <2>1 DEF Unsubscribe
  <2>3. u.handlers = [w.handlers EXCEPT ![c] = @ - 1] /\ u.unsub = NoSocket
        /\ u.publisher = w.publisher
    OBVIOUS
  <2>4. w.handlers[c] = 1 /\ \A s \in Socket \ {c} : w.handlers[s] = 0
    BY <2>1 DEF Handled
  <2>5. [w.handlers EXCEPT ![c] = @ - 1] \in [Socket -> Nat]
    BY <2>1, <2>4
  <2>6. u \in Wiring
    BY <2>1, <2>5 DEF Wiring
  <2> HIDE DEF u
  <2>7. ASSUME NEW s \in Socket PROVE u.handlers[s] = 0
    <3>1. CASE s = c BY <2>1, <2>3, <2>4
    <3>2. CASE s # c BY <2>3, <2>4, <3>2
    <3> QED BY <3>1, <3>2
  <2> QED BY <2>2, <2>3, <2>6, <2>7 DEF Handled
<1> QED BY <1>1, <1>2

LEMMA CleanedUp ==
  ASSUME NEW c \in Socket \cup {NoSocket}, NEW w, WiredTo(w, c)
  PROVE  WiredTo(RunCleanups(ClearMetadata(w)), NoSocket)
<1> DEFINE m == ClearMetadata(w)
           u == Unsubscribe(m)
           v == [u EXCEPT !.widget = FALSE, !.cleanups = FALSE]
<1>1. Handled(m, c) /\ m.publisher = NoSocket /\ m.cleanups = w.cleanups
  BY DEF WiredTo, Handled, ClearMetadata, Wiring
<1>2. Handled(u, NoSocket) /\ u.publisher = NoSocket
  BY <1>1, Unsubscribed
<1>3. CASE m.cleanups
  <2>1. RunCleanups(m) = v
    BY <1>3 DEF RunCleanups
  <2>2. v \in Wiring /\ v.handlers = u.handlers /\ v.unsub = NoSocket /\ v.publisher = NoSocket
    BY <1>2 DEF Handled, Wiring
  <2> HIDE DEF u, v
  <2> QED BY <1>2, <2>1, <2>2 DEF WiredTo, Handled
<1>4. CASE ~m.cleanups
  <2>1. RunCleanups(m) = m /\ c = NoSocket
    BY <1>1, <1>4 DEF RunCleanups, WiredTo
  <2> QED BY <1>1, <2>1 DEF WiredTo
<1> QED BY <1>3, <1>4

\* Whatever was wired to the connection or to none, wiring leaves one of each.
LEMMA Rewired ==
  ASSUME NEW s \in Socket, NEW c \in {NoSocket, s}, NEW w, Handled(w, c)
  PROVE  WiredTo(Wire(w, s), s)
<1> DEFINE r == RunCleanups(w)
           p == Publish(r, s)
           u == Unsubscribe(p)
           v == [u EXCEPT !.handlers[s] = @ + 1, !.unsub = s, !.widget = TRUE, !.cleanups = TRUE]
<1>1. \E d \in {NoSocket, s} : Handled(r, d)
  <2>1. CASE w.cleanups
    <3> DEFINE x == Unsubscribe(w)
    <3>1. Handled(x, NoSocket)
      BY Unsubscribed
    <3>2. r = [x EXCEPT !.widget = FALSE, !.cleanups = FALSE]
      BY <2>1 DEF RunCleanups
    <3> HIDE DEF x, r
    <3> QED BY <3>1, <3>2 DEF Handled, Wiring
  <2>2. CASE ~w.cleanups
    BY <2>2 DEF RunCleanups
  <2> QED BY <2>1, <2>2
<1>2. PICK d \in {NoSocket, s} : Handled(r, d)
  BY <1>1
<1> HIDE DEF r
<1>3. Handled(p, d) /\ p.publisher = s
  BY <1>2 DEF Publish, ClearMetadata, Handled, Wiring
<1>4. Wire(w, s) = v
  BY DEF Wire, Subscribe, r
<1> HIDE DEF p
<1>5. Handled(u, NoSocket) /\ u.publisher = s
  BY <1>3, Unsubscribed
<1> HIDE DEF u
<1>6. u \in Wiring /\ u.handlers \in [Socket -> Nat] /\ \A t \in Socket : u.handlers[t] = 0
  BY <1>5 DEF Handled, Wiring
<1>7. /\ v.handlers = [u.handlers EXCEPT ![s] = @ + 1] /\ v.unsub = s /\ v.publisher = s
      /\ v.cleanups
  BY <1>5
<1>8. [u.handlers EXCEPT ![s] = @ + 1] \in [Socket -> Nat]
  BY <1>6
<1>9. v \in Wiring
  BY <1>6, <1>8 DEF Wiring
<1> HIDE DEF v
<1>10. ASSUME NEW t \in Socket PROVE v.handlers[t] = IF t = s THEN 1 ELSE 0
  <2>1. CASE t = s BY <1>6, <1>7
  <2>2. CASE t # s BY <1>6, <1>7
  <2> QED BY <2>1, <2>2
<1> QED BY <1>4, <1>7, <1>9, <1>10 DEF WiredTo, Handled

-----------------------------------------------------------------------------
\* Of a step, the sockets and the connection; then the wiring; then the requests.

LEMMA InitClientInv == ClientInit => ClientInv
<1> SUFFICES ASSUME ClientInit PROVE ClientInv
  OBVIOUS
<1>1. ClientTyped
  BY DEF ClientInit, ClientTyped, NoWiring, Wiring, SocketState, RequestRecord
<1>2. AttemptShape /\ ConnectionShape
  BY DEF ClientInit, AttemptShape, ConnectionShape
<1>3. WiredTo(wired, connection)
  BY DEF ClientInit, NoWiring, WiredTo, Handled, Wiring
<1> QED BY <1>1, <1>2, <1>3 DEF ClientInv

\* Wiring that is well-typed is typed.
LEMMA WiredIsTyped == \A c : WiredTo(wired, c) => wired \in Wiring
BY DEF WiredTo, Handled

LEMMA StartKeeps ==
  ASSUME ClientInv, NEW w \in Wiring, Handled(w, connection), connecting = NoSocket,
         session # "stopping", connection = NoSocket => WiredTo(w, NoSocket), StartSession(w),
         load' \in 1..MaxLoads, UNCHANGED <<outdated, connection, request>>
  PROVE  ClientInv'
<1>1. CASE connection # NoSocket
  <2>1. /\ wired' = Wire(w, connection) /\ UNCHANGED <<socket, connecting>>
        /\ daemon' = "starting" /\ session' = "up" /\ connection \in Socket
    BY <1>1 DEF StartSession, ClientInv, ClientTyped
  <2>2. WiredTo(wired, connection)'
    BY <2>1, Rewired
  <2>3. wired' \in Wiring
    BY <2>2 DEF WiredTo, Handled
  <2>4. ClientTyped'
    BY <2>1, <2>3 DEF ClientInv, ClientTyped
  <2>5. AttemptShape' /\ ConnectionShape'
    BY <2>1 DEF ClientInv, AttemptShape, ConnectionShape
  <2> QED BY <2>2, <2>4, <2>5 DEF ClientInv
<1>2. CASE connection = NoSocket
  <2>1. PICK s \in Socket : /\ socket[s] = "unused" /\ socket' = [socket EXCEPT ![s] = "ensuring"]
                            /\ connecting' = s /\ wired' = w
    BY <1>2 DEF StartSession
  <2>2. daemon' = "starting" /\ session' = "up"
    BY DEF StartSession
  <2>3. ClientTyped'
    BY <2>1, <2>2 DEF ClientInv, ClientTyped, SocketState
  <2>4. AttemptShape'
    BY <1>2, <2>1, <2>2 DEF ClientInv, ClientTyped, AttemptShape
  <2>5. ConnectionShape'
    BY <2>1, <2>2 DEF ClientInv, ConnectionShape
  <2>6. WiredTo(wired, connection)'
    BY <1>2, <2>1
  <2> QED BY <2>3, <2>4, <2>5, <2>6 DEF ClientInv
<1> QED BY <1>1, <1>2

LEMMA SessionStartKeeps == ASSUME ClientInv, SessionStart PROVE ClientInv'
<1>1. connecting = NoSocket /\ session # "stopping"
  BY DEF SessionStart, ClientInv, AttemptShape
<1>2. wired \in Wiring /\ Handled(wired, connection) /\ WiredTo(wired, connection)
  BY DEF ClientInv, WiredTo, ClientTyped
<1>3. load' \in 1..MaxLoads /\ UNCHANGED <<outdated, connection, request>> /\ StartSession(wired)
  BY DEF SessionStart, ClientInv, ClientTyped
<1> QED BY <1>1, <1>2, <1>3, StartKeeps

LEMMA ReloadKeeps == ASSUME ClientInv, Reload PROVE ClientInv'
<1> DEFINE w == [wired EXCEPT !.cleanups = FALSE]
<1>1. connecting = NoSocket /\ session # "stopping" /\ StartSession(w)
      /\ UNCHANGED <<outdated, connection, request>>
  BY DEF Reload
<1>2. load' \in 1..MaxLoads
  BY DEF Reload, ClientInv, ClientTyped
<1>3. w \in Wiring /\ Handled(w, connection) /\ (connection = NoSocket => WiredTo(w, NoSocket))
  BY DEF ClientInv, WiredTo, Handled, Wiring
<1> HIDE DEF w
<1> QED BY <1>1, <1>2, <1>3, StartKeeps

LEMMA EnsuredKeeps == ASSUME ClientInv, NEW s \in Socket, Ensured(s) PROVE ClientInv'
<1>1. ClientTyped'
  BY DEF Ensured, ClientInv, ClientTyped, SocketState
<1>2. AttemptShape'
  BY DEF Ensured, ClientInv, AttemptShape
<1>3. ConnectionShape'
  BY DEF Ensured, ClientInv, ConnectionShape
<1>4. WiredTo(wired, connection)'
  BY DEF Ensured, ClientInv
<1> QED BY <1>1, <1>2, <1>3, <1>4 DEF ClientInv

LEMMA RegisteredKeeps == ASSUME ClientInv, NEW s \in Socket, Registered(s) PROVE ClientInv'
<1>1. CASE s \in outdated
  <2>1. /\ socket[s] = "opening" /\ socket' = [socket EXCEPT ![s] = "closing"]
        /\ UNCHANGED <<load, session, outdated, connection, connecting, wired, daemon, request>>
    BY <1>1 DEF Registered, Finish
  <2>2. ClientTyped'
    BY <2>1 DEF ClientInv, ClientTyped, SocketState
  <2>3. AttemptShape'
    BY <1>1, <2>1 DEF ClientInv, AttemptShape
  <2>4. ConnectionShape'
    BY <2>1 DEF ClientInv, ConnectionShape
  <2>5. WiredTo(wired, connection)'
    BY <2>1 DEF ClientInv
  <2> QED BY <2>2, <2>3, <2>4, <2>5 DEF ClientInv
<1>2. CASE s \notin outdated
  <2>1. /\ socket[s] = "opening" /\ socket' = [socket EXCEPT ![s] = "open"] /\ connection' = s
        /\ daemon' = "connected" /\ wired' = Wire(wired, s) /\ connecting' = NoSocket
        /\ UNCHANGED <<load, session, outdated, request>>
    BY <1>2 DEF Registered, Finish
  <2>2. s = connecting /\ session = "up" /\ connection = NoSocket
    BY <1>2, <2>1 DEF ClientInv, AttemptShape
  <2>3. WiredTo(wired, connection)'
    BY <2>1, <2>2, Rewired DEF ClientInv, WiredTo
  <2>4. wired' \in Wiring
    BY <2>3 DEF WiredTo, Handled
  <2>5. ClientTyped'
    BY <2>1, <2>4 DEF ClientInv, ClientTyped, SocketState
  <2>6. AttemptShape'
    BY <2>1, <2>2 DEF ClientInv, ClientTyped, AttemptShape
  <2>7. ConnectionShape'
    BY <2>1, <2>2 DEF ClientInv, ClientTyped, ConnectionShape
  <2> QED BY <2>3, <2>5, <2>6, <2>7 DEF ClientInv
<1> QED BY <1>1, <1>2

LEMMA ConnectFailsKeeps == ASSUME ClientInv, NEW s \in Socket, ConnectFails(s) PROVE ClientInv'
<1>1. PICK end \in {"closed", "stray"} : socket' = [socket EXCEPT ![s] = end]
  BY DEF ConnectFails
<1>2. /\ socket[s] \in {"ensuring", "opening"} /\ (s = connecting \/ s \in outdated)
      /\ UNCHANGED <<load, session, outdated, connection, request>>
  BY DEF ConnectFails, ClientInv, AttemptShape
<1>3. ConnectionShape'
  BY <1>1, <1>2 DEF ClientInv, ConnectionShape
<1>4. CASE s \in outdated
  <2>1. UNCHANGED <<connecting, wired, daemon>>
    BY <1>4 DEF ConnectFails, Finish
  <2>2. ClientTyped'
    BY <1>1, <1>2, <2>1 DEF ClientInv, ClientTyped, SocketState
  <2>3. AttemptShape'
    BY <1>1, <1>2, <1>4, <2>1 DEF ClientInv, AttemptShape
  <2> QED BY <1>2, <1>3, <2>1, <2>2, <2>3 DEF ClientInv
<1>5. CASE s \notin outdated
  <2>1. /\ connecting' = NoSocket /\ daemon' = "unavailable"
        /\ wired' = RunCleanups(ClearMetadata(wired))
    BY <1>5 DEF ConnectFails, Finish
  <2>2. s = connecting /\ connection = NoSocket
    BY <1>2, <1>5 DEF ClientInv, AttemptShape
  <2>3. WiredTo(wired, connection)'
    BY <1>2, <2>1, <2>2, CleanedUp DEF ClientInv
  <2>4. wired' \in Wiring
    BY <2>3 DEF WiredTo, Handled
  <2>5. ClientTyped'
    BY <1>1, <1>2, <2>1, <2>4 DEF ClientInv, ClientTyped, SocketState
  <2>6. AttemptShape'
    BY <1>1, <1>2, <2>1, <2>2 DEF ClientInv, ClientTyped, AttemptShape
  <2> QED BY <1>3, <2>3, <2>5, <2>6 DEF ClientInv
<1> QED BY <1>4, <1>5

LEMMA ClosedKeeps == ASSUME ClientInv, NEW s \in Socket, Closed(s) PROVE ClientInv'
<1>1. /\ socket[s] \in {"open", "stray", "closing"} /\ socket' = [socket EXCEPT ![s] = "closed"]
      /\ connection' = IF connection = s THEN NoSocket ELSE connection
      /\ daemon' = IF connection = s THEN "disconnected" ELSE daemon
      /\ UNCHANGED <<load, session, outdated, connecting>>
  BY DEF Closed
<1>2. request' \in [Request -> RequestRecord]
  <2>1. request \in [Request -> RequestRecord]
    BY DEF ClientInv, ClientTyped
  <2>2. \A r \in Request : [request[r] EXCEPT !.at = "failed"] \in RequestRecord
    BY <2>1 DEF RequestRecord
  <2> QED BY <2>1, <2>2 DEF Closed
<1>3. AttemptShape'
  BY <1>1 DEF ClientInv, AttemptShape
<1>4. ConnectionShape'
  BY <1>1 DEF ClientInv, ClientTyped, ConnectionShape
<1>5. WiredTo(wired, connection)'
  <2>1. wired.publisher = connection /\ wired.unsub = connection
    BY DEF ClientInv, WiredTo, Handled
  <2>2. CASE connection = s
    <3> DEFINE w == RunCleanups(ClearMetadata(wired))
    <3>1. WiredTo(w, NoSocket)
      BY CleanedUp DEF ClientInv, ClientTyped
    <3>2. w.unsub = NoSocket /\ [w EXCEPT !.unsub = NoSocket] = w
      BY <3>1 DEF WiredTo, Handled, Wiring
    <3>3. wired' = w
      BY <2>1, <2>2, <3>2 DEF Closed
    <3> HIDE DEF w
    <3> QED BY <1>1, <2>2, <3>1, <3>3
  <2>3. CASE connection # s
    <3>1. wired' = wired
      BY <2>1, <2>3 DEF Closed
    <3> QED BY <1>1, <2>3, <3>1 DEF ClientInv
  <2> QED BY <2>2, <2>3
<1>6. wired' \in Wiring
  BY <1>5 DEF WiredTo, Handled
<1>7. ClientTyped'
  BY <1>1, <1>2, <1>6 DEF ClientInv, ClientTyped, SocketState
<1> QED BY <1>3, <1>4, <1>5, <1>7 DEF ClientInv

LEMMA ShutdownKeeps == ASSUME ClientInv, Shutdown PROVE ClientInv'
<1>1. /\ session' \in {"down", "stopping"} /\ outdated' = outdated \cup (Socket \cap {connecting})
      /\ connection' = NoSocket /\ connecting' = NoSocket /\ daemon' = "idle"
      /\ socket' = [s \in Socket |-> IF s = connection /\ socket[s] = "open" THEN "closing"
                                     ELSE socket[s]]
      /\ wired' = RunCleanups(ClearMetadata(wired)) /\ UNCHANGED <<load, request>>
  BY DEF Shutdown
<1>2. WiredTo(wired, connection)'
  BY <1>1, CleanedUp DEF ClientInv, ClientTyped
<1>3. wired' \in Wiring
  BY <1>2 DEF WiredTo, Handled
<1>4. ClientTyped'
  BY <1>1, <1>3 DEF ClientInv, ClientTyped, SocketState
<1>5. AttemptShape'
  BY <1>1 DEF ClientInv, ClientTyped, AttemptShape
<1>6. ConnectionShape'
  BY <1>1 DEF ClientInv, ConnectionShape
<1> QED BY <1>2, <1>4, <1>5, <1>6 DEF ClientInv

LEMMA ShutdownEndsKeeps == ASSUME ClientInv, ShutdownEnds PROVE ClientInv'
BY DEF ShutdownEnds, ClientInv, ClientTyped, AttemptShape, ConnectionShape

\* What a tool call does touches its request only.
LEMMA RequestKeeps ==
  ASSUME ClientInv, UNCHANGED sessionVars, request' \in [Request -> RequestRecord]
  PROVE  ClientInv'
BY DEF ClientInv, ClientTyped, AttemptShape, ConnectionShape, sessionVars

LEMMA BeginsTyped ==
  ASSUME ClientInv, NEW r \in Request, NEW at \in {"held", "waiting"},
         NEW for \in {"answer", "wait", "list", "dispatch", "ask"}, Begins(r, at, for)
  PROVE  UNCHANGED sessionVars /\ request' \in [Request -> RequestRecord]
<1> DEFINE a == IF connection = NoSocket THEN "failed" ELSE at
<1>1. request \in [Request -> RequestRecord] /\ connection \in Socket \cup {NoSocket}
  BY DEF ClientInv, ClientTyped
<1>2. request[r] \in RequestRecord
  BY <1>1
<1>3. [request[r] EXCEPT !.at = a, !.for = for, !.on = connection] \in RequestRecord
  BY <1>1, <1>2 DEF RequestRecord
<1> QED BY <1>1, <1>3 DEF Begins

LEMMA AnswerTyped ==
  ASSUME ClientInv, NEW r \in Request, Answer(r)
  PROVE  UNCHANGED sessionVars /\ request' \in [Request -> RequestRecord]
<1>1. request \in [Request -> RequestRecord]
  BY DEF ClientInv, ClientTyped
<1>2. PICK q \in After(request[r]) : request' = [request EXCEPT ![r] = q]
  BY DEF Answer
<1> DEFINE p == request[r]
<1>3. p \in RequestRecord
  BY <1>1
<1> HIDE DEF p
<1>4. q \in RequestRecord
  <2> DEFINE again == IF p.try < Attempts THEN {p.try + 1} ELSE {}
  <2>1. \A n \in again : n \in 1..Attempts
    BY <1>3 DEF RequestRecord
  <2>2. \/ q = [p EXCEPT !.at = "answered"]
        \/ q = [p EXCEPT !.at = "held", !.for = "dispatch", !.try = Attempts]
        \/ \E n \in again : q = [p EXCEPT !.at = "held", !.try = n]
        \/ q = [p EXCEPT !.for = "wait"]
        \/ \E n \in again : q = [p EXCEPT !.try = n]
    BY <1>2 DEF After, AwaitAnswer, p
  <2>3. Attempts \in 1..Attempts
    OBVIOUS
  <2> HIDE DEF again
  <2>4. CASE q = [p EXCEPT !.at = "answered"]
    BY <1>3, <2>4 DEF RequestRecord
  <2>5. CASE q = [p EXCEPT !.at = "held", !.for = "dispatch", !.try = Attempts]
    BY <1>3, <2>3, <2>5 DEF RequestRecord
  <2>6. ASSUME NEW n \in again, q = [p EXCEPT !.at = "held", !.try = n] PROVE q \in RequestRecord
    BY <1>3, <2>1, <2>6 DEF RequestRecord
  <2>7. CASE q = [p EXCEPT !.for = "wait"]
    BY <1>3, <2>7 DEF RequestRecord
  <2>8. ASSUME NEW n \in again, q = [p EXCEPT !.try = n] PROVE q \in RequestRecord
    BY <1>3, <2>1, <2>8 DEF RequestRecord
  <2> QED BY <2>2, <2>4, <2>5, <2>6, <2>7, <2>8
<1>5. request' \in [Request -> RequestRecord]
  BY <1>1, <1>2, <1>4
<1> QED BY <1>5 DEF Answer

LEMMA RequestStepKeeps ==
  ASSUME ClientInv, NEW r \in Request,
         \/ ListAgents(r) \/ CancelAgent(r) \/ MessageAgent(r) \/ WaitForAgent(r)
         \/ MessageStatus(r) \/ DispatchAgent(r) \/ AskAgent(r) \/ Issue(r) \/ LaunchRefused(r)
         \/ Answer(r) \/ Abort(r)
  PROVE  ClientInv'
<1>1. request \in [Request -> RequestRecord] /\ request[r] \in RequestRecord
  BY DEF ClientInv, ClientTyped
<1>2. CASE \/ ListAgents(r) \/ CancelAgent(r) \/ MessageAgent(r) \/ WaitForAgent(r)
           \/ MessageStatus(r) \/ DispatchAgent(r) \/ AskAgent(r)
  BY <1>2, BeginsTyped, RequestKeeps DEF ListAgents, CancelAgent, MessageAgent, WaitForAgent,
     MessageStatus, DispatchAgent, AskAgent
<1>3. CASE Issue(r)
  <2>1. PICK b \in BOOLEAN :
          request' = [request EXCEPT ![r] = [@ EXCEPT !.at = "waiting", !.late = b]]
    BY <1>3 DEF Issue
  <2>2. [request[r] EXCEPT !.at = "waiting", !.late = b] \in RequestRecord
    BY <1>1 DEF RequestRecord
  <2> QED BY <1>1, <1>3, <2>1, <2>2, RequestKeeps DEF Issue
<1>4. CASE LaunchRefused(r) \/ Abort(r)
  <2>1. [request[r] EXCEPT !.at = "failed"] \in RequestRecord
    BY <1>1 DEF RequestRecord
  <2>2. request' \in [Request -> RequestRecord]
    BY <1>1, <1>4, <2>1 DEF LaunchRefused, Abort
  <2> QED BY <1>4, <2>2, RequestKeeps DEF LaunchRefused, Abort
<1>5. CASE Answer(r)
  BY <1>5, AnswerTyped, RequestKeeps
<1> QED BY <1>2, <1>3, <1>4, <1>5

LEMMA ClientInvInductive == ClientInv /\ [ClientNext]_clientVars => ClientInv'
<1> SUFFICES ASSUME ClientInv, [ClientNext]_clientVars PROVE ClientInv'
  OBVIOUS
<1>1. CASE UNCHANGED clientVars
  BY <1>1 DEF clientVars, ClientInv, ClientTyped, AttemptShape, ConnectionShape
<1>2. CASE SessionStart \/ Reload \/ Shutdown \/ ShutdownEnds
  BY <1>2, SessionStartKeeps, ReloadKeeps, ShutdownKeeps, ShutdownEndsKeeps
<1>3. ASSUME NEW s \in Socket, Ensured(s) \/ Registered(s) \/ ConnectFails(s) \/ Closed(s)
      PROVE  ClientInv'
  BY <1>3, EnsuredKeeps, RegisteredKeeps, ConnectFailsKeeps, ClosedKeeps
<1> QED BY <1>1, <1>2, <1>3, RequestStepKeeps DEF ClientNext

LEMMA ClientInvAlways == ClientSpec => []ClientInv
BY InitClientInv, ClientInvInductive, PTL DEF ClientSpec

\* The connection's attempts, sockets, wiring and requests are well typed.
THEOREM ClientTypeCorrect == ClientSpec => []ClientTypeOK
<1>1. ClientInv => ClientTypeOK
  BY DEF ClientInv, ClientTyped, ClientTypeOK, Wiring, RequestRecord
<1> QED BY <1>1, ClientInvAlways, PTL

\* Of all sockets only state.connection is live, and it is wired once.
THEOREM OneConnectionIsWired == ClientSpec => []DeliveredOnce
<1>1. ClientInv => DeliveredOnce
  BY DEF ClientInv, ConnectionShape, WiredTo, Handled, DeliveredOnce
<1> QED BY <1>1, ClientInvAlways, PTL

HIDE ClientAssumption

-----------------------------------------------------------------------------
\* The workstreams.
USE WorkstreamAssumption

Author == Stream \cup Revision
Version == [body : Body, by : Author, from : Nat]
Row == [slug : Slug \cup {NoSlug}, status : {"none", "open", "closed"}, versions : Seq(Version)]
CreateRecord ==
  [pc : {"idle", "asking", "done"}, attempts : 0..MaxSlugAttempts, reported : Slug \cup {NoSlug}]
ReviseRecord ==
  [pc : {"idle", "writing", "done"}, of : Stream \cup {NoSlug}, named : SUBSET Field, read : Nat,
   reported : Nat]
SeatRecord ==
  [pc : {"off", "exploring", "reading", "attaching", "open"}, of : Slug \cup {NoSlug}, turns : BOOLEAN,
   briefs : Nat, told : BOOLEAN]

StreamTyped ==
  /\ rows \in [Stream -> Row] /\ creates \in [Stream -> CreateRecord]
  /\ revises \in [Revision -> ReviseRecord] /\ seats \in [Seat -> SeatRecord]
  /\ attached \subseteq Seat \X Stream

\* A row is what its own call made of it, under a slug no other row has; the later versions are by
\* edits that have ended.
RowsAreOwn ==
  \A w \in Stream :
    /\ rows[w].slug # NoSlug => creates[w].pc = "done" /\ rows[w].versions # <<>>
    /\ rows[w].slug = NoSlug => rows[w].versions = <<>>
    /\ \A v \in Stream : rows[v].slug = rows[w].slug /\ rows[w].slug # NoSlug => v = w
    /\ \A n \in 2..Len(rows[w].versions) :
         rows[w].versions[n].by \in Revision /\ revises[rows[w].versions[n].by].pc = "done"

\* The calls: what each has read is in the row it writes, and what it reported is there.
CreatesHold ==
  \A w \in Stream :
    /\ creates[w].pc # "done" => creates[w].reported = NoSlug /\ creates[w].attempts < MaxSlugAttempts
    /\ creates[w].reported # NoSlug => rows[w].slug = creates[w].reported

RevisesHold ==
  \A e \in Revision :
    LET r == revises[e] IN
    /\ r.pc # "done" => r.reported = 0
    /\ r.pc = "writing" => r.of \in Stream /\ r.read \in 1..Len(rows[r.of].versions)
    /\ r.reported # 0 => /\ r.of \in Stream /\ r.reported \in 1..Len(rows[r.of].versions)
                         /\ rows[r.of].versions[r.reported].by = e

\* A thread with a brief has turns; a session that joins has none of the brief yet.
SeatsHold ==
  \A s \in Seat :
    /\ seats[s].briefs > 0 => seats[s].turns
    /\ seats[s].briefs <= 1
    /\ seats[s].pc \in {"exploring", "reading", "attaching"} => seats[s].briefs = 0
    /\ seats[s].pc = "attaching" => Found(seats[s].of) # {}
    /\ seats[s].told => \E w \in Stream : <<s, w>> \in attached

StreamInv == StreamTyped /\ RowsAreOwn /\ CreatesHold /\ RevisesHold /\ SeatsHold /\ NoEditUndone
-----------------------------------------------------------------------------
LEMMA StreamConstants ==
  /\ NoRow \in Row /\ NoRow.slug = NoSlug /\ NoRow.versions = <<>>
  /\ NoCreate \in CreateRecord /\ NoRevision \in ReviseRecord /\ NoSeat \in SeatRecord
BY DEF NoRow, Row, NoCreate, CreateRecord, NoRevision, ReviseRecord, NoSeat, SeatRecord

LEMMA StreamTypes ==
  ASSUME StreamInv
  PROVE  /\ rows \in [Stream -> Row] /\ creates \in [Stream -> CreateRecord]
         /\ revises \in [Revision -> ReviseRecord] /\ seats \in [Seat -> SeatRecord]
         /\ \A w \in Stream : /\ rows[w].slug \in Slug \cup {NoSlug} /\ rows[w].versions \in Seq(Version)
                              /\ rows[w].status \in {"none", "open", "closed"}
                              /\ Len(rows[w].versions) \in Nat
BY DEF StreamInv, StreamTyped, Row

\* A row is found by its slug, and no other is.
LEMMA FoundOne ==
  ASSUME StreamInv, NEW w \in Stream, rows[w].slug # NoSlug
  PROVE  Found(rows[w].slug) = {w}
BY DEF Found, StreamInv, RowsAreOwn

LEMMA InitStreamInv == WorkstreamInit => StreamInv
<1> SUFFICES ASSUME WorkstreamInit PROVE StreamInv
  OBVIOUS
<1>1. StreamTyped
  BY StreamConstants DEF WorkstreamInit, StreamTyped
<1>2. RowsAreOwn /\ NoEditUndone
  BY StreamConstants DEF WorkstreamInit, RowsAreOwn, NoEditUndone
<1>3. CreatesHold /\ RevisesHold /\ SeatsHold
  BY DEF WorkstreamInit, CreatesHold, RevisesHold, SeatsHold, NoCreate, NoRevision, NoSeat
<1> QED BY <1>1, <1>2, <1>3 DEF StreamInv

-----------------------------------------------------------------------------
\* A step of a session leaves the records alone.
LEMMA SeatMoves ==
  ASSUME StreamInv, NEW s \in Seat, NEW q \in SeatRecord, seats' = [seats EXCEPT ![s] = q],
         UNCHANGED <<rows, creates, revises>>,
         attached \subseteq attached' /\ attached' \subseteq Seat \X Stream,
         q.briefs > 0 => q.turns, q.briefs <= 1,
         q.pc \in {"exploring", "reading", "attaching"} => q.briefs = 0,
         q.pc = "attaching" => Found(q.of) # {},
         q.told => \E w \in Stream : <<s, w>> \in attached'
  PROVE  StreamInv'
<1>1. seats' \in [Seat -> SeatRecord] /\ seats'[s] = q /\ \A t \in Seat \ {s} : seats'[t] = seats[t]
  BY DEF StreamInv, StreamTyped
<1>2. StreamTyped'
  BY DEF StreamInv, StreamTyped
<1>3. RowsAreOwn' /\ CreatesHold' /\ RevisesHold' /\ NoEditUndone'
  BY DEF StreamInv, RowsAreOwn, CreatesHold, RevisesHold, NoEditUndone
<1>4. \A slug : Found(slug)' = Found(slug)
  BY DEF Found
<1>5. SeatsHold'
  <2> SUFFICES ASSUME NEW t \in Seat
               PROVE  /\ seats'[t].briefs > 0 => seats'[t].turns
                      /\ seats'[t].briefs <= 1
                      /\ seats'[t].pc \in {"exploring", "reading", "attaching"} => seats'[t].briefs = 0
                      /\ seats'[t].pc = "attaching" => Found(seats[t].of)' # {}
                      /\ seats'[t].told => \E w \in Stream : <<t, w>> \in attached'
    BY DEF SeatsHold
  <2>1. CASE t = s
    BY <1>1, <2>1 DEF Found
  <2>2. CASE t # s
    BY <1>1 DEF StreamInv, SeatsHold, Found
  <2> QED BY <2>1, <2>2
<1> QED BY <1>2, <1>3, <1>5 DEF StreamInv

LEMMA SeatStepKeeps ==
  ASSUME StreamInv, NEW s \in Seat,
         \/ \E slug \in Slug \cup {NoSlug} : Identify(s, slug)
         \/ StartSeat(s) \/ ReadDetail(s) \/ NoDetail(s) \/ Converse(s) \/ Leave(s)
         \/ \E reached, acked \in BOOLEAN : Attach(s, reached, acked)
  PROVE  StreamInv'
<1>1. PICK r \in SeatRecord : r = seats[s]
  BY StreamTypes
<1>2. /\ r.briefs > 0 => r.turns
      /\ r.briefs <= 1 /\ r.briefs \in Nat
      /\ r.pc \in {"exploring", "reading", "attaching"} => r.briefs = 0
      /\ r.pc = "attaching" => Found(r.of) # {}
      /\ r.told => \E w \in Stream : <<s, w>> \in attached
  BY <1>1 DEF StreamInv, SeatsHold, SeatRecord
<1>3. seats \in [Seat -> SeatRecord] /\ attached \subseteq Seat \X Stream
  BY DEF StreamInv, StreamTyped
<1>4. ASSUME NEW slug \in Slug \cup {NoSlug}, Identify(s, slug) PROVE StreamInv'
  <2>1. PICK q : q = [r EXCEPT !.pc = IF slug = NoSlug THEN "open" ELSE "reading", !.of = slug]
    OBVIOUS
  <2>2. q \in SeatRecord /\ q.pc \in {"open", "reading"} /\ q.briefs = r.briefs /\ q.turns = r.turns
        /\ q.told = r.told
    BY <2>1 DEF SeatRecord
  <2>3. seats' = [seats EXCEPT ![s] = q] /\ UNCHANGED <<rows, creates, revises, attached>>
        /\ r.pc = "exploring"
    BY <1>1, <1>4, <2>1 DEF Identify, At, seatRest
  <2> QED BY <1>2, <1>3, <2>2, <2>3, SeatMoves
<1>5. CASE StartSeat(s)
  <2>1. PICK q : q = [r EXCEPT !.pc = IF r.turns THEN "open" ELSE "exploring"]
    OBVIOUS
  <2>2. q \in SeatRecord /\ q.pc = (IF r.turns THEN "open" ELSE "exploring") /\ q.briefs = r.briefs
        /\ q.turns = r.turns /\ q.told = r.told
    BY <2>1 DEF SeatRecord
  <2>3. seats' = [seats EXCEPT ![s] = q] /\ UNCHANGED <<rows, creates, revises, attached>>
    BY <1>1, <1>5, <2>1 DEF StartSeat, seatRest
  <2>4. q.pc \in {"exploring", "reading", "attaching"} => q.briefs = 0
    BY <1>2, <2>2
  <2> QED BY <1>2, <1>3, <2>2, <2>3, <2>4, SeatMoves
<1>6. CASE ReadDetail(s)
  <2>1. PICK q : q = [r EXCEPT !.pc = "attaching"]
    OBVIOUS
  <2>2. q \in SeatRecord /\ q.of = r.of /\ q.briefs = r.briefs /\ q.turns = r.turns /\ q.told = r.told
    BY <2>1 DEF SeatRecord
  <2>3. seats' = [seats EXCEPT ![s] = q] /\ UNCHANGED <<rows, creates, revises, attached>>
        /\ r.pc = "reading" /\ Found(r.of) # {}
    BY <1>1, <1>6, <2>1 DEF ReadDetail, At, seatRest
  <2> QED BY <1>2, <1>3, <2>2, <2>3, SeatMoves
<1>7. CASE NoDetail(s)
  <2>1. PICK q : q = [r EXCEPT !.pc = "open"]
    OBVIOUS
  <2>2. q \in SeatRecord /\ q.pc = "open" /\ q.briefs = r.briefs /\ q.turns = r.turns /\ q.told = r.told
    BY <2>1 DEF SeatRecord
  <2>3. seats' = [seats EXCEPT ![s] = q] /\ UNCHANGED <<rows, creates, revises, attached>>
    BY <1>1, <1>7, <2>1 DEF NoDetail, seatRest
  <2> QED BY <1>2, <1>3, <2>2, <2>3, SeatMoves
<1>8. CASE Converse(s)
  <2>1. PICK q : q = [r EXCEPT !.turns = TRUE]
    OBVIOUS
  <2>2. q \in SeatRecord /\ q.pc = r.pc /\ q.of = r.of /\ q.briefs = r.briefs /\ q.turns /\ q.told = r.told
    BY <2>1 DEF SeatRecord
  <2>3. seats' = [seats EXCEPT ![s] = q] /\ UNCHANGED <<rows, creates, revises, attached>>
    BY <1>1, <1>8, <2>1 DEF Converse, seatRest
  <2> QED BY <1>2, <1>3, <2>2, <2>3, SeatMoves
<1>9. CASE Leave(s)
  <2>1. PICK q : q = [r EXCEPT !.pc = "off", !.of = NoSlug]
    OBVIOUS
  <2>2. q \in SeatRecord /\ q.pc = "off" /\ q.briefs = r.briefs /\ q.turns = r.turns /\ q.told = r.told
    BY <2>1 DEF SeatRecord
  <2>3. seats' = [seats EXCEPT ![s] = q] /\ UNCHANGED <<rows, creates, revises, attached>>
    BY <1>1, <1>9, <2>1 DEF Leave, seatRest
  <2> QED BY <1>2, <1>3, <2>2, <2>3, SeatMoves
<1>10. ASSUME NEW reached \in BOOLEAN, NEW acked \in BOOLEAN, Attach(s, reached, acked) PROVE StreamInv'
  <2>1. PICK q : q = [r EXCEPT !.pc = "open", !.turns = TRUE, !.briefs = r.briefs + 1, !.told = acked]
    OBVIOUS
  <2>2. /\ r.pc = "attaching" /\ (acked => reached) /\ Found(r.of) # {}
        /\ attached' = IF reached THEN attached \cup ({s} \X Found(r.of)) ELSE attached
        /\ seats' = [seats EXCEPT ![s] = q] /\ UNCHANGED <<rows, creates, revises>>
    BY <1>1, <1>2, <1>10, <2>1 DEF Attach, At, seatRest
  <2>7. r.briefs = 0
    BY <1>2, <2>2
  <2>3. q \in SeatRecord /\ q.pc = "open" /\ q.turns = TRUE /\ q.briefs = 1 /\ q.told = acked
    <3>1. q = [r EXCEPT !.pc = "open", !.turns = TRUE, !.briefs = 1, !.told = acked]
      BY <2>1, <2>7
    <3>2. q = [pc |-> "open", of |-> r.of, turns |-> TRUE, briefs |-> 1, told |-> acked]
      BY <3>1 DEF SeatRecord
    <3> QED BY <3>2 DEF SeatRecord
  <2>4. Found(r.of) \subseteq Stream
    BY DEF Found
  <2>5. attached \subseteq attached' /\ attached' \subseteq Seat \X Stream
    BY <1>3, <2>2, <2>4
  <2>6. acked => \E w \in Stream : <<s, w>> \in attached'
    BY <2>2, <2>4
  <2>8. q.told => \E w \in Stream : <<s, w>> \in attached'
    BY <2>3, <2>6
  <2>9. q.briefs <= 1 /\ q.turns /\ q.pc \notin {"exploring", "reading", "attaching"}
    BY <2>3
  <2> QED BY <2>2, <2>3, <2>5, <2>8, <2>9, SeatMoves
<1> QED BY <1>4, <1>5, <1>6, <1>7, <1>8, <1>9, <1>10

-----------------------------------------------------------------------------
\* create_workstream before its record is there, and after.
LEMMA CreateMoves ==
  ASSUME StreamInv, NEW w \in Stream, NEW q \in CreateRecord, creates[w].pc # "done",
         creates' = [creates EXCEPT ![w] = q], UNCHANGED <<rows, revises, seats, attached>>,
         q.reported = NoSlug, q.pc # "done" => q.attempts < MaxSlugAttempts
  PROVE  StreamInv'
<1>1. creates' \in [Stream -> CreateRecord] /\ creates'[w] = q /\ \A v \in Stream \ {w} : creates'[v] = creates[v]
  BY StreamTypes
<1>2. StreamTyped'
  BY DEF StreamInv, StreamTyped
<1>3. RowsAreOwn'
  BY DEF StreamInv, RowsAreOwn
<1>4. CreatesHold'
  BY DEF StreamInv, CreatesHold
<1>5. RevisesHold' /\ NoEditUndone'
  BY DEF StreamInv, RevisesHold, NoEditUndone
<1>6. SeatsHold'
  BY DEF StreamInv, SeatsHold, Found
<1> QED BY <1>2, <1>3, <1>4, <1>5, <1>6 DEF StreamInv

LEMMA CreateStepKeeps ==
  ASSUME StreamInv, NEW w \in Stream,
         CreateWorkstream(w) \/ CreateFails(w) \/ \E slug \in Slug : SlugConflict(w, slug)
  PROVE  StreamInv'
<1>1. PICK r \in CreateRecord : r = creates[w]
  BY StreamTypes
<1>2. r.pc # "done" => r.reported = NoSlug /\ r.attempts < MaxSlugAttempts
  BY <1>1 DEF StreamInv, CreatesHold
<1>3. CASE CreateWorkstream(w)
  <2>1. PICK q : q = [r EXCEPT !.pc = "asking"]
    OBVIOUS
  <2>2. q \in CreateRecord /\ q.reported = r.reported /\ q.attempts = r.attempts
    BY <2>1 DEF CreateRecord
  <2>3. r.pc = "idle" /\ creates' = [creates EXCEPT ![w] = q] /\ UNCHANGED <<rows, revises, seats, attached>>
    BY <1>1, <1>3, <2>1 DEF CreateWorkstream, toolRest
  <2> QED BY <1>1, <1>2, <2>2, <2>3, CreateMoves
<1>4. CASE CreateFails(w)
  <2>1. PICK q : q = [r EXCEPT !.pc = "done"]
    OBVIOUS
  <2>2. q \in CreateRecord /\ q.reported = r.reported /\ q.pc = "done"
    BY <2>1 DEF CreateRecord
  <2>3. r.pc = "asking" /\ creates' = [creates EXCEPT ![w] = q] /\ UNCHANGED <<rows, revises, seats, attached>>
    BY <1>1, <1>4, <2>1 DEF CreateFails, toolRest
  <2> QED BY <1>1, <1>2, <2>2, <2>3, CreateMoves
<1>5. ASSUME NEW slug \in Slug, SlugConflict(w, slug) PROVE StreamInv'
  <2>0. PICK spent : spent = r.attempts + 1
    OBVIOUS
  <2>1. PICK q : q = [r EXCEPT !.attempts = spent,
                               !.pc = IF spent = MaxSlugAttempts THEN "done" ELSE "asking"]
    OBVIOUS
  <2>2. r.pc = "asking" /\ creates' = [creates EXCEPT ![w] = q] /\ UNCHANGED <<rows, revises, seats, attached>>
    BY <1>1, <1>5, <2>0, <2>1 DEF SlugConflict, toolRest
  <2>3. spent \in 0..MaxSlugAttempts
    BY <1>2, <2>0, <2>2 DEF CreateRecord
  <2>4. q \in CreateRecord /\ q.reported = r.reported /\ q.attempts = spent
        /\ (q.pc # "done" => spent # MaxSlugAttempts)
    BY <2>1, <2>3 DEF CreateRecord
  <2>5. q.pc # "done" => q.attempts < MaxSlugAttempts
    BY <2>3, <2>4
  <2> QED BY <1>1, <1>2, <2>2, <2>4, <2>5, CreateMoves
<1> QED BY <1>3, <1>4, <1>5

LEMMA CreatedKeeps ==
  ASSUME StreamInv, NEW w \in Stream, NEW slug \in Slug, NEW acked \in BOOLEAN, Created(w, slug, acked)
  PROVE  StreamInv'
<1>1. PICK r \in CreateRecord : r = creates[w]
  BY StreamTypes
<1>2. PICK q : q = [r EXCEPT !.pc = "done", !.reported = IF acked THEN slug ELSE NoSlug]
  OBVIOUS
<1>3. q \in CreateRecord /\ q.pc = "done" /\ q.reported \in {slug, NoSlug}
  BY <1>2 DEF CreateRecord
<1>4. PICK v : v = [body |-> [f \in Field |-> w], by |-> w, from |-> 0]
  OBVIOUS
<1>5. PICK row : row = [slug |-> slug, status |-> "open", versions |-> <<v>>]
  OBVIOUS
<1>6. v \in Version
  BY <1>4 DEF Version, Body, Author
<1>7. row \in Row /\ row.slug = slug /\ row.versions # <<>> /\ Len(row.versions) = 1
  BY <1>5, <1>6 DEF Row
<1>8. /\ rows' = [rows EXCEPT ![w] = row] /\ creates' = [creates EXCEPT ![w] = q]
      /\ UNCHANGED <<revises, seats, attached>> /\ Found(slug) = {} /\ r.pc = "asking"
  BY <1>1, <1>2, <1>4, <1>5 DEF Created, Insert, toolRest
<1>9. rows[w].slug = NoSlug /\ rows[w].versions = <<>> /\ creates[w].reported = NoSlug
  BY <1>1, <1>8 DEF StreamInv, RowsAreOwn, CreatesHold
<1>10. /\ rows' \in [Stream -> Row] /\ rows'[w] = row /\ \A x \in Stream \ {w} : rows'[x] = rows[x]
       /\ creates' \in [Stream -> CreateRecord] /\ creates'[w] = q
       /\ \A x \in Stream \ {w} : creates'[x] = creates[x]
  BY <1>3, <1>7, <1>8, StreamTypes
<1>11. \A x \in Stream : rows[x].slug # slug
  BY <1>8 DEF Found
<1>12. StreamTyped'
  BY <1>8, <1>10 DEF StreamInv, StreamTyped
<1>13. RowsAreOwn'
  <2>1. ASSUME NEW x \in Stream
        PROVE  /\ rows'[x].slug # NoSlug => creates'[x].pc = "done" /\ rows'[x].versions # <<>>
               /\ rows'[x].slug = NoSlug => rows'[x].versions = <<>>
               /\ \A y \in Stream : rows'[y].slug = rows'[x].slug /\ rows'[x].slug # NoSlug => y = x
    BY <1>3, <1>7, <1>10, <1>11 DEF StreamInv, RowsAreOwn
  <2>2. ASSUME NEW x \in Stream, NEW n \in 2..Len(rows'[x].versions)
        PROVE  rows'[x].versions[n].by \in Revision /\ revises'[rows'[x].versions[n].by].pc = "done"
    <3>1. x # w
      <4>1. CASE x = w
        <5>1. Len(rows'[x].versions) = 1
          BY <1>7, <1>10, <4>1
        <5> QED BY <5>1
      <4> QED BY <4>1
    <3> QED BY <1>8, <3>1 DEF StreamInv, RowsAreOwn
  <2> QED BY <2>1, <2>2 DEF RowsAreOwn
<1>14. CreatesHold'
  BY <1>3, <1>7, <1>10 DEF StreamInv, CreatesHold
<1>15. RevisesHold'
  <2> SUFFICES ASSUME NEW e \in Revision, revises[e].reported # 0 \/ revises[e].pc = "writing"
               PROVE  revises[e].of \in Stream /\ rows'[revises[e].of] = rows[revises[e].of]
    BY <1>8 DEF StreamInv, RevisesHold
  <2>1. revises[e].of \in Stream /\ Len(rows[revises[e].of].versions) # 0
    BY DEF StreamInv, RevisesHold
  <2> QED BY <1>9, <1>10, <2>1
<1>16. SeatsHold'
  <2>1. \A name \in Slug \cup {NoSlug} : Found(name) # {} =>
          \E x \in Stream : name # NoSlug /\ rows'[x].slug = name
    BY <1>9, <1>10 DEF Found
  <2>2. \A s \in Seat : seats[s].of \in Slug \cup {NoSlug}
    BY StreamTypes DEF SeatRecord
  <2> QED BY <1>8, <2>1, <2>2 DEF StreamInv, SeatsHold, Found
<1>17. NoEditUndone'
  <2>1. ASSUME NEW x \in Stream, NEW n \in 2..Len(rows'[x].versions) PROVE rows'[x] = rows[x]
    <3>1. CASE x = w
      <4>1. Len(rows'[x].versions) = 1
        BY <1>7, <1>10, <3>1
      <4> QED BY <4>1
    <3> QED BY <1>10, <3>1
  <2> QED BY <1>8, <2>1 DEF StreamInv, NoEditUndone
<1> QED BY <1>12, <1>13, <1>14, <1>15, <1>16, <1>17 DEF StreamInv

-----------------------------------------------------------------------------
\* A step of an edit that writes nothing.
LEMMA ReviseMoves ==
  ASSUME StreamInv, NEW e \in Revision, NEW q \in ReviseRecord, revises[e].pc # "done",
         revises' = [revises EXCEPT ![e] = q], UNCHANGED <<rows, creates, seats, attached>>,
         q.reported = 0, q.pc = "writing" => q.of \in Stream /\ q.read \in 1..Len(rows[q.of].versions)
  PROVE  StreamInv'
<1>1. revises' \in [Revision -> ReviseRecord] /\ revises'[e] = q
      /\ \A d \in Revision \ {e} : revises'[d] = revises[d]
  BY StreamTypes
<1>2. \A w \in Stream : \A n \in 2..Len(rows[w].versions) :
        rows[w].versions[n].by \in Revision \ {e} /\ revises[rows[w].versions[n].by].pc = "done"
  BY DEF StreamInv, RowsAreOwn
<1>3. StreamTyped'
  BY DEF StreamInv, StreamTyped
<1>4. RowsAreOwn'
  BY DEF StreamInv, RowsAreOwn
<1>5. RevisesHold'
  BY DEF StreamInv, RevisesHold
<1>6. CreatesHold' /\ SeatsHold'
  BY DEF StreamInv, CreatesHold, SeatsHold, Found
<1>7. NoEditUndone'
  <2> SUFFICES ASSUME NEW x \in Stream, NEW m \in 2..Len(rows'[x].versions),
                      rows'[x].versions[m].from = m - 1,
                      NEW f \in Field \ revises'[rows'[x].versions[m].by].named
               PROVE  rows'[x].versions[m].body[f] = rows'[x].versions[m - 1].body[f]
    BY DEF NoEditUndone
  <2>1. rows' = rows /\ revises'[rows[x].versions[m].by] = revises[rows[x].versions[m].by]
    BY <1>2
  <2>2. /\ m \in 2..Len(rows[x].versions) /\ rows[x].versions[m].from = m - 1
        /\ f \in Field \ revises[rows[x].versions[m].by].named
    BY <2>1
  <2>3. rows[x].versions[m].body[f] = rows[x].versions[m - 1].body[f]
    BY <2>2 DEF StreamInv, NoEditUndone
  <2> QED BY <2>1, <2>3
<1> QED BY <1>3, <1>4, <1>5, <1>6, <1>7 DEF StreamInv

LEMMA ReviseStepKeeps ==
  ASSUME StreamInv, NEW e \in Revision,
         ReviseFails(e) \/ \E w \in Stream, named \in SUBSET Field : ResolveDetail(e, w, named)
  PROVE  StreamInv'
<1>1. PICK r \in ReviseRecord : r = revises[e]
  BY StreamTypes
<1>2. CASE ReviseFails(e)
  <2>1. PICK q : q = [r EXCEPT !.pc = "done"]
    OBVIOUS
  <2>2. q \in ReviseRecord /\ q.pc = "done" /\ q.reported = r.reported
    BY <2>1 DEF ReviseRecord
  <2>3. r.pc = "writing" /\ revises' = [revises EXCEPT ![e] = q] /\ UNCHANGED <<rows, creates, seats, attached>>
    BY <1>1, <1>2, <2>1 DEF ReviseFails, editRest
  <2>4. r.reported = 0
    BY <1>1, <2>3 DEF StreamInv, RevisesHold
  <2> QED BY <1>1, <2>2, <2>3, <2>4, ReviseMoves
<1>3. ASSUME NEW w \in Stream, NEW named \in SUBSET Field, ResolveDetail(e, w, named) PROVE StreamInv'
  <2>1. PICK q : q = [pc |-> "writing", of |-> w, named |-> named, read |-> Len(rows[w].versions), reported |-> 0]
    OBVIOUS
  <2>2. rows[w].versions # <<>> /\ rows[w].versions \in Seq(Version) /\ Len(rows[w].versions) \in Nat
    BY <1>3, StreamTypes DEF ResolveDetail, StreamInv, RowsAreOwn
  <2>3. Len(rows[w].versions) \in 1..Len(rows[w].versions)
    BY <2>2
  <2>4. q \in ReviseRecord /\ q.of = w /\ q.read = Len(rows[w].versions) /\ q.reported = 0
    BY <2>1 DEF ReviseRecord
  <2>5. r.pc = "idle" /\ revises' = [revises EXCEPT ![e] = q] /\ UNCHANGED <<rows, creates, seats, attached>>
    BY <1>1, <1>3, <2>1 DEF ResolveDetail, editRest
  <2> QED BY <1>1, <2>3, <2>4, <2>5, ReviseMoves
<1> QED BY <1>2, <1>3

\* What an edit that read version m sends: what it names is its own, the rest is m's.
LEMMA CarriedForward ==
  ASSUME StreamInv, NEW e \in Revision, revises[e].pc = "writing"
  PROVE  /\ CarryForward(e) \in Body
         /\ \A f \in Field \ revises[e].named :
              CarryForward(e)[f] = rows[revises[e].of].versions[revises[e].read].body[f]
<1>1. revises[e].of \in Stream /\ revises[e].read \in 1..Len(rows[revises[e].of].versions)
  BY DEF StreamInv, RevisesHold
<1>2. rows[revises[e].of].versions[revises[e].read] \in Version
  BY <1>1, StreamTypes
<1>3. rows[revises[e].of].versions[revises[e].read].body \in Body
  BY <1>2 DEF Version
<1> QED BY <1>3 DEF CarryForward, Body

LEMMA RevisedKeeps ==
  ASSUME StreamInv, NEW e \in Revision, NEW acked \in BOOLEAN, Revised(e, acked)
  PROVE  StreamInv'
<1>1. PICK r \in ReviseRecord : r = revises[e]
  BY StreamTypes
<1>2. PICK w \in Stream : w = r.of
  BY <1>1 DEF StreamInv, RevisesHold, Revised
<1>3. PICK old \in Row : old = rows[w]
  BY StreamTypes
<1>4. PICK v : v = [body |-> CarryForward(e), by |-> e, from |-> r.read]
  OBVIOUS
<1>5. PICK n \in Nat : n = Len(old.versions)
  BY DEF Row
<1>6. PICK q : q = [r EXCEPT !.pc = "done", !.reported = IF acked THEN n + 1 ELSE 0]
  OBVIOUS
<1>7. PICK row : row = [old EXCEPT !.versions = Append(old.versions, v)]
  OBVIOUS
<1>8. /\ r.pc = "writing" /\ rows' = [rows EXCEPT ![w] = row] /\ revises' = [revises EXCEPT ![e] = q]
      /\ UNCHANGED <<creates, seats, attached>>
  <2>1. rows' = [rows EXCEPT ![w].versions = Append(rows[w].versions, v)]
    BY <1>1, <1>2, <1>4 DEF Revised, AppendVersion
  <2>2. [rows EXCEPT ![w].versions = Append(rows[w].versions, v)] = [rows EXCEPT ![w] = row]
    BY <1>3, <1>7
  <2> QED BY <1>1, <1>2, <1>3, <1>5, <1>6, <2>1, <2>2 DEF Revised, editRest
<1>9. v \in Version /\ r.read \in 1..n
  <2>1. r.read \in 1..Len(rows[r.of].versions)
    BY <1>1, <1>8 DEF StreamInv, RevisesHold
  <2>2. CarryForward(e) \in Body
    BY <1>1, <1>8, CarriedForward
  <2> QED BY <1>2, <1>3, <1>4, <1>5, <2>1, <2>2 DEF Version, Author
<1>10. /\ old.versions \in Seq(Version) /\ row.versions \in Seq(Version) /\ Len(row.versions) = n + 1
       /\ row.versions[n + 1] = v /\ \A m \in 1..n : row.versions[m] = old.versions[m]
       /\ row \in Row /\ row.slug = old.slug
  <2>1. old.versions \in Seq(Version)
    BY DEF Row
  <2>2. row.versions = Append(old.versions, v) /\ row.slug = old.slug /\ row.status = old.status
    BY <1>7
  <2>3. Append(old.versions, v) \in Seq(Version)
    BY <1>9, <2>1
  <2>4. row \in Row
    BY <1>7, <2>3 DEF Row
  <2> QED BY <1>5, <2>2, <2>3, <2>4
<1>11. q \in ReviseRecord /\ q.pc = "done" /\ q.of = w /\ q.named = r.named /\ q.reported \in {0, n + 1}
  <2>1. PICK k \in Nat : k = (IF acked THEN n + 1 ELSE 0) /\ k \in {0, n + 1}
    OBVIOUS
  <2>2. q = [r EXCEPT !.pc = "done", !.reported = k]
    BY <1>6, <2>1
  <2> QED BY <1>2, <2>1, <2>2 DEF ReviseRecord
<1>12. /\ rows' \in [Stream -> Row] /\ rows'[w] = row /\ \A x \in Stream \ {w} : rows'[x] = rows[x]
       /\ revises' \in [Revision -> ReviseRecord] /\ revises'[e] = q
       /\ \A d \in Revision \ {e} : revises'[d] = revises[d]
  BY <1>8, <1>10, <1>11, StreamTypes
<1>13. n > 0 /\ old.slug # NoSlug /\ row.versions # <<>>
  BY <1>3, <1>5, <1>9, <1>10 DEF StreamInv, RowsAreOwn
<1>14. \A x \in Stream : rows'[x].slug = rows[x].slug
  BY <1>3, <1>10, <1>12
<1>15. \A x \in Stream : \A m \in 2..Len(rows[x].versions) :
         /\ rows[x].versions[m].by \in Revision /\ revises[rows[x].versions[m].by].pc = "done"
         /\ rows[x].versions[m].by # e
  BY <1>1, <1>8 DEF StreamInv, RowsAreOwn
<1>16. StreamTyped'
  BY <1>8, <1>12 DEF StreamInv, StreamTyped
<1>17. RowsAreOwn'
  <2>1. ASSUME NEW x \in Stream
        PROVE  /\ rows'[x].slug # NoSlug => creates'[x].pc = "done" /\ rows'[x].versions # <<>>
               /\ rows'[x].slug = NoSlug => rows'[x].versions = <<>>
               /\ \A y \in Stream : rows'[y].slug = rows'[x].slug /\ rows'[x].slug # NoSlug => y = x
    BY <1>3, <1>8, <1>13, <1>14 DEF StreamInv, RowsAreOwn
  <2>2. ASSUME NEW x \in Stream, NEW m \in 2..Len(rows'[x].versions)
        PROVE  rows'[x].versions[m].by \in Revision /\ revises'[rows'[x].versions[m].by].pc = "done"
    <3>1. CASE x # w
      BY <1>12, <1>15, <3>1
    <3>2. CASE x = w /\ m \in 1..n
      <4>1. m \in 2..Len(rows[w].versions) /\ rows'[w].versions[m] = rows[w].versions[m]
        BY <1>3, <1>5, <1>10, <1>12, <3>2
      <4> QED BY <1>12, <1>15, <4>1
    <3>3. CASE x = w /\ m = n + 1
      BY <1>4, <1>10, <1>11, <1>12, <3>3
    <3> QED BY <1>10, <1>12, <3>1, <3>2, <3>3
  <2> QED BY <2>1, <2>2 DEF RowsAreOwn
<1>18. CreatesHold'
  BY <1>8, <1>14 DEF StreamInv, CreatesHold
<1>19. RevisesHold'
  <2> SUFFICES ASSUME NEW d \in Revision
               PROVE  LET c == revises'[d] IN
                      /\ c.pc # "done" => c.reported = 0
                      /\ c.pc = "writing" => c.of \in Stream /\ c.read \in 1..Len(rows'[c.of].versions)
                      /\ c.reported # 0 => /\ c.of \in Stream /\ c.reported \in 1..Len(rows'[c.of].versions)
                                           /\ rows'[c.of].versions[c.reported].by = d
    BY DEF RevisesHold
  <2>1. CASE d = e
    BY <1>4, <1>10, <1>11, <1>12, <2>1
  <2>2. CASE d # e
    <3>1. PICK c \in ReviseRecord : c = revises[d]
      BY StreamTypes
    <3>2. /\ c.pc # "done" => c.reported = 0
          /\ c.pc = "writing" => c.of \in Stream /\ c.read \in 1..Len(rows[c.of].versions)
          /\ c.reported # 0 => /\ c.of \in Stream /\ c.reported \in 1..Len(rows[c.of].versions)
                               /\ rows[c.of].versions[c.reported].by = d
      BY <3>1 DEF StreamInv, RevisesHold
    <3>3. \A x \in Stream : \A m \in 1..Len(rows[x].versions) :
            m \in 1..Len(rows'[x].versions) /\ rows'[x].versions[m] = rows[x].versions[m]
      BY <1>3, <1>5, <1>10, <1>12
    <3> QED BY <1>12, <2>2, <3>1, <3>2, <3>3
  <2> QED BY <2>1, <2>2
<1>20. SeatsHold'
  BY <1>8, <1>14 DEF StreamInv, SeatsHold, Found
<1>21. NoEditUndone'
  <2> SUFFICES ASSUME NEW x \in Stream, NEW m \in 2..Len(rows'[x].versions),
                      rows'[x].versions[m].from = m - 1,
                      NEW f \in Field \ revises'[rows'[x].versions[m].by].named
               PROVE  rows'[x].versions[m].body[f] = rows'[x].versions[m - 1].body[f]
    BY DEF NoEditUndone
  <2>1. CASE x # w
    <3>1. rows'[x] = rows[x] /\ revises'[rows[x].versions[m].by] = revises[rows[x].versions[m].by]
      BY <1>12, <1>15, <2>1
    <3> QED BY <3>1 DEF StreamInv, NoEditUndone
  <2>2. CASE x = w /\ m \in 1..n
    <3>0. m \in 2..n /\ m - 1 \in 1..n
      BY <2>2
    <3>1. m \in 2..Len(rows[w].versions) /\ rows'[w].versions[m] = rows[w].versions[m]
          /\ rows'[w].versions[m - 1] = rows[w].versions[m - 1]
      <4>1. m \in 2..Len(rows[w].versions)
        BY <1>3, <1>5, <3>0
      <4>2. \A k \in 1..n : rows'[w].versions[k] = rows[w].versions[k]
        BY <1>3, <1>10, <1>12
      <4>3. m \in 1..n
        BY <2>2
      <4> QED BY <3>0, <4>1, <4>2, <4>3
    <3>2. revises'[rows[w].versions[m].by] = revises[rows[w].versions[m].by]
      BY <1>12, <1>15, <3>1
    <3> QED BY <2>2, <3>1, <3>2 DEF StreamInv, NoEditUndone
  <2>3. CASE x = w /\ m = n + 1
    <3>1. rows'[x].versions[m] = v /\ rows'[x].versions[m - 1] = old.versions[n]
      BY <1>10, <1>12, <2>3
    <3>2. r.read = n /\ f \in Field \ r.named
      BY <1>4, <1>11, <1>12, <2>3, <3>1
    <3>3. v.body[f] = old.versions[n].body[f]
      BY <1>1, <1>2, <1>3, <1>4, <1>8, <3>2, CarriedForward
    <3> QED BY <3>1, <3>3
  <2> QED BY <1>10, <1>12, <2>1, <2>2, <2>3
<1> QED BY <1>16, <1>17, <1>18, <1>19, <1>20, <1>21 DEF StreamInv

LEMMA SetStatusKeeps ==
  ASSUME StreamInv, NEW w \in Stream, NEW status \in {"open", "closed"}, SetStatus(w, status)
  PROVE  StreamInv'
<1>1. PICK old \in Row : old = rows[w]
  BY StreamTypes
<1>2. PICK row : row = [old EXCEPT !.status = status]
  OBVIOUS
<1>3. row \in Row /\ row.slug = old.slug /\ row.versions = old.versions
  BY <1>2 DEF Row
<1>4. rows' = [rows EXCEPT ![w] = row] /\ UNCHANGED <<creates, revises, seats, attached>>
  BY <1>1, <1>2 DEF SetStatus, toolRest
<1>5. rows' \in [Stream -> Row]
      /\ \A x \in Stream : rows'[x].slug = rows[x].slug /\ rows'[x].versions = rows[x].versions
  BY <1>1, <1>3, <1>4, StreamTypes
<1>6. StreamTyped'
  BY <1>4, <1>5 DEF StreamInv, StreamTyped
<1>7. RowsAreOwn'
  BY <1>4, <1>5 DEF StreamInv, RowsAreOwn
<1>8. CreatesHold' /\ RevisesHold' /\ SeatsHold'
  BY <1>4, <1>5 DEF StreamInv, CreatesHold, RevisesHold, SeatsHold, Found
<1>9. NoEditUndone'
  BY <1>4, <1>5 DEF StreamInv, NoEditUndone
<1> QED BY <1>6, <1>7, <1>8, <1>9 DEF StreamInv

LEMMA StreamInvInductive == StreamInv /\ [WorkstreamNext]_streamVars => StreamInv'
<1> SUFFICES ASSUME StreamInv, [WorkstreamNext]_streamVars PROVE StreamInv'
  OBVIOUS
<1>1. CASE UNCHANGED streamVars
  <2>1. StreamTyped' /\ RowsAreOwn' /\ CreatesHold' /\ RevisesHold'
    BY <1>1 DEF streamVars, StreamInv, StreamTyped, RowsAreOwn, CreatesHold, RevisesHold
  <2>2. SeatsHold'
    BY <1>1 DEF streamVars, StreamInv, SeatsHold, Found
  <2>3. NoEditUndone'
    BY <1>1 DEF streamVars, StreamInv, NoEditUndone
  <2> QED BY <2>1, <2>2, <2>3 DEF StreamInv
<1>2. CASE WorkstreamNext
  BY <1>2, SeatStepKeeps, CreateStepKeeps, CreatedKeeps, ReviseStepKeeps, RevisedKeeps,
     SetStatusKeeps DEF WorkstreamNext
<1> QED BY <1>1, <1>2

LEMMA StreamInvAlways == WorkstreamSpec => []StreamInv
BY InitStreamInv, StreamInvInductive, PTL DEF WorkstreamSpec

\* Rows, versions, calls and sessions are well typed, for any number of each.
THEOREM WorkstreamTypeCorrect == WorkstreamSpec => []WorkstreamTypeOK
<1>1. ASSUME StreamInv PROVE WorkstreamTypeOK
  <2>1. ASSUME NEW w \in Stream, NEW n \in DOMAIN rows[w].versions PROVE rows[w].versions[n].body \in Body
    <3>1. rows[w].versions[n] \in Version
      BY StreamTypes, <1>1
    <3> QED BY <3>1 DEF Version
  <2>2. \A w \in Stream : rows[w].slug \in Slug \cup {NoSlug} /\ rows[w].status \in {"none", "open", "closed"}
    BY StreamTypes, <1>1
  <2> QED
    BY <1>1, <2>1, StreamTypes DEF WorkstreamTypeOK, StreamInv, StreamTyped, CreateRecord,
       ReviseRecord, SeatRecord
<1> QED BY <1>1, StreamInvAlways, PTL

\* However creates, edits and sessions overlap, and acknowledgements are lost: a version undoes
\* nothing but what its edit overlapped with, what was reported holds, and a thread has one brief.
THEOREM WorkstreamsAlwaysHold == WorkstreamSpec => []WorkstreamsHold
<1>1. ASSUME StreamInv PROVE WorkstreamsHold
  <2>1. ASSUME NEW w \in Stream, creates[w].reported # NoSlug PROVE Found(creates[w].reported) = {w}
    BY <1>1, <2>1, FoundOne DEF StreamInv, CreatesHold
  <2> QED
    BY <1>1, <2>1 DEF StreamInv, RevisesHold, SeatsHold, WorkstreamsHold, ReportsHold,
       BriefGivenOnce
<1> QED BY <1>1, StreamInvAlways, PTL

HIDE WorkstreamAssumption

-----------------------------------------------------------------------------
\* The page of the dashboard.
USE DashboardAssumption

FilterRecord == [repo : Root \cup {"all"}, status : {"all", "running", "completed"}]
Cache == [Root -> {"none", "loading", "refreshing", "ready", "error"}]

\* A snapshot as the hub answers it: only a dispatcher has an agent.
IsSnapshot(shot) ==
  /\ shot.there \in BOOLEAN /\ shot.limit \in Limit /\ Roots(shot) \subseteq Root
  /\ \A r \in Roots(shot) : shot.agents[r] \in AgentStatus /\ (r \notin Dispatcher => shot.agents[r] = "no agent")

\* What is selected is shown under the filters.
Shown(shot, f, sel) ==
  /\ sel.root \in VisibleRoots(shot, f) \/ (sel = NoSelection /\ VisibleRoots(shot, f) = {})
  /\ sel.agent => HasAgent(shot, sel.root)

\* Whatever the cache shows as loading has a request under way.
Served(cache, requests) ==
  \A r \in Root : cache[r] \in {"loading", "refreshing"} => \E f \in requests : f.root = r

PageTyped ==
  /\ IsSnapshot(snapshot) /\ requested \in [1..MaxRefresh -> 0..2]
  /\ selection \in Route /\ location \in [route : Route, event : BOOLEAN]
  /\ filters \in FilterRecord /\ more \in [limit : Limit, loading : BOOLEAN] /\ messages \in Cache
  /\ poll \in [generation : 1..MaxRefresh, timer : BOOLEAN, hidden : BOOLEAN]
  /\ \A f \in fetches : f.root \in Root

PageInv == PageTyped /\ PageKeepsGoing

-----------------------------------------------------------------------------
LEMMA RouteFields ==
  ASSUME NEW sel \in Route
  PROVE  /\ sel.root \in Root \cup {Nowhere} /\ sel.agent \in BOOLEAN
         /\ sel.agent => sel.root \in Dispatcher
         /\ sel = [root |-> sel.root, agent |-> sel.agent]
         /\ sel.root = Nowhere => sel = NoSelection
<1>1. CASE sel \in [root : Root, agent : {FALSE}]
  BY <1>1
<1>2. CASE sel \in [root : Dispatcher, agent : {TRUE}]
  BY <1>2
<1>3. CASE sel = NoSelection
  BY <1>3 DEF NoSelection
<1> QED BY <1>1, <1>2, <1>3 DEF Route

LEMMA RouteConstants ==
  /\ NoSelection \in Route /\ NoSelection.root = Nowhere /\ NoSelection.agent = FALSE
  /\ \A r \in Root : [root |-> r, agent |-> FALSE] \in Route
  /\ \A r \in Dispatcher : [root |-> r, agent |-> TRUE] \in Route
BY DEF Route, NoSelection

\* A request that is out asks for one page or for two.
LEMMA AskedLimit ==
  \A n \in 0..2 : n # 0 => n \in Limit
BY DEF Limit

LEMMA AgentOfDispatcher ==
  ASSUME NEW shot, IsSnapshot(shot), NEW r, HasAgent(shot, r) PROVE r \in Dispatcher /\ r \in Root
BY DEF IsSnapshot, HasAgent

LEMMA FiltersReconciled ==
  ASSUME NEW shot, IsSnapshot(shot), NEW f \in FilterRecord
  PROVE  ReconcileFilters(shot, f) \in FilterRecord
BY DEF ReconcileFilters, FilterRecord

\* Where a selection falls to is a route, and is shown.
LEMMA ReconciledIsShown ==
  ASSUME NEW shot, IsSnapshot(shot), NEW f, NEW sel \in Route, NEW s \in Reconciled(shot, f, sel)
  PROVE  s \in Route /\ Shown(shot, f, s)
<1>1. VisibleRoots(shot, f) \subseteq Root
  BY DEF VisibleRoots, IsSnapshot
<1>2. CASE sel.root \in VisibleRoots(shot, f)
  <2> DEFINE c == sel.agent /\ HasAgent(shot, sel.root)
  <2>1. s = [sel EXCEPT !.agent = c]
    BY <1>2 DEF Reconciled
  <2>2. c \in BOOLEAN /\ (c => HasAgent(shot, sel.root)) /\ (c => sel.root \in Dispatcher)
    BY SMT, RouteFields
  <2> HIDE DEF c
  <2>3. s = [root |-> sel.root, agent |-> c]
    BY <2>1, RouteFields
  <2>4. sel.root \in Root
    BY <1>1, <1>2
  <2>5. s \in Route
    BY <2>2, <2>3, <2>4, RouteConstants
  <2>6. s.root = sel.root /\ (s.agent => HasAgent(shot, s.root))
    BY <2>2, <2>3
  <2> QED BY <1>2, <2>5, <2>6 DEF Shown
<1>3. CASE sel.root \notin VisibleRoots(shot, f) /\ VisibleRoots(shot, f) = {}
  <2>1. s = NoSelection
    BY <1>3 DEF Reconciled
  <2> QED BY <1>3, <2>1, RouteConstants DEF Shown
<1>4. CASE sel.root \notin VisibleRoots(shot, f) /\ VisibleRoots(shot, f) # {}
  <2>1. PICK r \in VisibleRoots(shot, f) : s = [root |-> r, agent |-> FALSE]
    BY <1>4 DEF Reconciled
  <2>2. s \in Route /\ s.root = r /\ s.agent = FALSE
    BY <1>1, <2>1, RouteConstants
  <2> QED BY <2>2 DEF Shown
<1> QED BY <1>2, <1>3, <1>4

\* After a handler has settled, selection and location agree, but for an edit to come.
LEMMA SettledAgrees ==
  ASSUME PageTyped, NEW shot, IsSnapshot(shot), NEW f, NEW sel \in Route, Settle(shot, f, sel)
  PROVE  /\ selection' \in Route /\ Shown(shot, f, selection')
         /\ location' \in [route : Route, event : BOOLEAN]
         /\ selection'.root = Nowhere \/ location'.event \/ location'.route = selection'
<1>1. selection' \in Route /\ Shown(shot, f, selection')
  BY ReconciledIsShown DEF Settle
<1>2. PICK s \in Route : s = selection'
  BY <1>1
<1>3. location' = IF s.root = Nowhere \/ location.route = s THEN location
                  ELSE [location EXCEPT !.route = s]
  BY <1>2 DEF Settle, SyncRoute
<1>4. location \in [route : Route, event : BOOLEAN]
  BY DEF PageTyped
<1> QED BY <1>1, <1>2, <1>3, <1>4

\* A request is sent with its mark in the cache, or nothing is.
LEMMA LoadServes ==
  ASSUME NEW r \in Root, NEW force, NEW cache \in Cache, LoadMessages(r, force, cache),
         Served(cache, fetches), \A f \in fetches : f.root \in Root
  PROVE  messages' \in Cache /\ Served(messages', fetches') /\ \A f \in fetches' : f.root \in Root
<1>1. CASE messages' = cache /\ fetches' = fetches
  BY <1>1
<1>2. CASE ~(messages' = cache /\ fetches' = fetches)
  <2>1. PICK k \in {"loading", "refreshing"} : messages' = [cache EXCEPT ![r] = k]
    BY <1>2 DEF LoadMessages
  <2>2. PICK id, kept : fetches' = fetches \cup {[id |-> id, root |-> r, kept |-> kept]}
    BY <1>2 DEF LoadMessages
  <2>3. PICK g : g = [id |-> id, root |-> r, kept |-> kept]
    OBVIOUS
  <2>4. g.root = r /\ fetches' = fetches \cup {g}
    BY <2>2, <2>3
  <2>5. messages' \in Cache /\ \A q \in Root \ {r} : messages'[q] = cache[q]
    BY <2>1 DEF Cache
  <2> QED BY <2>4, <2>5 DEF Served
<1> QED BY <1>2

LEMMA LoadSelectedServes ==
  ASSUME NEW shot, IsSnapshot(shot), NEW sel, NEW force, NEW cache \in Cache,
         LoadSelectedMessages(shot, sel, force, cache),
         Served(cache, fetches), \A f \in fetches : f.root \in Root
  PROVE  messages' \in Cache /\ Served(messages', fetches') /\ \A f \in fetches' : f.root \in Root
<1>1. CASE messages' = cache /\ fetches' = fetches
  BY <1>1
<1>2. CASE ~(messages' = cache /\ fetches' = fetches)
  <2>1. HasAgent(shot, sel.root)
        /\ LoadMessages(sel.root, force /\ shot.agents[sel.root] = "running", cache)
    BY <1>2 DEF LoadSelectedMessages
  <2>2. sel.root \in Root
    BY <2>1, AgentOfDispatcher
  <2> QED BY <2>1, <2>2, LoadServes
<1> QED BY <1>2

\* A request that ends leaves no mark of its own.
LEMMA FetchEnds ==
  ASSUME PageInv, NEW f \in fetches, FetchDone(f) \/ FetchFails(f) PROVE PageInv'
<1>1. PICK k \in {"ready", "error"} : messages' = [messages EXCEPT ![f.root] = k]
  BY DEF FetchDone, FetchFails
<1>2. /\ fetches' = fetches \ {f} /\ f.root \in Root
      /\ UNCHANGED <<snapshot, selection, filters, more, location, poll, requested>>
  BY DEF FetchDone, FetchFails, PageInv, PageTyped
<1>3. messages \in Cache /\ Served(messages, fetches)
  BY DEF PageInv, PageTyped, PageKeepsGoing, SpinnersEnd, Served
<1>4. messages' \in Cache /\ messages'[f.root] = k /\ \A r \in Root \ {f.root} : messages'[r] = messages[r]
  BY <1>1, <1>2, <1>3 DEF Cache
<1>5. Served(messages', fetches')
  BY <1>2, <1>3, <1>4 DEF Served
<1>6. PageTyped'
  BY <1>2, <1>4 DEF PageInv, PageTyped
<1>7. PageKeepsGoing'
  BY <1>2, <1>5 DEF PageInv, PageKeepsGoing, PollingGoesOn, SpinnersEnd, SelectionIsShown, Served,
     VisibleRoots, RootMatches, AgentMatches
<1> QED BY <1>6, <1>7 DEF PageInv

-----------------------------------------------------------------------------
LEMMA InitPageInv == DashboardInit => PageInv
<1> SUFFICES ASSUME DashboardInit PROVE PageInv
  OBVIOUS
<1>1. IsSnapshot(snapshot) /\ snapshot.there = FALSE
  BY DEF DashboardInit, NoSnapshot, IsSnapshot, Roots, Limit
<1>2. PageTyped
  BY <1>1 DEF DashboardInit, PageTyped, EmptyFilters, FilterRecord, Cache, Limit
<1>3. PageKeepsGoing
  BY <1>1 DEF DashboardInit, PageKeepsGoing, PollingGoesOn, SpinnersEnd, SelectionIsShown
<1> QED BY <1>2, <1>3 DEF PageInv

\* A request for a snapshot: nothing that is shown changes.
LEMMA RefreshKeeps ==
  ASSUME PageInv, NEW limit \in Limit, Refresh(limit), more' \in [limit : Limit, loading : BOOLEAN],
         UNCHANGED <<snapshot, selection, filters, messages, location, fetches>>
  PROVE  PageInv'
<1>1. PICK g \in 1..MaxRefresh : g = poll.generation + 1
  BY DEF Refresh, PageInv, PageTyped
<1>2. /\ poll' = [generation |-> g, timer |-> FALSE, hidden |-> FALSE]
      /\ requested' = [requested EXCEPT ![g] = limit] /\ requested \in [1..MaxRefresh -> 0..2]
  BY <1>1 DEF Refresh, PageInv, PageTyped
<1>3. limit \in 1..2 /\ requested' \in [1..MaxRefresh -> 0..2] /\ requested'[poll'.generation] = limit
  BY <1>2 DEF Limit
<1>4. PageTyped'
  BY <1>2, <1>3 DEF PageInv, PageTyped
<1>5. SelectionIsShown'
  BY DEF PageInv, PageKeepsGoing, SelectionIsShown, VisibleRoots, RootMatches, AgentMatches
<1>6. PollingGoesOn' /\ SpinnersEnd'
  BY <1>3 DEF PageInv, PageKeepsGoing, PollingGoesOn, SpinnersEnd
<1> QED BY <1>4, <1>5, <1>6 DEF PageInv, PageKeepsGoing

\* An answer to the request of this generation, good or bad: the next refresh is scheduled.
LEMMA AnswerKeeps ==
  ASSUME PageInv, NEW g \in 1..MaxRefresh, g = poll.generation, Answered(g), SchedulePoll,
         IsSnapshot(snapshot'), filters' \in FilterRecord,
         more' \in [limit : Limit, loading : BOOLEAN], more'.loading = FALSE,
         selection' \in Route, location' \in [route : Route, event : BOOLEAN],
         messages' \in Cache, Served(messages', fetches'), \A f \in fetches' : f.root \in Root,
         SelectionIsShown'
  PROVE  PageInv'
<1>1. /\ poll \in [generation : 1..MaxRefresh, timer : BOOLEAN, hidden : BOOLEAN]
      /\ requested \in [1..MaxRefresh -> 0..2]
  BY DEF PageInv, PageTyped
<1>2. poll' = [poll EXCEPT !.timer = ~poll.hidden] /\ requested' = [requested EXCEPT ![g] = 0]
  BY DEF SchedulePoll, Answered
<1>3. /\ poll' \in [generation : 1..MaxRefresh, timer : BOOLEAN, hidden : BOOLEAN]
      /\ ~poll'.hidden => poll'.timer
  BY <1>1, <1>2
<1>4. requested' \in [1..MaxRefresh -> 0..2]
  BY <1>1, <1>2
<1>5. PageTyped'
  BY <1>3, <1>4 DEF PageTyped
<1>6. PollingGoesOn' /\ SpinnersEnd'
  BY <1>3 DEF PollingGoesOn, SpinnersEnd, Served
<1> QED BY <1>5, <1>6 DEF PageInv, PageKeepsGoing

\* What a settled handler leaves is shown.
LEMMA SettledIsShown ==
  ASSUME Shown(snapshot, filters, selection)',
         (selection.root = Nowhere \/ location.event \/ location.route = selection)'
  PROVE  SelectionIsShown'
BY DEF Shown, SelectionIsShown

LEMMA TakeSnapshotKeeps ==
  ASSUME PageInv, NEW g \in 1..MaxRefresh, TakeSnapshot(g) PROVE PageInv'
<1>0. PICK listed \in SUBSET Root :
        \E agents \in {f \in [listed -> AgentStatus] :
                          \A r \in listed \ Dispatcher : f[r] = "no agent"} :
          LET shot == [there |-> TRUE, agents |-> agents, limit |-> requested[g]] IN
          /\ snapshot' = shot
          /\ more' = [limit |-> shot.limit, loading |-> FALSE]
          /\ filters' = ReconcileFilters(shot, filters)
          /\ Settle(shot, filters', selection)
          /\ LoadSelectedMessages(shot, selection', TRUE, Pruned(shot))
  BY DEF TakeSnapshot
<1>1. PICK agents \in {f \in [listed -> AgentStatus] :
                        \A r \in listed \ Dispatcher : f[r] = "no agent"} :
        LET shot == [there |-> TRUE, agents |-> agents, limit |-> requested[g]] IN
        /\ snapshot' = shot
        /\ more' = [limit |-> shot.limit, loading |-> FALSE]
        /\ filters' = ReconcileFilters(shot, filters)
        /\ Settle(shot, filters', selection)
        /\ LoadSelectedMessages(shot, selection', TRUE, Pruned(shot))
  BY <1>0
<1>2. PICK shot : shot = [there |-> TRUE, agents |-> agents, limit |-> requested[g]]
  OBVIOUS
<1>3. /\ snapshot' = shot
      /\ more' = [limit |-> shot.limit, loading |-> FALSE]
      /\ filters' = ReconcileFilters(shot, filters)
      /\ Settle(shot, filters', selection)
      /\ LoadSelectedMessages(shot, selection', TRUE, Pruned(shot))
      /\ g = poll.generation /\ Answered(g) /\ SchedulePoll
  BY <1>1, <1>2 DEF TakeSnapshot
<1>4. requested[g] \in Limit /\ PageTyped
  <2>1. PageTyped /\ requested \in [1..MaxRefresh -> 0..2]
    BY DEF PageInv, PageTyped
  <2>2. requested[g] \in 0..2 /\ requested[g] # 0
    BY <1>3, <2>1 DEF Answered
  <2> QED BY <2>1, <2>2, AskedLimit
<1>5. IsSnapshot(shot) /\ shot.limit \in Limit
  BY <1>2, <1>4 DEF IsSnapshot, Roots
<1>6. PICK f \in FilterRecord : f = filters'
  BY <1>3, <1>4, <1>5, FiltersReconciled DEF PageTyped
<1>7. /\ selection' \in Route /\ Shown(shot, f, selection')
      /\ location' \in [route : Route, event : BOOLEAN]
      /\ selection'.root = Nowhere \/ location'.event \/ location'.route = selection'
  BY <1>3, <1>4, <1>5, <1>6, SettledAgrees DEF PageTyped
<1>8. Pruned(shot) \in Cache /\ Served(Pruned(shot), fetches)
  BY <1>4 DEF Pruned, Served, Cache, PageTyped, PageInv, PageKeepsGoing, SpinnersEnd
<1>9. PICK s \in Route, cache \in Cache : s = selection' /\ cache = Pruned(shot)
  BY <1>7, <1>8
<1>10. messages' \in Cache /\ Served(messages', fetches') /\ \A q \in fetches' : q.root \in Root
  <2>1. LoadSelectedMessages(shot, s, TRUE, cache) /\ Served(cache, fetches)
    BY <1>3, <1>8, <1>9
  <2> QED BY <1>4, <1>5, <2>1, LoadSelectedServes DEF PageTyped
<1>11. more' \in [limit : Limit, loading : BOOLEAN] /\ more'.loading = FALSE
  BY <1>3, <1>5
<1>12. SelectionIsShown'
  BY <1>3, <1>6, <1>7 DEF SelectionIsShown, Shown
<1> QED BY <1>3, <1>5, <1>6, <1>7, <1>10, <1>11, <1>12, AnswerKeeps

LEMMA SnapshotFailsKeeps ==
  ASSUME PageInv, NEW g \in 1..MaxRefresh, SnapshotFails(g) PROVE PageInv'
<1>1. /\ g = poll.generation /\ Answered(g) /\ SchedulePoll /\ more' = [more EXCEPT !.loading = FALSE]
      /\ UNCHANGED <<snapshot, messages, fetches>>
      /\ PageTyped /\ IsSnapshot(snapshot) /\ filters \in FilterRecord
  BY DEF SnapshotFails, PageInv, PageTyped
<1>2. IsSnapshot(snapshot')
  BY <1>1
<1>3. more' \in [limit : Limit, loading : BOOLEAN] /\ more'.loading = FALSE
  BY <1>1 DEF PageTyped
<1>4. messages' \in Cache /\ Served(messages', fetches') /\ \A q \in fetches' : q.root \in Root
  BY <1>1 DEF PageTyped, PageInv, PageKeepsGoing, SpinnersEnd, Served
<1>5. CASE snapshot.there
  <2>1. filters' = ReconcileFilters(snapshot, filters) /\ Settle(snapshot, filters', selection)
    BY <1>5 DEF SnapshotFails
  <2>2. PICK f \in FilterRecord : f = filters'
    BY <1>1, <2>1, FiltersReconciled
  <2>3. /\ selection' \in Route /\ Shown(snapshot, f, selection')
        /\ location' \in [route : Route, event : BOOLEAN]
        /\ selection'.root = Nowhere \/ location'.event \/ location'.route = selection'
    BY <1>1, <2>1, <2>2, SettledAgrees DEF PageTyped
  <2>4. SelectionIsShown'
    BY <1>1, <2>2, <2>3 DEF SelectionIsShown, Shown
  <2> QED BY <1>1, <1>2, <1>3, <1>4, <2>2, <2>3, <2>4, AnswerKeeps
<1>6. CASE ~snapshot.there
  <2>1. UNCHANGED <<filters, selection, location>>
    BY <1>6 DEF SnapshotFails
  <2>2. SelectionIsShown'
    BY <1>1, <1>6 DEF SelectionIsShown
  <2> QED BY <1>1, <1>2, <1>3, <1>4, <2>1, <2>2, AnswerKeeps DEF PageTyped
<1> QED BY <1>5, <1>6

\* A handler of the page: the polling is left alone, what it selects is shown.
LEMMA HandlerKeeps ==
  ASSUME PageInv, UNCHANGED <<snapshot, more, poll, requested>>, filters' \in FilterRecord,
         selection' \in Route, location' \in [route : Route, event : BOOLEAN],
         messages' \in Cache, Served(messages', fetches'), \A f \in fetches' : f.root \in Root,
         SelectionIsShown'
  PROVE  PageInv'
<1>1. PageTyped'
  BY DEF PageInv, PageTyped
<1>2. PollingGoesOn' /\ SpinnersEnd'
  BY DEF PageInv, PageKeepsGoing, PollingGoesOn, SpinnersEnd, Served
<1> QED BY <1>1, <1>2 DEF PageInv, PageKeepsGoing

\* One that settles on what it wants selected.
LEMMA SettleKeeps ==
  ASSUME PageInv, UNCHANGED <<snapshot, more, poll, requested>>, NEW f \in FilterRecord, filters' = f,
         NEW sel \in Route, Settle(snapshot, f, sel),
         messages' \in Cache, Served(messages', fetches'), \A q \in fetches' : q.root \in Root
  PROVE  PageInv'
<1>1. PageTyped /\ IsSnapshot(snapshot)
  BY DEF PageInv, PageTyped
<1>2. /\ selection' \in Route /\ Shown(snapshot, f, selection')
      /\ location' \in [route : Route, event : BOOLEAN]
      /\ selection'.root = Nowhere \/ location'.event \/ location'.route = selection'
  BY <1>1, SettledAgrees
<1>3. SelectionIsShown'
  BY <1>2 DEF SelectionIsShown, Shown
<1> QED BY <1>2, <1>3, HandlerKeeps

LEMMA ApplyLocationRouteKeeps == ASSUME PageInv, ApplyLocationRoute PROVE PageInv'
<1>1. /\ UNCHANGED <<snapshot, more, poll, requested>> /\ PageTyped /\ IsSnapshot(snapshot)
      /\ filters \in FilterRecord /\ messages \in Cache /\ Served(messages, fetches)
      /\ \A q \in fetches : q.root \in Root
      /\ selection \in Route /\ location \in [route : Route, event : BOOLEAN]
  BY DEF ApplyLocationRoute, pageRest, PageInv, PageTyped, PageKeepsGoing, SpinnersEnd, Served
<1>2. CASE ~snapshot.there
  <2>1. location' = [location EXCEPT !.event = FALSE] /\ UNCHANGED <<selection, filters, messages, fetches>>
    BY <1>2 DEF ApplyLocationRoute
  <2>2. SelectionIsShown' /\ location' \in [route : Route, event : BOOLEAN]
    BY <1>1, <1>2, <2>1 DEF SelectionIsShown
  <2> QED BY <1>1, <2>1, <2>2, HandlerKeeps
<1>3. CASE snapshot.there
  <2>1. PICK route \in Route : route = location.route
    BY <1>1
  <2> DEFINE known == route.root \in Roots(snapshot)
             c == route.agent /\ HasAgent(snapshot, route.root)
  <2>2. c \in BOOLEAN /\ (c => route.root \in Dispatcher)
    BY SMT, RouteFields
  <2>3. PICK wanted : wanted = [route EXCEPT !.agent = c]
    OBVIOUS
  <2>4. /\ filters' = IF known /\ route.root \notin VisibleRoots(snapshot, filters) THEN EmptyFilters ELSE filters
        /\ selection' \in Reconciled(snapshot, filters', IF known THEN wanted ELSE selection)
        /\ location' = [route |-> IF selection'.root = Nowhere THEN route ELSE selection', event |-> FALSE]
        /\ IF known THEN LoadSelectedMessages(snapshot, selection', FALSE, messages)
           ELSE UNCHANGED <<messages, fetches>>
    BY <1>3, <2>1, <2>3 DEF ApplyLocationRoute
  <2> HIDE DEF c
  <2>5. known => wanted \in Route
    <3>1. wanted = [root |-> route.root, agent |-> c]
      BY <2>3, RouteFields
    <3>2. known => route.root \in Root
      BY <1>1 DEF IsSnapshot
    <3> QED BY <2>2, <3>1, <3>2, RouteConstants
  <2>6. PICK f \in FilterRecord : f = filters'
    BY <1>1, <2>4 DEF EmptyFilters, FilterRecord
  <2>7. PICK sel \in Route : sel = IF known THEN wanted ELSE selection
    BY <1>1, <2>5
  <2>8. selection' \in Route /\ Shown(snapshot, f, selection')
    BY <1>1, <2>4, <2>6, <2>7, ReconciledIsShown
  <2>9. location' \in [route : Route, event : BOOLEAN]
        /\ (selection'.root = Nowhere \/ location'.route = selection')
    BY <2>4, <2>8
  <2>10. SelectionIsShown'
    BY <1>1, <2>6, <2>8, <2>9 DEF SelectionIsShown, Shown
  <2>11. messages' \in Cache /\ Served(messages', fetches') /\ \A q \in fetches' : q.root \in Root
    <3>1. CASE known
      <4>1. PICK s : s = selection'
        OBVIOUS
      <4>2. LoadSelectedMessages(snapshot, s, FALSE, messages)
        BY <2>4, <3>1, <4>1
      <4> QED BY <1>1, <4>2, LoadSelectedServes
    <3>2. CASE ~known
      BY <1>1, <2>4, <3>2
    <3> QED BY <3>1, <3>2
  <2> QED BY <1>1, <2>6, <2>8, <2>9, <2>10, <2>11, HandlerKeeps
<1> QED BY <1>2, <1>3

LEMMA PageInvInductive == PageInv /\ [DashboardNext]_dashboardVars => PageInv'
<1> SUFFICES ASSUME PageInv, [DashboardNext]_dashboardVars PROVE PageInv'
  OBVIOUS
<1>t. /\ PageTyped /\ IsSnapshot(snapshot) /\ selection \in Route /\ filters \in FilterRecord
      /\ location \in [route : Route, event : BOOLEAN] /\ messages \in Cache /\ Served(messages, fetches)
      /\ \A q \in fetches : q.root \in Root
      /\ more \in [limit : Limit, loading : BOOLEAN] /\ more.limit \in Limit
      /\ poll \in [generation : 1..MaxRefresh, timer : BOOLEAN, hidden : BOOLEAN]
      /\ requested \in [1..MaxRefresh -> 0..2] /\ SelectionIsShown
  BY DEF PageInv, PageTyped, PageKeepsGoing, SpinnersEnd, Served
<1>s. UNCHANGED <<snapshot, selection, filters, location>> => SelectionIsShown'
  BY <1>t DEF SelectionIsShown, VisibleRoots, RootMatches, AgentMatches
<1>1. CASE UNCHANGED dashboardVars
  BY <1>1, <1>s, <1>t, HandlerKeeps DEF dashboardVars, pageVars
<1>2. ASSUME NEW g \in 1..MaxRefresh, DropSnapshot(g) PROVE PageInv'
  <2>1. /\ g # poll.generation /\ requested' = [requested EXCEPT ![g] = 0]
        /\ UNCHANGED <<snapshot, selection, filters, more, messages, location, poll, fetches>>
    BY <1>2 DEF DropSnapshot, Answered, pageVars
  <2>2. /\ requested' \in [1..MaxRefresh -> 0..2]
        /\ requested'[poll.generation] = requested[poll.generation]
    BY <1>t, <2>1
  <2>3. PageTyped'
    BY <2>1, <2>2 DEF PageInv, PageTyped
  <2>4. PollingGoesOn' /\ SpinnersEnd'
    BY <2>1 DEF PageInv, PageKeepsGoing, PollingGoesOn, SpinnersEnd
  <2> QED BY <1>s, <2>1, <2>3, <2>4 DEF PageInv, PageKeepsGoing
<1>3. ASSUME NEW g \in 1..MaxRefresh, TakeSnapshot(g) \/ SnapshotFails(g) PROVE PageInv'
  BY <1>3, TakeSnapshotKeeps, SnapshotFailsKeeps
<1>4. ASSUME NEW f \in fetches, FetchDone(f) \/ FetchFails(f) PROVE PageInv'
  BY <1>4, FetchEnds
<1>5. CASE PollFires
  BY <1>5, <1>t, RefreshKeeps DEF PollFires
<1>6. CASE Show
  BY <1>6, <1>t, RefreshKeeps DEF Show
<1>7. CASE LoadMoreRoots
  <2>1. more' \in [limit : Limit, loading : BOOLEAN] /\ more'.limit \in Limit
    BY <1>7, <1>t DEF LoadMoreRoots, Limit
  <2>2. PICK limit \in Limit : limit = more'.limit
    BY <2>1
  <2> QED BY <1>7, <2>2, RefreshKeeps DEF LoadMoreRoots
<1>8. CASE Hide
  <2>1. /\ poll' = [poll EXCEPT !.hidden = TRUE, !.timer = FALSE]
        /\ UNCHANGED <<snapshot, selection, filters, more, messages, location, requested, fetches>>
    BY <1>8 DEF Hide, pageVars
  <2>2. /\ poll' \in [generation : 1..MaxRefresh, timer : BOOLEAN, hidden : BOOLEAN]
        /\ poll'.hidden = TRUE /\ poll'.generation = poll.generation
    BY <1>t, <2>1
  <2>3. PageTyped'
    BY <2>1, <2>2 DEF PageInv, PageTyped
  <2>4. PollingGoesOn' /\ SpinnersEnd'
    BY <2>1 DEF PageInv, PageKeepsGoing, PollingGoesOn, SpinnersEnd
  <2> QED BY <1>s, <2>1, <2>3, <2>4 DEF PageInv, PageKeepsGoing
<1>9. ASSUME NEW r \in Root, SelectRoot(r) PROVE PageInv'
  <2>1. [root |-> r, agent |-> FALSE] \in Route
    BY RouteConstants
  <2>2. PICK sel \in Route : sel = [root |-> r, agent |-> FALSE]
    BY <2>1
  <2>3. Settle(snapshot, filters, sel) /\ UNCHANGED <<snapshot, more, poll, requested, filters, messages, fetches>>
    BY <1>9, <2>2 DEF SelectRoot, pageRest
  <2> QED BY <1>t, <2>3, SettleKeeps
<1>10. ASSUME NEW r \in Root, SelectAgent(r) PROVE PageInv'
  <2>1. r \in Dispatcher
    BY <1>10, <1>t, AgentOfDispatcher DEF SelectAgent
  <2>2. PICK sel \in Route : sel = [root |-> r, agent |-> TRUE]
    BY <2>1, RouteConstants
  <2>3. Settle(snapshot, filters, sel) /\ LoadMessages(r, TRUE, messages)
        /\ UNCHANGED <<snapshot, more, poll, requested, filters>>
    BY <1>10, <2>2 DEF SelectAgent, pageRest
  <2>4. messages' \in Cache /\ Served(messages', fetches') /\ \A q \in fetches' : q.root \in Root
    BY <1>t, <2>3, LoadServes
  <2> QED BY <1>t, <2>3, <2>4, SettleKeeps
<1>11. ASSUME NEW f \in FilterRecord, UpdateFilter(f) PROVE PageInv'
  BY <1>11, <1>t, SettleKeeps DEF UpdateFilter, pageRest
<1>12. CASE ResetFilters
  <2>1. EmptyFilters \in FilterRecord
    BY DEF EmptyFilters, FilterRecord
  <2>2. PICK f \in FilterRecord : f = EmptyFilters
    BY <2>1
  <2>3. Settle(snapshot, f, selection) /\ filters' = f
        /\ UNCHANGED <<snapshot, more, poll, requested, messages, fetches>>
    BY <1>12, <2>2 DEF ResetFilters, pageRest
  <2> QED BY <1>t, <2>3, SettleKeeps
<1>13. ASSUME NEW route \in Route, EditLocation(route) PROVE PageInv'
  <2>1. /\ location' = [route |-> route, event |-> TRUE]
        /\ UNCHANGED <<snapshot, selection, filters, more, messages, poll, requested, fetches>>
    BY <1>13 DEF EditLocation
  <2>2. location' \in [route : Route, event : BOOLEAN] /\ location'.event = TRUE
    BY <2>1
  <2>3. SelectionIsShown'
    BY <1>t, <2>1, <2>2 DEF SelectionIsShown, VisibleRoots, RootMatches, AgentMatches
  <2> QED BY <1>t, <2>1, <2>3, HandlerKeeps
<1>14. CASE ApplyLocationRoute
  BY <1>14, ApplyLocationRouteKeeps
<1>15. \A r \in Root : [filters EXCEPT !.repo = r] \in FilterRecord
  BY <1>t DEF FilterRecord
<1>16. \A status \in {"all", "running", "completed"} : [filters EXCEPT !.status = status] \in FilterRecord
  BY <1>t DEF FilterRecord
<1> QED
  BY <1>1, <1>2, <1>3, <1>4, <1>5, <1>6, <1>7, <1>8, <1>9, <1>10, <1>11, <1>12, <1>13, <1>14,
     <1>15, <1>16 DEF DashboardNext

LEMMA PageInvAlways == DashboardSpec => []PageInv
BY InitPageInv, PageInvInductive, PTL DEF DashboardSpec

\* The page's state is well typed, for any sessions and bounds.
THEOREM PageTypeCorrect == DashboardSpec => []DashboardTypeOK
<1>1. ASSUME PageInv PROVE DashboardTypeOK
  <2>1. PageTyped
    BY <1>1 DEF PageInv
  <2>2. /\ filters.repo \in Root \cup {"all"} /\ filters.status \in {"all", "running", "completed"}
        /\ location.route \in Route /\ location.event \in BOOLEAN
        /\ more.limit \in Limit /\ more.loading \in BOOLEAN
    BY <2>1 DEF PageTyped, FilterRecord
  <2>3. poll.generation \in 0..MaxRefresh /\ poll.timer \in BOOLEAN /\ poll.hidden \in BOOLEAN
    BY <2>1 DEF PageTyped
  <2> QED BY <2>1, <2>2, <2>3 DEF PageTyped, IsSnapshot, Cache, DashboardTypeOK
<1> QED BY <1>1, PageInvAlways, PTL

\* However answers are lost, late or overtaken, the tab hidden and the location edited, for any
\* sessions: a shown page has its next refresh coming, whatever it shows as loading has a request
\* under way, and page, filters and location agree on what is selected.
THEOREM PageAlwaysKeepsGoing == DashboardSpec => []PageKeepsGoing
<1>1. PageInv => PageKeepsGoing
  BY DEF PageInv
<1> QED BY <1>1, PageInvAlways, PTL

HIDE DashboardAssumption

-----------------------------------------------------------------------------
\* The composition.

\* A step of the run is one of a single component, and leaves the others where they are.
LEMMA PartsMove ==
  ASSUME [HubSessionNext]_hubSessionVars
  PROVE  /\ [EnsureNext]_ensureVars /\ [ClientNext]_clientVars
         /\ [DashboardNext]_dashboardVars /\ [WorkstreamNext]_streamVars
<1>1. [EnsureNext]_ensureVars
  BY DEF hubSessionVars, HubSessionNext, Ensure, Connect, Page, Creates, Edits, Seats, EnsureNext,
         ClientStep, HubStep
<1>2. [ClientNext]_clientVars
  BY DEF hubSessionVars, HubSessionNext, Ensure, Connect, Page, Creates, Edits, Seats, ClientNext
<1>3. [DashboardNext]_dashboardVars
  BY DEF hubSessionVars, HubSessionNext, Ensure, Connect, Page, Creates, Edits, Seats, DashboardNext
<1>4. [WorkstreamNext]_streamVars
  BY DEF hubSessionVars, HubSessionNext, Ensure, Connect, Page, Creates, Edits, Seats, WorkstreamNext
<1> QED BY <1>1, <1>2, <1>3, <1>4

\* What a behavior of the run shows of a component is a behavior of that component: what is
\* proved of a component holds in the run, for every value of the constants.
THEOREM HubSessionIsItsParts ==
  HubSessionSpec => EnsureSpec /\ ClientSpec /\ DashboardSpec /\ WorkstreamSpec
<1>1. HubSessionInit => EnsureInit /\ ClientInit /\ DashboardInit /\ WorkstreamInit
  BY DEF HubSessionInit
<1> QED BY <1>1, PartsMove, PTL DEF HubSessionSpec, EnsureSpec, ClientSpec, DashboardSpec, WorkstreamSpec

\* In the run, every component is well typed.
THEOREM HubSessionTypeCorrect == HubSessionSpec => []HubSessionTypeOK
<1>1. HubSessionSpec => []EnsureTypeOK /\ []ClientTypeOK /\ []DashboardTypeOK /\ []WorkstreamTypeOK
  BY HubSessionIsItsParts, EnsureTypeCorrect, ClientTypeCorrect, PageTypeCorrect, WorkstreamTypeCorrect
<1> QED BY <1>1, PTL DEF HubSessionTypeOK
=============================================================================
