------------------------------ MODULE HubEnsure ------------------------------
(***************************************************************************)
(* Starting the hub.  Any process may call ensureDaemon (ensure_hub in     *)
(* Python): it pings the socket, takes the spawn lock file, terminates a   *)
(* hub of an older protocol, spawns `basecamp hub`, and polls.  A hub      *)
(* takes a flock for its lifetime, removes the socket path, writes its pid *)
(* file and binds.  Lock, socket and pid file are shared by path; each     *)
(* action is one system call on them.                                      *)
(***************************************************************************)
CONSTANTS
  Client,    \* processes that ensure a hub, once each
  Hub,       \* processes `basecamp hub`
  Outdated,  \* hubs of an older protocol, running since before an upgrade
  Manual,    \* hubs a user starts by hand
  MayMiss,   \* whether a serving hub may be too slow to answer a ping
  MayStall,  \* whether a spawn lock may get older than lockStaleAfterMs
  Nobody     \* no file, no process

ASSUME EnsureAssumption ==
  /\ Outdated \subseteq Hub /\ Manual \subseteq Hub \ Outdated
  /\ MayMiss \in BOOLEAN /\ MayStall \in BOOLEAN
  /\ Nobody \notin Client \cup Hub

VARIABLES
  ens,       \* where ensureDaemon is
  expired,   \* clients whose deadline has passed
  target,    \* the pid a client found to terminate
  spawnLock, \* whose file is at daemon.spawn.lock
  aged,      \* that file is older than lockStaleAfterMs
  hub,       \* where run_hub is
  sock,      \* whose socket file is at daemon.sock
  pidFile,   \* whose pid is in daemon.pid
  disturbed  \* a ping went unanswered, a lock was broken, a hub was started by hand

ensureVars == <<ens, expired, target, spawnLock, aged, hub, sock, pidFile, disturbed>>

Ended == {"ok", "failed", "dead"}
EnsurePc == {"off", "first", "acquire", "judge", "reclaim", "contend", "locked", "find", "term", "stop",
             "unsock", "unpid", "spawn", "poll", "release", "unlink", "giveUp", "unlinkGiveUp"}
Holder == {"locked", "find", "term", "stop", "unsock", "unpid", "spawn", "poll", "release",
           "unlink", "giveUp", "unlinkGiveUp"}
Flocked == {"flocked", "cleared", "named", "serving", "stopping"}
Alive(h) == hub[h] \in Flocked \cup {"started"}

EnsureTypeOK ==
  /\ ens \in [Client -> EnsurePc \cup Ended]
  /\ expired \subseteq Client
  /\ target \in [Client -> Hub \cup {Nobody}]
  /\ spawnLock \in Client \cup {Nobody} /\ aged \in BOOLEAN
  /\ hub \in [Hub -> {"absent", "started", "dead"} \cup Flocked]
  /\ sock \in Hub \cup {Nobody} /\ pidFile \in Hub \cup {Nobody}
  /\ disturbed \in BOOLEAN

\* A hub of the older protocol may serve when the clients start.
EnsureInit ==
  /\ ens = [c \in Client |-> "off"] /\ expired = {}
  /\ target = [c \in Client |-> Nobody]
  /\ spawnLock = Nobody /\ aged = FALSE /\ disturbed = FALSE
  /\ sock \in Outdated \cup {Nobody} /\ pidFile = sock
  /\ hub = [h \in Hub |-> IF h = sock THEN "serving" ELSE "absent"]

hubVars == <<hub, sock, pidFile>>
lockVars == <<spawnLock, aged>>

GoTo(c, from, to) == ens[c] = from /\ ens' = [ens EXCEPT ![c] = to]

-----------------------------------------------------------------------------
\* The client.

\* healthPing: what the hub behind the path answers, if it answers.
Health ==
  IF sock = Nobody \/ (sock # Nobody /\ hub[sock] # "serving") THEN "none"
  ELSE IF sock \in Outdated THEN "other" ELSE "match"

Ping(answer) ==
  \/ answer = Health /\ disturbed' = disturbed
  \/ MayMiss /\ Health # "none" /\ answer = "none" /\ disturbed' = TRUE

\* One ping: the next step depends on the answer.
PingStep(c, from, next) ==
  \E answer \in {"none", "other", "match"} :
    /\ Ping(answer) /\ GoTo(c, from, next[answer])
    /\ UNCHANGED <<expired, target, lockVars, hubVars>>

EnsureStarts(c) ==
  GoTo(c, "off", "first") /\ UNCHANGED <<expired, target, lockVars, hubVars, disturbed>>

FirstPing(c)  == PingStep(c, "first", [none |-> "acquire", other |-> "acquire", match |-> "ok"])
LockedPing(c) == PingStep(c, "locked", [none |-> "spawn", other |-> "find", match |-> "release"])
Contend(c)    == PingStep(c, "contend", [none |-> "acquire", other |-> "acquire", match |-> "ok"])
PollHealthy(c) ==
  c \notin expired /\ PingStep(c, "poll", [none |-> "poll", other |-> "giveUp", match |-> "release"])

\* Mutant: the lock file is renamed into place.
RenameSpawnLock(c) ==
  /\ c \notin expired /\ GoTo(c, "acquire", "locked")
  /\ spawnLock' = c /\ aged' = FALSE
  /\ UNCHANGED <<expired, target, hubVars, disturbed>>

\* writeSpawnLock links a complete file into place, or fails with EEXIST.
WriteSpawnLock(c) ==
  /\ c \notin expired
  /\ GoTo(c, "acquire", IF spawnLock = Nobody THEN "locked" ELSE "judge")
  /\ spawnLock' = IF spawnLock = Nobody THEN c ELSE spawnLock
  /\ aged' = (aged /\ spawnLock # Nobody)
  /\ UNCHANGED <<expired, target, hubVars, disturbed>>

\* isSpawnLockStale: a lock that cannot be read, too, is stale.
JudgeLock(c) ==
  /\ GoTo(c, "judge", IF spawnLock = Nobody \/ aged \/ ens[spawnLock] = "dead"
                      THEN "reclaim" ELSE "contend")
  /\ UNCHANGED <<expired, target, lockVars, hubVars, disturbed>>

\* Whatever file is at the path by now.
UnlinkLock(c) ==
  /\ spawnLock' = Nobody /\ aged' = FALSE
  /\ disturbed' = (disturbed \/ (spawnLock \notin {Nobody, c} /\ ens[spawnLock] # "dead"))

ReclaimLock(c) ==
  GoTo(c, "reclaim", "acquire") /\ UnlinkLock(c) /\ UNCHANGED <<expired, target, hubVars>>

\* resolveDaemonPid: the pid file if that process is a hub, else a hub of the process table.
FindHub(c) ==
  /\ GoTo(c, "find", "term")
  /\ LET live == {h \in Hub : Alive(h)}
     IN  \E t \in IF pidFile \in live THEN {pidFile} ELSE IF live = {} THEN {Nobody} ELSE live :
           target' = [target EXCEPT ![c] = t]
  /\ UNCHANGED <<expired, lockVars, hubVars, disturbed>>

\* SIGTERM: uvicorn shuts down what it serves; before that the process just dies.
SignalHub(c) ==
  /\ GoTo(c, "term", "stop")
  /\ hub' = [h \in Hub |-> IF h # target[c] \/ ~Alive(h) THEN hub[h]
                           ELSE IF hub[h] \in {"serving", "stopping"} THEN "stopping" ELSE "dead"]
  /\ UNCHANGED <<expired, target, lockVars, sock, pidFile, disturbed>>

Gone(h) == h = Nobody \/ (h # Nobody /\ hub[h] = "dead")

\* waitForPidExit, after SIGTERM.
HubStops(c) ==
  /\ Gone(target[c]) /\ GoTo(c, "stop", "unsock")
  /\ UNCHANGED <<expired, target, lockVars, hubVars, disturbed>>

\* After two seconds SIGKILL, which ends it wherever it is.
KillHub(c) ==
  /\ ~Gone(target[c]) /\ GoTo(c, "stop", "unsock")
  /\ hub' = [hub EXCEPT ![target[c]] = "dead"]
  /\ UNCHANGED <<expired, target, lockVars, sock, pidFile, disturbed>>

\* terminateDaemon removes the socket, then the pid file, by path.
UnlinkSocket(c) ==
  /\ GoTo(c, "unsock", "unpid") /\ sock' = Nobody
  /\ UNCHANGED <<expired, target, lockVars, hub, pidFile, disturbed>>

UnlinkPid(c) ==
  /\ GoTo(c, "unpid", "spawn") /\ pidFile' = Nobody
  /\ UNCHANGED <<expired, target, lockVars, hub, sock, disturbed>>

\* spawnDaemonProcess starts the installed program; if no Hub is left, one that dies at once.
SpawnHub(c) ==
  /\ GoTo(c, "spawn", "poll")
  /\ LET fresh == {h \in Hub \ (Outdated \cup Manual) : hub[h] = "absent"}
     IN  IF fresh = {} THEN UNCHANGED hub
         ELSE \E h \in fresh : hub' = [hub EXCEPT ![h] = "started"]
  /\ UNCHANGED <<expired, target, lockVars, sock, pidFile, disturbed>>

\* The deadline is looked at in the two loops only.
Expire(c) ==
  /\ ens[c] \notin Ended \cup {"off"} /\ c \notin expired /\ expired' = expired \cup {c}
  /\ UNCHANGED <<ens, target, lockVars, hubVars, disturbed>>

\* A client without the lock fails at once, one with it releases it first.
GiveUp(c) ==
  /\ c \in expired
  /\ GoTo(c, "acquire", "failed") \/ GoTo(c, "poll", "giveUp")
  /\ UNCHANGED <<expired, target, lockVars, hubVars, disturbed>>

\* releaseSpawnLock compares the inode at the path with its own file ...
CompareLock(c) ==
  /\ \/ GoTo(c, "release", IF spawnLock = c THEN "unlink" ELSE "ok")
     \/ GoTo(c, "giveUp", IF spawnLock = c THEN "unlinkGiveUp" ELSE "failed")
  /\ UNCHANGED <<expired, target, lockVars, hubVars, disturbed>>

\* ... and unlinks the path.
ReleaseLock(c) ==
  /\ GoTo(c, "unlink", "ok") \/ GoTo(c, "unlinkGiveUp", "failed")
  /\ UnlinkLock(c)
  /\ UNCHANGED <<expired, target, hubVars>>

\* The client's process dies; its lock file stays.
ClientDies(c) ==
  /\ ens[c] \notin Ended \cup {"off"} /\ ens' = [ens EXCEPT ![c] = "dead"]
  /\ UNCHANGED <<expired, target, lockVars, hubVars, disturbed>>

\* A holder is suspended, or slow, for longer than lockStaleAfterMs.
LockAges ==
  /\ MayStall /\ spawnLock # Nobody /\ ~aged /\ aged' = TRUE
  /\ UNCHANGED <<ens, expired, target, spawnLock, hubVars, disturbed>>

-----------------------------------------------------------------------------
\* The hub.

ensurerVars == <<ens, expired, target, lockVars>>

Becomes(h, from, to) == hub[h] = from /\ hub' = [hub EXCEPT ![h] = to]

StartByHand(h) ==
  /\ h \in Manual /\ Becomes(h, "absent", "started") /\ disturbed' = TRUE
  /\ UNCHANGED <<ensurerVars, sock, pidFile>>

\* Mutant: the path is removed before the flock is asked for.
FlockLate(h) ==
  /\ Becomes(h, "started", IF \E g \in Hub : hub[g] \in Flocked THEN "dead" ELSE "flocked")
  /\ sock' = Nobody
  /\ UNCHANGED <<ensurerVars, pidFile, disturbed>>

\* Mutant: a hub starts although another has the flock.
FlockShared(h) ==
  Becomes(h, "started", "flocked") /\ UNCHANGED <<ensurerVars, sock, pidFile, disturbed>>

\* _acquire_server_lock does not block: who comes second exits.
Flock(h) ==
  /\ Becomes(h, "started", IF \E g \in Hub : hub[g] \in Flocked THEN "dead" ELSE "flocked")
  /\ UNCHANGED <<ensurerVars, sock, pidFile, disturbed>>

ClearPath(h) ==
  /\ Becomes(h, "flocked", "cleared") /\ sock' = Nobody
  /\ UNCHANGED <<ensurerVars, pidFile, disturbed>>

WritePid(h) ==
  /\ Becomes(h, "cleared", "named") /\ pidFile' = h
  /\ UNCHANGED <<ensurerVars, sock, disturbed>>

Bind(h) ==
  /\ Becomes(h, "named", "serving") /\ sock' = h
  /\ UNCHANGED <<ensurerVars, pidFile, disturbed>>

\* Closing the server removes the socket file if it is its own, or leaves it, by version.
CloseServer(h) ==
  /\ hub[h] = "stopping"
  /\ sock' \in {sock, IF sock = h THEN Nobody ELSE sock}
  /\ pidFile' = IF pidFile = h THEN Nobody ELSE pidFile
  /\ hub' = [hub EXCEPT ![h] = "dead"]
  /\ UNCHANGED <<ensurerVars, disturbed>>

\* Killed, or failing while it starts; the kernel drops the flock.
HubDies(h) ==
  /\ Alive(h) /\ hub' = [hub EXCEPT ![h] = "dead"]
  /\ UNCHANGED <<ensurerVars, sock, pidFile, disturbed>>

ClientStep(c) ==
  \/ FirstPing(c) \/ WriteSpawnLock(c) \/ JudgeLock(c) \/ ReclaimLock(c) \/ Contend(c)
  \/ LockedPing(c) \/ FindHub(c) \/ SignalHub(c) \/ HubStops(c) \/ KillHub(c)
  \/ UnlinkSocket(c) \/ UnlinkPid(c) \/ SpawnHub(c) \/ PollHealthy(c)
  \/ GiveUp(c) \/ CompareLock(c) \/ ReleaseLock(c)

HubStep(h) == Flock(h) \/ ClearPath(h) \/ WritePid(h) \/ Bind(h) \/ CloseServer(h)

EnsureNext ==
  \/ \E c \in Client : EnsureStarts(c) \/ ClientStep(c) \/ Expire(c) \/ ClientDies(c)
  \/ \E h \in Hub : HubStep(h) \/ StartByHand(h) \/ HubDies(h)
  \/ LockAges

EnsureSpec == EnsureInit /\ [][EnsureNext]_ensureVars

-----------------------------------------------------------------------------
\* run_hub's flock comes before the path: whatever races, a serving hub loses its
\* path to nobody but a client that terminates a hub.
OnlyTerminateTakesPath ==
  [][\A h \in Hub : hub[h] = "serving" /\ sock = h /\ hub'[h] = "serving" /\ sock' # h
       => \E c \in Client : ens[c] = "unsock" /\ ens'[c] = "unpid"]_ensureVars

\* A serving hub is reachable, or no client will ever replace it: it keeps the flock
\* and answers no ping.  It takes a broken lock, a ping that a serving hub left
\* unanswered, or a start by hand to get there: terminateDaemon unlinks by path.
HubIsReachable == ~disturbed => \A h \in Hub : hub[h] = "serving" => sock = h

\* Whatever clients and hubs do at once, the hubs keep the promise of HubService: one
\* serves at a time, none of the older protocol comes back, and the path is taken from
\* one that serves only when a start was disturbed.
Service == INSTANCE HubService
             WITH serving <- {h \in Hub : hub[h] = "serving"}, path <- sock

HubsKeepTheirPromise == Service!Spec
=============================================================================
