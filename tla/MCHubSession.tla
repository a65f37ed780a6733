----------------------------- MODULE MCHubSession -----------------------------
\* One instance of how a hub is come by and used: clients that start it, a process that
\* connects to it, a page of its dashboard, and the workstreams it keeps for sessions.  A
\* connection starts where the ensuring ends, the page only asks, and a tool's call is a
\* request like any other: so a behavior is one of a single component, named by `part`, the
\* others at rest.  Editing a workstream and starting a session from one touch different
\* columns; each is run beside the creation of workstreams.
EXTENDS HubEnsure, HubClient, Dashboard, Workstreams, TLC

VARIABLE part

hubSessionVars == <<part, ensureVars, clientVars, dashboardVars, streamVars>>

HubSessionInit ==
  /\ part \in {"ensure", "connect", "page", "edits", "seats"}
  /\ EnsureInit /\ ClientInit /\ DashboardInit /\ WorkstreamInit
  /\ part # "ensure" => sock = Nobody
  /\ part # "page" => selection = NoSelection

Ensure  == part = "ensure" /\ UNCHANGED <<part, clientVars, dashboardVars, streamVars>>
Connect == part = "connect" /\ UNCHANGED <<part, ensureVars, dashboardVars, streamVars>>
Page    == part = "page" /\ UNCHANGED <<part, ensureVars, clientVars, streamVars>>
Creates == part \in {"edits", "seats"} /\ UNCHANGED <<part, ensureVars, clientVars, dashboardVars>>
Edits   == part = "edits" /\ UNCHANGED <<part, ensureVars, clientVars, dashboardVars>>
Seats   == part = "seats" /\ UNCHANGED <<part, ensureVars, clientVars, dashboardVars>>

\* The components' next-state relations, an action to a disjunct.
HubSessionNext ==
  \/ \E c \in Client : (Ensure /\ EnsureStarts(c)) \/ (Ensure /\ FirstPing(c))
        \/ (Ensure /\ WriteSpawnLock(c)) \/ (Ensure /\ JudgeLock(c)) \/ (Ensure /\ ReclaimLock(c))
        \/ (Ensure /\ Contend(c)) \/ (Ensure /\ LockedPing(c)) \/ (Ensure /\ FindHub(c))
        \/ (Ensure /\ SignalHub(c)) \/ (Ensure /\ HubStops(c)) \/ (Ensure /\ KillHub(c))
        \/ (Ensure /\ UnlinkSocket(c)) \/ (Ensure /\ UnlinkPid(c)) \/ (Ensure /\ SpawnHub(c))
        \/ (Ensure /\ PollHealthy(c)) \/ (Ensure /\ GiveUp(c)) \/ (Ensure /\ CompareLock(c))
        \/ (Ensure /\ ReleaseLock(c)) \/ (Ensure /\ Expire(c)) \/ (Ensure /\ ClientDies(c))
  \/ \E h \in Hub : (Ensure /\ Flock(h)) \/ (Ensure /\ ClearPath(h)) \/ (Ensure /\ WritePid(h))
        \/ (Ensure /\ Bind(h)) \/ (Ensure /\ CloseServer(h)) \/ (Ensure /\ StartByHand(h))
        \/ (Ensure /\ HubDies(h))
  \/ (Ensure /\ LockAges)
  \/ (Connect /\ SessionStart) \/ (Connect /\ Reload) \/ (Connect /\ Shutdown)
     \/ (Connect /\ ShutdownEnds)
  \/ \E s \in Socket : (Connect /\ Ensured(s)) \/ (Connect /\ Registered(s))
        \/ (Connect /\ ConnectFails(s)) \/ (Connect /\ Closed(s))
  \/ \E r \in Request : (Connect /\ ListAgents(r)) \/ (Connect /\ CancelAgent(r))
        \/ (Connect /\ MessageAgent(r)) \/ (Connect /\ WaitForAgent(r))
        \/ (Connect /\ MessageStatus(r)) \/ (Connect /\ DispatchAgent(r))
        \/ (Connect /\ AskAgent(r)) \/ (Connect /\ Issue(r)) \/ (Connect /\ LaunchRefused(r))
        \/ (Connect /\ Answer(r)) \/ (Connect /\ Abort(r))
  \/ \E g \in 1..MaxRefresh : (Page /\ DropSnapshot(g)) \/ (Page /\ TakeSnapshot(g))
        \/ (Page /\ SnapshotFails(g))
  \/ \E f \in fetches : (Page /\ FetchDone(f)) \/ (Page /\ FetchFails(f))
  \/ \E r \in Root : (Page /\ SelectRoot(r)) \/ (Page /\ SelectAgent(r))
        \/ (Page /\ UpdateFilter([filters EXCEPT !.repo = r]))
  \/ \E s \in {"all", "running", "completed"} :
        (Page /\ UpdateFilter([filters EXCEPT !.status = s]))
  \/ \E route \in Route : (Page /\ EditLocation(route))
  \/ (Page /\ PollFires) \/ (Page /\ LoadMoreRoots) \/ (Page /\ Hide) \/ (Page /\ Show)
     \/ (Page /\ ResetFilters) \/ (Page /\ ApplyLocationRoute)
  \/ \E w \in Stream : (Creates /\ CreateWorkstream(w)) \/ (Creates /\ CreateFails(w))
  \/ \E w \in Stream, slug \in Slug : (Creates /\ SlugConflict(w, slug))
        \/ (Creates /\ Created(w, slug, TRUE)) \/ (Creates /\ Created(w, slug, FALSE))
  \/ \E w \in Stream : (Edits /\ SetStatus(w, "open")) \/ (Edits /\ SetStatus(w, "closed"))
  \/ \E e \in Revision : (Edits /\ ReviseFails(e)) \/ (Edits /\ Revised(e, TRUE))
        \/ (Edits /\ Revised(e, FALSE))
  \/ \E e \in Revision, w \in Stream, named \in SUBSET Field :
        (Edits /\ ResolveDetail(e, w, named))
  \/ \E s \in Seat : (Seats /\ StartSeat(s)) \/ (Seats /\ ReadDetail(s)) \/ (Seats /\ NoDetail(s))
        \/ (Seats /\ Converse(s)) \/ (Seats /\ Leave(s))
  \/ \E s \in Seat, slug \in Slug \cup {NoSlug} : (Seats /\ Identify(s, slug))
  \/ \E s \in Seat, reached \in BOOLEAN : (Seats /\ Attach(s, reached, FALSE))
  \/ \E s \in Seat : (Seats /\ Attach(s, TRUE, TRUE))

\* At rest, nothing that fairness asks for is enabled.
HubSessionSpec == HubSessionInit /\ [][HubSessionNext]_hubSessionVars /\ ClientFairness

\* Every component is well typed.
HubSessionTypeOK == EnsureTypeOK /\ ClientTypeOK /\ DashboardTypeOK /\ WorkstreamTypeOK

\* Nothing tells one client, or one edit, from another.  Where a request is made both are at
\* rest and no permutation moves the state: what TLC finds of RequestSettles is not reduced.
Symmetry == {f @@ g : f \in Permutations(Client), g \in Permutations(Revision)}
===============================================================================
