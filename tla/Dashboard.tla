------------------------------- MODULE Dashboard -------------------------------
(***************************************************************************)
(* The page of the hub's dashboard.  It polls snapshots of the sessions,   *)
(* loads an agent's messages, and keeps what the user selected: in the     *)
(* page, in its filters and in the location.  Answers come late and out of *)
(* order, the tab is hidden and shown, the location is edited.  A session  *)
(* has a repository of its own and at most one agent, named like itself.   *)
(***************************************************************************)
EXTENDS Naturals, FiniteSets

CONSTANTS
  Root,         \* sessions
  Dispatcher,   \* those that may have an agent
  MaxRefresh,   \* bound on snapshot requests
  MaxFetch,     \* bound on message requests
  MaxEdit,      \* bound on edits of the location
  Nowhere       \* no selection

ASSUME DashboardAssumption ==
  /\ Nowhere \notin Root /\ Dispatcher \subseteq Root /\ MaxRefresh \in Nat \ {0} /\ MaxFetch \in Nat /\ MaxEdit \in Nat

VARIABLES
  snapshot,    \* state.snapshot
  selection,   \* selectedRootHandle and selectedAgentHandle
  filters,     \* repository and status, or "all"
  more,        \* recentRootLimit and loadingMoreRoots
  messages,    \* the message cache, by agent
  poll,        \* pollTimer, document.visibilityState and refreshGeneration
  requested,   \* the limit each unanswered snapshot request asks for, or 0, by generation
  fetches,     \* message requests under way
  location,    \* window.location.hash, and whether its event is still to come
  edits

pageVars == <<snapshot, selection, filters, more, messages, location>>
dashboardVars == <<pageVars, poll, requested, fetches, edits>>

AgentStatus == {"no agent", "running", "completed"}
NoSnapshot == [there |-> FALSE, agents |-> <<>>, limit |-> 1]
NoSelection == [root |-> Nowhere, agent |-> FALSE]
EmptyFilters == [repo |-> "all", status |-> "all"]
Route == [root : Root, agent : {FALSE}] \cup [root : Dispatcher, agent : {TRUE}] \cup {NoSelection}

\* Limits: 1 leaves the sessions out that have ended, 2 is recent_root_limit_max.
Limit == 1..2

Roots(shot) == DOMAIN shot.agents

DashboardTypeOK ==
  /\ Roots(snapshot) \subseteq Root /\ requested \in [1..MaxRefresh -> 0..2]
  /\ selection \in Route /\ location.route \in Route /\ location.event \in BOOLEAN
  /\ filters.repo \in Root \cup {"all"} /\ filters.status \in {"all", "running", "completed"}
  /\ more.limit \in Limit /\ more.loading \in BOOLEAN
  /\ messages \in [Root -> {"none", "loading", "refreshing", "ready", "error"}]
  /\ poll.generation \in 0..MaxRefresh /\ poll.timer \in BOOLEAN /\ poll.hidden \in BOOLEAN

\* The page has run to its end once: the first request is under way.
DashboardInit ==
  /\ snapshot = NoSnapshot
  /\ selection \in Route /\ location = [route |-> selection, event |-> FALSE]
  /\ filters = EmptyFilters /\ more = [limit |-> 1, loading |-> FALSE]
  /\ messages = [r \in Root |-> "none"] /\ fetches = {}
  /\ poll = [generation |-> 1, timer |-> FALSE, hidden |-> FALSE]
  /\ requested = [g \in 1..MaxRefresh |-> IF g = 1 THEN 1 ELSE 0] /\ edits = 0

-----------------------------------------------------------------------------
\* The model of the page: what a snapshot shows under the filters.

\* findAgentContext: contextsForRoot visits every agent, those on a cycle of parents too.
HasAgent(shot, r) == r \in Roots(shot) /\ shot.agents[r] # "no agent"
AgentMatches(shot, r, f) == f.status = "all" \/ shot.agents[r] = f.status
RootMatches(shot, r, f) ==
  /\ f.repo \in {"all", r}
  /\ f.status # "all" => HasAgent(shot, r) /\ AgentMatches(shot, r, f)
VisibleRoots(shot, f) == {r \in Roots(shot) : RootMatches(shot, r, f)}

\* A filter on a value the snapshot no longer has is dropped.
ReconcileFilters(shot, f) ==
  [repo |-> IF f.repo \in Roots(shot) THEN f.repo ELSE "all",
   status |-> IF \E r \in Roots(shot) : shot.agents[r] = f.status THEN f.status ELSE "all"]

\* Where a selection that is not shown falls to: the first root, the order is the hub's.
Reconciled(shot, f, sel) ==
  LET visible == VisibleRoots(shot, f) IN
  IF sel.root \in visible
  THEN {[sel EXCEPT !.agent = @ /\ HasAgent(shot, sel.root)]}
  ELSE IF visible = {} THEN {NoSelection} ELSE {[root |-> r, agent |-> FALSE] : r \in visible}

\* syncRoute.
SyncRoute(sel) ==
  location' = IF sel.root = Nowhere \/ location.route = sel THEN location
              ELSE [location EXCEPT !.route = sel]

\* reconcileSelection and syncRoute, as every handler calls them.
Settle(shot, f, sel) ==
  /\ selection' \in Reconciled(shot, f, sel) /\ SyncRoute(selection')

-----------------------------------------------------------------------------
\* Messages.

\* loadMessages: nothing while a request for the agent is under way, or its messages are
\* there and nobody insists.  `kept`: the request found messages, and restores them if it fails.
LoadMessages(r, force, cache) ==
  IF cache[r] \in {"loading", "refreshing"} \/ (cache[r] = "ready" /\ ~force)
  THEN messages' = cache /\ UNCHANGED fetches
  ELSE /\ Cardinality(fetches) < MaxFetch
       /\ messages' = [cache EXCEPT ![r] = IF @ = "ready" THEN "refreshing" ELSE "loading"]
       /\ \E id \in (1..MaxFetch) \ {f.id : f \in fetches} :
            fetches' = fetches \cup {[id |-> id, root |-> r, kept |-> cache[r] = "ready"]}

\* loadSelectedMessages: only a live agent's messages are loaded again.
LoadSelectedMessages(shot, sel, force, cache) ==
  IF sel.agent /\ HasAgent(shot, sel.root)
  THEN LoadMessages(sel.root, force /\ shot.agents[sel.root] = "running", cache)
  ELSE messages' = cache /\ UNCHANGED fetches

\* Mutant: a refresh that failed leaves its entry as it is.
FetchStuck(f) ==
  /\ f \in fetches /\ fetches' = fetches \ {f}
  /\ messages' = IF f.kept THEN messages ELSE [messages EXCEPT ![f.root] = "error"]
  /\ UNCHANGED <<snapshot, selection, filters, more, location, poll, requested, edits>>

FetchFails(f) ==
  /\ f \in fetches /\ fetches' = fetches \ {f}
  /\ messages' = [messages EXCEPT ![f.root] = IF f.kept THEN "ready" ELSE "error"]
  /\ UNCHANGED <<snapshot, selection, filters, more, location, poll, requested, edits>>

\* The entry is set even if the cache was pruned meanwhile.
FetchDone(f) ==
  /\ f \in fetches /\ fetches' = fetches \ {f}
  /\ messages' = [messages EXCEPT ![f.root] = "ready"]
  /\ UNCHANGED <<snapshot, selection, filters, more, location, poll, requested, edits>>

\* pruneMessageCache.
Pruned(shot) == [r \in Root |-> IF HasAgent(shot, r) THEN messages[r] ELSE "none"]

-----------------------------------------------------------------------------
\* Snapshots.

\* refreshSnapshot: a new generation, and no timer until it ends.
Refresh(limit) ==
  /\ poll.generation < MaxRefresh
  /\ poll' = [generation |-> poll.generation + 1, timer |-> FALSE, hidden |-> FALSE]
  /\ requested' = [requested EXCEPT ![poll.generation + 1] = limit]

SchedulePoll == poll' = [poll EXCEPT !.timer = ~poll.hidden]
Answered(g) == requested[g] # 0 /\ requested' = [requested EXCEPT ![g] = 0]

\* The answer, good or bad, to a request that was overtaken.
DropSnapshot(g) ==
  /\ g # poll.generation /\ Answered(g) /\ UNCHANGED <<pageVars, poll, fetches, edits>>

\* The hub answers with whatever sessions there are by then.
TakeSnapshot(g) ==
  /\ g = poll.generation /\ Answered(g)
  /\ \E listed \in SUBSET Root : \E agents \in {f \in [listed -> AgentStatus] :
                                    \A r \in listed \ Dispatcher : f[r] = "no agent"} :
       LET shot == [there |-> TRUE, agents |-> agents, limit |-> requested[g]] IN
       /\ snapshot' = shot
       /\ more' = [limit |-> shot.limit, loading |-> FALSE]
       /\ filters' = ReconcileFilters(shot, filters)
       /\ Settle(shot, filters', selection)
       /\ LoadSelectedMessages(shot, selection', TRUE, Pruned(shot))
  /\ SchedulePoll /\ UNCHANGED edits

\* Status 429, or any failure: the page is rendered again with what it has.
SnapshotFails(g) ==
  /\ g = poll.generation /\ Answered(g)
  /\ more' = [more EXCEPT !.loading = FALSE]
  /\ IF snapshot.there
     THEN filters' = ReconcileFilters(snapshot, filters) /\ Settle(snapshot, filters', selection)
     ELSE UNCHANGED <<filters, selection, location>>
  /\ SchedulePoll /\ UNCHANGED <<snapshot, messages, fetches, edits>>

\* The timer fires.
PollFires ==
  /\ poll.timer /\ Refresh(more.limit)
  /\ UNCHANGED <<snapshot, selection, filters, more, messages, location, fetches, edits>>

\* loadMoreRoots: one step at a time.
LoadMoreRoots ==
  /\ ~poll.hidden /\ snapshot.there /\ ~more.loading
  /\ more.limit <= snapshot.limit /\ more.limit < 2
  /\ more' = [limit |-> more.limit + 1, loading |-> TRUE] /\ Refresh(more'.limit)
  /\ UNCHANGED <<snapshot, selection, filters, messages, location, fetches, edits>>

Hide ==
  /\ ~poll.hidden /\ poll' = [poll EXCEPT !.hidden = TRUE, !.timer = FALSE]
  /\ UNCHANGED <<pageVars, requested, fetches, edits>>

Show ==
  /\ poll.hidden /\ Refresh(more.limit)
  /\ UNCHANGED <<snapshot, selection, filters, more, messages, location, fetches, edits>>

-----------------------------------------------------------------------------
\* The user, on a page that is shown.

OnPage == ~poll.hidden /\ snapshot.there
pageRest == <<snapshot, more, poll, requested, edits>>

SelectRoot(r) ==
  /\ OnPage /\ r \in VisibleRoots(snapshot, filters)
  /\ Settle(snapshot, filters, [root |-> r, agent |-> FALSE])
  /\ UNCHANGED <<pageRest, filters, messages, fetches>>

SelectAgent(r) ==
  /\ OnPage /\ r = selection.root /\ HasAgent(snapshot, r)
  /\ Settle(snapshot, filters, [root |-> r, agent |-> TRUE])
  /\ LoadMessages(r, TRUE, messages) /\ UNCHANGED <<pageRest, filters>>

\* The values a filter offers are those of the snapshot.
UpdateFilter(changed) ==
  /\ OnPage /\ changed # filters /\ changed = ReconcileFilters(snapshot, changed) /\ filters' = changed
  /\ Settle(snapshot, filters', selection) /\ UNCHANGED <<pageRest, messages, fetches>>

ResetFilters ==
  /\ OnPage /\ filters # EmptyFilters /\ filters' = EmptyFilters
  /\ Settle(snapshot, filters', selection) /\ UNCHANGED <<pageRest, messages, fetches>>

\* The location is edited, or the user goes back; the event is a task of its own.
EditLocation(route) ==
  /\ ~poll.hidden /\ edits < MaxEdit /\ edits' = edits + 1
  /\ route # location.route /\ location' = [route |-> route, event |-> TRUE]
  /\ UNCHANGED <<snapshot, selection, filters, more, messages, poll, requested, fetches>>

\* applyLocationRoute: a root the filters hide is shown without them.
ApplyLocationRoute ==
  /\ location.event
  /\ LET route == location.route
         known == snapshot.there /\ route.root \in Roots(snapshot)
         wanted == [route EXCEPT !.agent = @ /\ HasAgent(snapshot, route.root)]
     IN IF ~snapshot.there
        THEN /\ location' = [location EXCEPT !.event = FALSE]
             /\ UNCHANGED <<selection, filters, messages, fetches>>
        ELSE /\ filters' = IF known /\ route.root \notin VisibleRoots(snapshot, filters)
                           THEN EmptyFilters ELSE filters
             /\ selection' \in Reconciled(snapshot, filters', IF known THEN wanted ELSE selection)
             /\ location' = [route |-> IF selection'.root = Nowhere THEN route ELSE selection',
                             event |-> FALSE]
             /\ IF known THEN LoadSelectedMessages(snapshot, selection', FALSE, messages)
                ELSE UNCHANGED <<messages, fetches>>
  /\ UNCHANGED pageRest

DashboardNext ==
  \/ \E g \in 1..MaxRefresh :
       DropSnapshot(g) \/ TakeSnapshot(g) \/ SnapshotFails(g)
  \/ \E f \in fetches : FetchDone(f) \/ FetchFails(f)
  \/ \E r \in Root : SelectRoot(r) \/ SelectAgent(r) \/ UpdateFilter([filters EXCEPT !.repo = r])
  \/ \E status \in {"all", "running", "completed"} : UpdateFilter([filters EXCEPT !.status = status])
  \/ \E route \in Route : EditLocation(route)
  \/ PollFires \/ LoadMoreRoots \/ Hide \/ Show \/ ResetFilters \/ ApplyLocationRoute

DashboardSpec == DashboardInit /\ [][DashboardNext]_dashboardVars

-----------------------------------------------------------------------------
\* A shown page always has its next refresh coming: a timer, or a request of its own
\* generation that has not been answered.
PollingGoesOn == ~poll.hidden => poll.timer \/ requested[poll.generation] # 0

\* Whatever the page shows as loading has a request under way that ends it.
SpinnersEnd ==
  /\ more.loading => requested[poll.generation] # 0
  /\ \A r \in Root : messages[r] \in {"loading", "refreshing"} => \E f \in fetches : f.root = r

\* What is selected is shown, and is what the location names, but for an edit to come.
SelectionIsShown ==
  snapshot.there =>
    /\ \/ selection.root \in VisibleRoots(snapshot, filters)
       \/ selection = NoSelection /\ VisibleRoots(snapshot, filters) = {}
    /\ selection.agent => HasAgent(snapshot, selection.root)
    /\ selection.root = Nowhere \/ location.event \/ location.route = selection

\* However answers are lost, late or overtaken, and whenever the tab is hidden: the page
\* never stops refreshing, no spinner stays, and page, filters and location agree.
PageKeepsGoing == PollingGoesOn /\ SpinnersEnd /\ SelectionIsShown
===============================================================================
