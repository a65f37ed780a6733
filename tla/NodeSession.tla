----------------------------- MODULE NodeSession -----------------------------
(***************************************************************************)
(* What the registry promises of one node, with no mention of probes,      *)
(* generations or cleanups.  One session has the node at a time and only   *)
(* that one begins to be served.  Another takes the node from it only if   *)
(* it was lost, and closes it.  Nobody's runs are reaped unless the node   *)
(* was found free, nor any longer once a session is served again.          *)
(***************************************************************************)
CONSTANTS Socket, Nobody

VARIABLES
  holder,  \* whose the node is
  served,  \* sockets whose frames are handled
  lost,    \* sockets that were ever stuck or left
  closed,  \* sockets the hub closed
  reaping  \* whether runs are being ended because nobody came back

vars == <<holder, served, lost, closed, reaping>>

Init == holder = Nobody /\ served = {} /\ lost = {} /\ closed = {} /\ reaping = FALSE

Claim(s) ==
  /\ holder = Nobody /\ s \notin closed
  /\ holder' = s
  /\ UNCHANGED <<served, lost, closed, reaping>>

Displace(s) ==
  /\ holder \in lost /\ s \notin closed
  /\ holder' = s /\ closed' = closed \cup {holder}
  /\ UNCHANGED <<served, lost, reaping>>

Serve(s) ==
  /\ holder = s /\ s \notin closed
  /\ served' = served \cup {s} /\ reaping' = FALSE
  /\ UNCHANGED <<holder, lost, closed>>

\* A session that was neither lost nor closed goes on being served.
End(s) ==
  /\ s \in served \cap (lost \cup closed)
  /\ served' = served \ {s} /\ closed' \in {closed, closed \cup {s}}
  /\ UNCHANGED <<holder, lost, reaping>>

Release ==
  /\ holder # Nobody /\ holder \notin served
  /\ holder' = Nobody /\ closed' \in {closed, closed \cup {holder}}
  /\ UNCHANGED <<served, lost, reaping>>

Lose(s) == lost' = lost \cup {s} /\ UNCHANGED <<holder, served, closed, reaping>>

\* Those turned away, and those they took for gone.
Close(s, t) ==
  /\ closed' = closed \cup {s, t} /\ holder \notin {s, t}
  /\ UNCHANGED <<holder, served, lost, reaping>>

Reap == holder = Nobody /\ reaping' = TRUE /\ UNCHANGED <<holder, served, lost, closed>>

StopReaping == reaping' = FALSE /\ UNCHANGED <<holder, served, lost, closed>>

Next ==
  \/ \E s \in Socket : Claim(s) \/ Displace(s) \/ Serve(s) \/ End(s) \/ Lose(s)
  \/ \E s, t \in Socket : Close(s, t)
  \/ Release \/ Reap \/ StopReaping

Spec == Init /\ [][Next]_vars
=============================================================================
