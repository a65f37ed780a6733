------------------------------ MODULE HubService ------------------------------
(***************************************************************************)
(* What the start of the hub promises, with no mention of who starts or    *)
(* ends one.  One hub serves at a time.  A hub of the older protocol that  *)
(* stopped never comes back.  The path names the hub that bound it last,   *)
(* or nobody; as long as nothing disturbed a start, it is taken from no    *)
(* hub that serves.                                                        *)
(***************************************************************************)
CONSTANTS Hub, Outdated, Nobody

VARIABLES
  serving,   \* the hubs that serve
  path,      \* the hub whose socket file is at the path
  disturbed  \* see HubEnsure

vars == <<serving, path, disturbed>>

Init ==
  /\ path \in Outdated \cup {Nobody} /\ serving = {path} \ {Nobody}
  /\ disturbed = FALSE

Serve(h) ==
  /\ serving = {} /\ h \notin Outdated
  /\ serving' = {h} /\ path' = h
  /\ UNCHANGED disturbed

\* A hub ends, and may leave its socket file.
End ==
  /\ serving # {} /\ serving' = {}
  /\ UNCHANGED <<path, disturbed>>

Unlink ==
  /\ serving = {} \/ disturbed
  /\ path' = Nobody
  /\ UNCHANGED <<serving, disturbed>>

Disturb == disturbed' = TRUE /\ UNCHANGED <<serving, path>>

Next == (\E h \in Hub : Serve(h)) \/ End \/ Unlink \/ Disturb

Spec == Init /\ [][Next]_vars
=============================================================================
