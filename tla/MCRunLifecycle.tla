--------------------------- MODULE MCRunLifecycle ---------------------------
\* Instances of RunLifecycle for TLC.
EXTENDS RunLifecycle, TLC

CONSTANTS r1, r2, a1, a2, n1, n2, c1

\* Two dispatches to one agent from two nodes of its root.
SameAgent == r1 :> a1 @@ r2 :> a1
TwoDispatchers == r1 :> n1 @@ r2 :> n2
\* Two agents of one dispatcher.
TwoAgents == r1 :> a1 @@ r2 :> a2
OneDispatcher == r1 :> n1 @@ r2 :> n1
\* One run.
SoleAgent == r1 :> a1
SoleDispatcher == r1 :> n1
=============================================================================
