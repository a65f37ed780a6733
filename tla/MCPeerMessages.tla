--------------------------- MODULE MCPeerMessages ---------------------------
\* Instances of PeerMessages for TLC.
EXTENDS PeerMessages, TLC

CONSTANTS m1, n1, q1, q2

ToOneTarget == m1 :> n1
\* One query that waits and one that does not, or is a stranger's.
AboutTheMessage == q1 :> m1 @@ q2 :> m1
=============================================================================
