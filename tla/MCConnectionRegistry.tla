------------------------- MODULE MCConnectionRegistry -------------------------
\* Instances of ConnectionRegistry for TLC.
EXTENDS ConnectionRegistry

CONSTANTS s1, s2, s3
=============================================================================
