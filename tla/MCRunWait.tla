------------------------------ MODULE MCRunWait ------------------------------
\* Instances of RunWait for TLC.
EXTENDS RunWait, TLC

CONSTANTS r1, r2, r3, a1, a2, w1, w2

\* r3 is a retask of the agent of r1.
Retasked == r1 :> a1 @@ r3 :> a1 @@ r2 :> a2
\* The first frame names one agent by id and one by handle, the second one agent.
ByIdMixed == w1 :> {a1} @@ w2 :> {}
ByHandleMixed == w1 :> {a2} @@ w2 :> {a1}

OneRun == r1 :> a1
NoId == w1 :> {}
OneHandle == w1 :> {a1}
=============================================================================
