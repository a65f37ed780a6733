SPECIFICATION FairSpec
CONSTANTS
  s1 = s1
  s2 = s2
  s3 = s3
  Socket = {s1, s2, s3}
  Nobody = Nobody
INVARIANTS LiveIncumbentKeepsNode ServedSessionIsNotReaped AbsentNodeIsReaped
PROPERTIES NodeKeepsItsPromise ProbeIsDecided
CHECK_DEADLOCK FALSE
