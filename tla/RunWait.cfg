SPECIFICATION FairSpec
CONSTANTS
  r1 = r1
  r2 = r2
  r3 = r3
  a1 = a1
  a2 = a2
  w1 = w1
  w2 = w2
  NoRun = NoRun
  Run = {r1, r2, r3}
  Agent = {a1, a2}
  AgentOf <- Retasked
  Foreign = {}
  Wait = {w1, w2}
  ById <- ByIdMixed
  ByHandle <- ByHandleMixed
INVARIANTS LastFinalizerWakes RunningAnswerIsOfNewRun
PROPERTIES WaitIsAnswered
CHECK_DEADLOCK FALSE
