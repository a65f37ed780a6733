SPECIFICATION Spec
CONSTANTS
  r1 = r1
  r2 = r2
  r3 = r3
  a1 = a1
  a2 = a2
  w1 = w1
  w2 = w2
  NoRun = NoRun
  Run = {r1}
  Agent = {a1}
  AgentOf <- OneRun
  Foreign = {}
  Wait = {w1}
  ById <- NoId
  ByHandle <- OneHandle
INVARIANTS NobodySleepsOnFinishedRuns
CHECK_DEADLOCK FALSE
