SPECIFICATION Spec
CONSTANTS
  r1 = r1
  r2 = r2
  a1 = a1
  a2 = a2
  n1 = n1
  n2 = n2
  c1 = c1
  NoRun = NoRun
  Run = {r1, r2}
  Agent = {a1, a2}
  Node = {n1}
  CancelReq = {}
  AgentOf <- TwoAgents
  DispatcherOf <- OneDispatcher
  MaxCrashes = 0
  MaxDisconnects = 2
  MaxStoreFaults = 0
INVARIANTS AbsentDispatcherIsReaped
CHECK_DEADLOCK FALSE
