SPECIFICATION Spec
CONSTANTS
  r1 = r1
  r2 = r2
  a1 = a1
  a2 = a2
  n1 = n1
  n2 = n2
  c1 = c1
  NoRun = NoRun
  Run = {r1}
  Agent = {a1}
  Node = {n1}
  CancelReq = {c1}
  AgentOf <- SoleAgent
  DispatcherOf <- SoleDispatcher
  MaxCrashes = 0
  MaxDisconnects = 0
  MaxStoreFaults = 0
INVARIANTS CancelTerminatesProcess
CHECK_DEADLOCK FALSE
