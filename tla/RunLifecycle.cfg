SPECIFICATION FairSpec
CONSTANTS
  r1 = r1
  r2 = r2
  a1 = a1
  a2 = a2
  n1 = n1
  n2 = n2
  c1 = c1
  NoRun = NoRun
  Run = {r1}
  Agent = {a1}
  Node = {n1}
  CancelReq = {c1}
  AgentOf <- SoleAgent
  DispatcherOf <- SoleDispatcher
  MaxCrashes = 1
  MaxDisconnects = 2
  MaxStoreFaults = 1
INVARIANTS NoRunForgotten SomebodyTells LiveProcessIsTracked TeardownAfterExit
PROPERTIES  DeadRunIsFinalized WorktreeIsReclaimed
CHECK_DEADLOCK FALSE
