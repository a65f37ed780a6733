SPECIFICATION FairSpec
CONSTANTS
  m1 = m1
  n1 = n1
  q1 = q1
  q2 = q2
  Message = {m1}
  Node = {n1}
  Query = {q1, q2}
  TargetOf <- ToOneTarget
  MessageOf <- AboutTheMessage
  Waits = {q1, q2}
  Strangers = {q2}
  MaxSockets = 2
  MaxCrashes = 1
INVARIANTS SleeperWillBeWoken AnswerIsTerminalOrLate
PROPERTIES StatusKeepsItsPromise AcceptedIsPushed QueryIsAnswered
CHECK_DEADLOCK FALSE
