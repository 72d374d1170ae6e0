SPECIFICATION FairSpec
CONSTANTS
  Conns = {c1, c2}
  Messages = {m1}
  OpsCap = 1
  QueueCap = 1
  SendCap = 1
  RestartAttempts = 2
  MaxPanics = 2
INVARIANTS RegisteredIsOpen NothingSkipped
PROPERTIES NoLeakedClient RegisterReturns ClosedSendEndsConnection
CHECK_DEADLOCK FALSE
