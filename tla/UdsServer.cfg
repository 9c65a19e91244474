SPECIFICATION Spec
CONSTANTS
  Cli = {c1}
  Watchers = {w1}
  c1 = c1
  w1 = w1
  NoPeer = NoPeer
  Fds = {1, 2}
  Listen = 0
  Backlog = 1
  ReadBuf = 4
  WriteBuf = 3
  SockBuf = 3
  Kinds = {"set"}
  MaxRequests = 2
  MaxChanges = 1
  MaxStarts = 2
INVARIANTS
    AnswersInOrder
PROPERTIES
    RequestIsHandled
CHECK_DEADLOCK FALSE
