SPECIFICATION Spec
CONSTANTS
  Cli = {c1, c2}
  Watchers = {w1}
  c1 = c1
  c2 = c2
  w1 = w1
  NoPeer = NoPeer
  Fds = {1, 2}
  Listen = 0
  Backlog = 1
  ReadBuf = 4
  WriteBuf = 3
  SockBuf = 2
  Kinds = {"set", "stop", "large"}
  MaxRequests = 0
  MaxChanges = 1
  MaxStarts = 1
INVARIANTS
  ConnectionsAreOwned
CHECK_DEADLOCK FALSE
