CONSTANTS
  c1 = c1
  c2 = c2
  c3 = c3
  i1 = i1
  i2 = i2
  u1 = u1
  a1 = a1
  Addrs = {a1}
  Callers = {c1}
  Incoming = {i1, i2}
  Users = {u1}
  Shutdown = Shutdown
  Target <- MCTarget
  None = None
SPECIFICATION FairSpec
INVARIANTS TypeOK NoDoubleClose DisconnectedOnce DisconnectAfterConnect RegisteredSocketOpen
           AcceptCleansUp
PROPERTY ClosedLeavesPeers
CHECK_DEADLOCK FALSE
