CONSTANTS
  c1 = c1
  c2 = c2
  c3 = c3
  i1 = i1
  i2 = i2
  u1 = u1
  a1 = a1
  Addrs = {a1}
  Callers = {c1, c2, c3}
  Incoming = {i1}
  Users = {}
  Shutdown = Shutdown
  Target <- MCTarget
  None = None
SPECIFICATION FairSpec
INVARIANT SingleDial
CHECK_DEADLOCK FALSE
