SPECIFICATION Spec
CONSTANTS
  Sender <- MCSender
  Values <- MCValues
  Registered <- MCRegistered
  Wanted <- MCWanted
  Registrars = {r1, r2}
  Ways <- MCWays
SYMMETRY Symmetry
INVARIANTS
  RegistryConsistent
  DispatchedAsSent
  CutOnlyInOpcode
CHECK_DEADLOCK FALSE
