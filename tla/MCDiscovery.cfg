CONSTANTS
  a1 = a1
  a2 = a2
  h1 = h1
  h2 = h2
  Self <- MCSelf
  Contacts <- MCContacts
  Reported <- MCReported
  Targets <- MCTargets
  BucketSize = 1
  Handlers = {h1, h2}
  Disabled = {"ping"}
  Count = 2
  MaxLearned = 2
  MaxSessions = 2
  MaxMessages = 3
SYMMETRY Symmetry
SPECIFICATION Spec
INVARIANTS BucketsWellFormed GoneAfterDisconnect ClosestOfStable
PROPERTIES OnlyDisconnectForgets
CHECK_DEADLOCK FALSE
