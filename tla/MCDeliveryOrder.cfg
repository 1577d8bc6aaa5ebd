CONSTANTS
  Size = 2
  MaxNonce = 3
  Nil = Nil
  FrameLens = {1, 3}
  BufferSize = 2
  JobQueueSize = 1
SPECIFICATION FairSpec
INVARIANT DispatchedInOrder
CHECK_DEADLOCK FALSE
