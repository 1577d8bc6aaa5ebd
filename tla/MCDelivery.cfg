CONSTANTS
  Size = 2
  MaxNonce = 3
  Nil = Nil
  FrameLens = {1, 3}
  BufferSize = 2
  JobQueueSize = 1
SPECIFICATION FairSpec
INVARIANTS TypeOK NeverDuplicated LossHasACause
PROPERTIES EventuallyDispatched WindowSpec
CHECK_DEADLOCK FALSE
