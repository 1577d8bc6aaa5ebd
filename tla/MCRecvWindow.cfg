CONSTANTS
  Size = 3
  MaxNonce = 7
  Nil = Nil
SPECIFICATION WindowSpec
INVARIANTS WindowTypeOK PoppedAtMostOnce PoppedInOrder NothingLost
PROPERTY PopIsMaximal
CHECK_DEADLOCK FALSE
