CONSTANTS
  c1 = c1
  c2 = c2
  Calls = {c1, c2}
  Background = {c1}
  MaxSessions = 2
  MaxNonce = 2
  MaxReplies = 2
  None = None
SPECIFICATION FairSpec
INVARIANTS TypeOK TrackedWhileWaiting SameSessionReply
PROPERTIES NotMissed ExecutorFreed
CHECK_DEADLOCK FALSE
