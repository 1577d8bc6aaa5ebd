CONSTANTS
  c1 = c1
  c2 = c2
  Calls = {c1, c2}
  Background = {c1}
  MaxSessions = 2
  MaxNonce = 2
  MaxReplies = 1
  None = None
SPECIFICATION FairSpec
INVARIANT ReplyMatches
CHECK_DEADLOCK FALSE
