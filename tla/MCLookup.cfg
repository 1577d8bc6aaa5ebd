CONSTANTS
  p1 = p1
  p2 = p2
  p3 = p3
  p4 = p4
  p5 = p5
  p6 = p6
  Peers = {p1, p2, p3, p4, p5, p6}
  Start <- MCStart
  Alpha = 2
  DisjointPaths = 2
  BucketSize = 4
  Answers <- MCAnswers
SPECIFICATION FairSpec
INVARIANTS AskedOnce QueriesBounded WaitCovers
PROPERTIES Terminates
CHECK_DEADLOCK FALSE
