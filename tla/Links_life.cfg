SPECIFICATION FairSpec
CONSTANTS
  l1 = l1
  l2 = l2
  s1 = s1
  s2 = s2
  s3 = s3
  Nil = Nil
  Links = {l1}
  Sessions = {s1, s2}
  MaxSessions = 1
INVARIANTS TypeOK TableFollowsHub AwaitedWereAsked
PROPERTIES SweptWereNotWelcomed SlotsAreFreed
CHECK_DEADLOCK FALSE
