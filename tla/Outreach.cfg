SPECIFICATION FairSpec
CONSTANTS
  Requests = {r1, r2}
  Senders = {s1, s2}
  Late = {r1}
  MaxPosts = 2
  r1 = r1
  r2 = r2
  s1 = s1
  s2 = s2
INVARIANT TypeOK
INVARIANT EmailedOnceUnlessReleased
INVARIANT RecordedIsSent
INVARIANT OneOpenSend
PROPERTY QueuedIsSettled
CHECK_DEADLOCK FALSE
