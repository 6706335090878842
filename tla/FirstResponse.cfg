SPECIFICATION Spec
CONSTANTS
  m1 = m1
  m2 = m2
  c = c
  d = d
  a = a
  b = b
  Candidates = {c, d}
  Roles = {a, b}
  Messages = {m1, m2}
  Deliveries = {d1, d2}
  Matches <- MCMatches
  Readings <- MCReadings
  Direct = Direct
  Unknown = Unknown
  Added <- MCAdded
  MaxJobs = 2
INVARIANT TypeOK
INVARIANT AnnouncedOnce
INVARIANT UnresolvedIsShown
INVARIANT ClaimsLeadOn
PROPERTY OwnersCreate
PROPERTY RepliesAreSettled
CHECK_DEADLOCK FALSE
