SPECIFICATION FairSpec
CONSTANTS
  Notes = {n1, n2}
  Retired = {n2}
  Workers = {w1, w2}
  MaxToken = 2
  MaxDeletions = 1
INVARIANT TypeOK
INVARIANT AtMostOnePost
PROPERTY NoPostAboutDeletedCase
PROPERTY NoNoteIsForgotten
CHECK_DEADLOCK FALSE
