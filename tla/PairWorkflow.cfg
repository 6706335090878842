SPECIFICATION FairSpec
CONSTANTS
  MaxAttempts = 2
  MaxVersion = 3
  MaxJobs = 2
INVARIANT TypeOK
INVARIANT TablesAgree
INVARIANT DeletedCaseIsRestorable
PROPERTY PublishesWhatWasAsked
PROPERTY WorkersDecideNothing
PROPERTY ProvenStaysProven
PROPERTY GenerationsEnd
CHECK_DEADLOCK FALSE
