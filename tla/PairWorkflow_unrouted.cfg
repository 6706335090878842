SPECIFICATION Spec
CONSTANTS
  MaxAttempts = 2
  MaxVersion = 3
  MaxJobs = 1
INVARIANT FailuresGoToReview
CHECK_DEADLOCK FALSE
