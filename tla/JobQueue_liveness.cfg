SPECIFICATION FairSpec
CONSTANTS
  Jobs = {"build", "source"}
  PairJobs = {"build"}
  Workers = {w1}
  Required <- MCRequired
  Priority <- MCPriority
  EnvFlags = {"ingestion", "generation", "master_inbox"}
  MaxAttempts = 2
  Settings <- MCSettings
  MaxEpoch = 2
  MaxCrashes = 2
PROPERTY NoJobWaitsForever
