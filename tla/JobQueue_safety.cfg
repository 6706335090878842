SPECIFICATION Spec
CONSTANTS
  Jobs = {"build", "source"}
  PairJobs = {"build"}
  Workers = {w1, w2}
  Required <- MCRequired
  Priority <- MCPriority
  EnvFlags = {"ingestion", "generation", "master_inbox"}
  MaxAttempts = 2
  Settings <- MCOnOff
  MaxEpoch = 2
  MaxCrashes = 0
INVARIANT TypeOK
INVARIANT LedgerMatchesJobs
PROPERTY WritesAreFenced
PROPERTY ImplementsFencedTask
SYMMETRY WorkerSymmetry
