\* Three scenarios, every fault; the first call may die.
SPECIFICATION Spec
CONSTANTS
  Calls = {"c1", "c2", "c3"}
  Requests <- MCRequests
  Artifacts = {"a", "b", "s"}
  Objects = {"m", "n", "o", "p"}
  Keys = {"k"}
  Bytes = {"x"}
  None = None
  Stored <- MCStored
  Recorded <- MCRecorded
  LeaseTtlMs = 2
  AcquireAttempts = 2
  Faults = {"rejected", "indeterminate", "unknown", "delete"}
  Fragile = {"c1"}
  Prompt = TRUE
  MaxClock = 2
INVARIANTS TypeOK RecordsHaveBytes OneArtifactPerKey FailedWritesLeaveNothing
PROPERTY ImplementsObjectLeases
