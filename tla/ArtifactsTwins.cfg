\* Two writes under one deterministic id; no faults, and no time passes.
SPECIFICATION Spec
CONSTANTS
  Calls = {"c1", "c2"}
  Requests <- TwinRequests
  Artifacts = {"a", "s"}
  Objects = {"m", "o", "p"}
  Keys = {}
  Bytes = {"x"}
  None = None
  Stored <- MCStored
  Recorded <- MCRecorded
  LeaseTtlMs = 2
  AcquireAttempts = 2
  Faults = {}
  Fragile = {}
  Prompt = TRUE
  MaxClock = 0
INVARIANT RecordsHaveBytes
