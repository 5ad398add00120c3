\* Another process looks at a value without a version while it is replaced.
SPECIFICATION Spec
CONSTANTS
  Targets <- MCTargets
  Keys = {}
  NoKey = NoKey
  Requests <- MCRequests
  Readers = {p1}
  Idle = Idle
  NoReceipt = NoReceipt
  Unstamped = Unstamped
  Never = Never
  RetentionMs = 0
  PruneBatch = 1
  MaxNesting = 2
  MaxMinted = 4
  MaxCalls = 3
  MaxClock = 0
  AutoRollback = FALSE
INVARIANTS TokensStandForOneValue
