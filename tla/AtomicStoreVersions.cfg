\* Version tokens through conflicting batches, nested rollbacks and crashes.
SPECIFICATION Spec
CONSTANTS
  Targets <- MCTargets
  Keys = {}
  NoKey = NoKey
  Requests <- MCRequests
  Readers = {}
  Idle = Idle
  NoReceipt = NoReceipt
  Unstamped = Unstamped
  Never = Never
  RetentionMs = 0
  PruneBatch = 1
  MaxNesting = 2
  MaxMinted = 4
  MaxCalls = 3
  MaxClock = 0
  AutoRollback = FALSE
INVARIANTS TypeOK TokensStandForOneValue OneWinnerPerVersion
