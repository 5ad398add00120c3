\* Receipts that expire and are pruned, with every kind of rollback.
SPECIFICATION Spec
CONSTANTS
  Targets <- MCOneTarget
  Keys = {k1, k2}
  NoKey = NoKey
  Requests <- MCReceiptRequests
  Readers = {p1}
  Idle = Idle
  NoReceipt = NoReceipt
  Unstamped = Unstamped
  Never = Never
  RetentionMs = 1
  PruneBatch = 1
  MaxNesting = 1
  MaxMinted = 2
  MaxCalls = 2
  MaxClock = 2
  AutoRollback = TRUE
INVARIANTS InForceMeansAnswered
PROPERTIES AppliedOncePerWindow
