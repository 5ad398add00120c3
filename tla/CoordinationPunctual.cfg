SPECIFICATION FairSpec
CONSTANTS
  a1 = a1  a2 = a2  a3 = a3  b1 = b1  A = A  B = B
  Calls = {a1, a2, b1}
  Hosts = {A, B}
  HostOf <- MCHostOf
  Tokens = {t1}
  NoLease = NoLease
  None = None
  WaitMs = 1
  LeaseMs = 2
  RenewEveryMs = 1
  MinRetryMs = 1
  MaxRetryMs = 1
  MaxClock = 3
  ClockSettings = {}
  Punctual = {A}
  Faults = {"release"}
INVARIANTS NoLiveLeaseLeftBehind PunctualOwnerKeepsLease
PROPERTIES ImplementsFencedLock WaitersGiveUp LostOwnerIsTold
