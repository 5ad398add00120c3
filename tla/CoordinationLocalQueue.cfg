\* A third call finds the queue empty after a second one gave up.
SPECIFICATION Spec
CONSTANTS
  a1 = a1  a2 = a2  a3 = a3  b1 = b1  A = A  B = B
  Calls = {a1, a2, a3}
  Hosts = {A}
  HostOf <- MCHostOfOneProcess
  Tokens = {t1}
  NoLease = NoLease
  None = None
  WaitMs = 2
  LeaseMs = 2
  RenewEveryMs = 1
  MinRetryMs = 1
  MaxRetryMs = 1
  MaxClock = 4
  ClockSettings = {}
  Punctual = {}
  Faults = {}
INVARIANT OneAtATimeInAProcess
