\* One worker that is killed, restarted, refused statements and outlives its lock.
SPECIFICATION Spec
CONSTANTS
  Jobs = {j1, j2}
  Workers = {w1}
  Nobody = Nobody
  NoJob = NoJob
  MaxAttempts = 3
  LockTtl = 1
  MaxRun = 3
  MaxCrashes = 2
  MaxFaults = 1
  AckLoss = FALSE
  MaxClock = 4
INVARIANTS Undisputed
