\* Three replicas of the worker that are killed, refused and late, all at once.
SPECIFICATION Spec
CONSTANTS
  Jobs = {j1}
  Workers = {w1, w2, w3}
  Nobody = Nobody
  NoJob = NoJob
  MaxAttempts = 2
  LockTtl = 1
  MaxRun = 3
  MaxCrashes = 1
  MaxFaults = 1
  AckLoss = TRUE
  MaxClock = 3
SYMMETRY Symmetry
INVARIANTS TypeOK HoldersAreExclusive RowsAddUp NeverGivenUpEarly
PROPERTIES SettledIsFinal ImplementsLedger
