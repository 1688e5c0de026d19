\* A panel that is closed and opened again.
SPECIFICATION Spec
CONSTANTS
  NoData = NoData
  MaxTurns = 1
  MaxOpens = 2
INVARIANTS HydratesPriorTurns
CHECK_DEADLOCK FALSE
