\* Three messages from a panel that is opened three times.
SPECIFICATION FairSpec
CONSTANTS
  NoData = NoData
  MaxTurns = 3
  MaxOpens = 3
INVARIANTS TypeOK PanelIsHonest
PROPERTIES InSessionTurnsKept SendingEnds
CHECK_DEADLOCK FALSE
