\* One run over one document; it stops when it raises.
SPECIFICATION FairSpec
CONSTANTS
  a = a
  b = b
  Terms <- MCTerms
  Documents <- MCDocuments
  MaxPages = 4
  TopK = 2
  MaxWait = 4
  PollInterval = 2
  MaxDelay = 1
  MaxClock = 8
INVARIANTS AnalysisTypeOK ShortcutAgrees PagesAreHonoured
PROPERTIES SearchIsBest AnalysisEnds
CHECK_DEADLOCK FALSE
