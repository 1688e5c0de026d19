\* Two requests at a time over one document and two conversations.
SPECIFICATION Spec
CONSTANTS
  Pdfs = {p1}
  Convs = {c1, c2}
  Requests = {r1, r2}
  None = None
  MaxTurns = 2
  MaxFaults = 1
SYMMETRY Symmetry
INVARIANTS TypeOK AckedIsStored BlobLeaksOnlyByFault MemoryDiesWithConversation HistoryKeepsAnswers
PROPERTIES RenameIsKept
CHECK_DEADLOCK FALSE
