\* Two chats at a time in one conversation, three questions.
SPECIFICATION Spec
CONSTANTS
  Threads = {c1}
  Requests = {r1, r2}
  Pages = {1}
  None = None
  MaxIterations = 2
  MaxTurns = 3
SYMMETRY Symmetry
INVARIANTS TypeOK ToolBudget ThreadIsPaired CitationsAreFounded
CHECK_DEADLOCK FALSE
