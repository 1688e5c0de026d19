\* One tab in which one user signs out and another one signs in.
SPECIFICATION Spec
CONSTANTS
  Tabs = {b1}
  Emails = {e1, e2}
  Requests = {r1}
  NoOne = NoOne
  MaxTokens = 2
INVARIANTS LibraryIsCallers
