\* Two tabs of one browser, a user, two sessions, two requests at a time.
SPECIFICATION FairSpec
CONSTANTS
  Tabs = {b1, b2}
  Emails = {e1}
  Requests = {r1, r2}
  NoOne = NoOne
  MaxTokens = 2
INVARIANTS TypeOK
PROPERTIES ValidTokenKept LoadingEnds
