\* Two users who sign in and out in two tabs of one browser.
SPECIFICATION Spec
CONSTANTS
  Tabs = {b1, b2}
  Emails = {e1, e2}
  Requests = {r1, r2}
  NoOne = NoOne
  MaxTokens = 2
SYMMETRY Symmetry
PROPERTIES UserShown
