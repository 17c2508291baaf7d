\* Two tabs and two components with two requests at a time each; a page and
\* the page that it leads to.
SPECIFICATION BrowserSpec
CONSTANTS
  None = None
  Countdown = 2
  MaxCalls = 2
  MaxVisits = 2
  Tabs = {t1, t2}
  Names = {n1}
  TTL = 1
  MaxRequests = 2
  MaxVersion = 1
  MaxTime = 2
  Hooks = {h1, h2}
  Immediate = {h1}
  Keys = {k1}
  Values = {v1}
  Absent = Absent
  Kept = Kept
  MaxInFlight = 2
INVARIANTS BrowserTypeOK OneRequestEach ServedIsRecent RefreshIsFresh AloneIsInSync SettledIsConfirmed
PROPERTIES ShellStays DiscoveryLoadingEnds SessionLoadingEnds PageSettlesHere ErrorLeadsAwayHere
CHECK_DEADLOCK FALSE
