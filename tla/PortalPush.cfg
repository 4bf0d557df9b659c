\* The push token of a browser, after its member has signed out there.
SPECIFICATION PortalSpec
CONSTANTS
  Nobody = Nobody
  Members = {ana, bor}
  Leaders = {ana}
  Admins = {bor}
  TwoStep = {ana}
  Tabs = {t1, t2}
  MaxCalls = 1
  MaxSessions = 2
  MaxExpiries = 1
  MaxMoves = 2
INVARIANT PushEndsAtSignOut
CHECK_DEADLOCK FALSE
