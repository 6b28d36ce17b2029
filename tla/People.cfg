SPECIFICATION Spec
CONSTANTS
  People = {u1, u2}
  Tabs = {u1, u2}
  Idp = idp
  Methods = {"magic_link", "sso"}
  MaxTokens = 3
  MaxCalls = 2
  AccessAdmins = {u1, u2}
  AccessGroupIds = {g1, g2}
  Roles = {1, 2}
  MaxIds = 2
  Staff = {e1, e2, e3}
  Pins = {1111, 2222, 3333}
  NoPin = 0
  PinClerks = {u1, u2}
  Reviewers = {u1, u2}
  Slots = {1, 2}
  MaxRequests = 2
  MaxRows = 2
  Roundings <- MCRoundings
  PeriodEnds = {5}
  Horizon = 7
  MaxShifts = 3
  Numbers = {n1, n2}
  NoNumber = none
  MaxAttempts = 1
  Patrons = {u1, u2}
  MaxRelease = 3
  SchemaAt <- MCSchemaAt
SYMMETRY MCSymmetry
INVARIANT TypeOK
INVARIANT OneLiveToken
INVARIANT SwitchedOffStaysOut
INVARIANT AccessFollowsGroups
INVARIANT AddedOnce
INVARIANT NothingCountedTwice
INVARIANT HomeIsClean
INVARIANT RestorePoint
CHECK_DEADLOCK FALSE
