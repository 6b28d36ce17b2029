SPECIFICATION Spec
CONSTANTS
  Employees = {e1}
  Jobs = {j1}
  Null = Null
  Sessions = {kiosk, phone}
  OfflineSessions = {phone}
  Editors = {}
  Patches <- NoPatches
  NewEntries <- NoNewEntries
  Undefined = Undefined
  Cron = cron
  AutoAfter = 2
  LunchPrompt = 2
  Lunch = 1
  OfflineMaxAge = 2
  MaxTime = 4
  MaxRows = 3
INVARIANT TypeOK
INVARIANT SnapshotCurrent
INVARIANT DurationMatches
INVARIANT ShiftContiguous
INVARIANT NoDoubleCounting
PROPERTY ClosedIsFinal
PROPERTY ImplementsShiftClock
CHECK_DEADLOCK FALSE
