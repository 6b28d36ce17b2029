SPECIFICATION Spec
CONSTANTS
  Employees = {e1}
  Jobs = {}
  Null = Null
  Sessions = {kiosk}
  OfflineSessions = {}
  Editors = {boss}
  Patches <- EarlierStart
  NewEntries <- NoNewEntries
  Undefined = Undefined
  Cron = cron
  AutoAfter = 2
  LunchPrompt = 2
  Lunch = 1
  OfflineMaxAge = 2
  MaxTime = 3
  MaxRows = 2
INVARIANT DurationMatches
CHECK_DEADLOCK FALSE
