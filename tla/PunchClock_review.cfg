SPECIFICATION FairSpec
CONSTANTS
  Employees = {e1}
  Jobs = {}
  Null = Null
  Sessions = {kiosk}
  OfflineSessions = {}
  Editors = {boss}
  Patches <- ReviewPatches
  NewEntries <- ForgottenHour
  Undefined = Undefined
  Cron = cron
  AutoAfter = 1
  LunchPrompt = 1
  Lunch = 1
  OfflineMaxAge = 2
  MaxTime = 2
  MaxRows = 2
PROPERTY NoShiftStaysOverdue
CHECK_DEADLOCK FALSE
