SPECIFICATION ManualSpec
CONSTANTS
  Staff = {boss}
  Workers = {ann}
  Days = {mon}
  UtcDay <- OwnDay
  Jobs = {j1}
  TimeOff = {}
  Null = Null
  Mode = "allowed"
  SelfTimeOff = TRUE
  LastWeeks <- OneCell
  TimesheetRows = {"punch", "manual"}
  MaxRows = 2
INVARIANT HiddenByLiveEntry
CHECK_DEADLOCK FALSE
