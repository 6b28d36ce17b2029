SPECIFICATION ManualSpec
CONSTANTS
  Staff = {boss}
  Workers = {ann}
  Days = {mon}
  UtcDay <- OwnDay
  Jobs = {j1}
  TimeOff = {}
  Null = Null
  Mode = "allowed"
  SelfTimeOff = TRUE
  LastWeeks <- TwoJobs
  TimesheetRows = {"punch"}
  MaxRows = 2
INVARIANT CopiesEveryCell
CHECK_DEADLOCK FALSE
