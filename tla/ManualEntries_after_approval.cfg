SPECIFICATION ManualSpec
CONSTANTS
  Staff = {boss}
  Workers = {ann}
  Days = {mon}
  UtcDay <- OwnDay
  Jobs = {j1}
  TimeOff = {}
  Null = Null
  Mode = "allowed"
  SelfTimeOff = TRUE
  LastWeeks <- OneCell
  TimesheetRows = {"punch"}
  MaxRows = 2
PROPERTY ApprovedHoursStand
CHECK_DEADLOCK FALSE
