SPECIFICATION Spec
CONSTANTS
  Staff = {boss}
  Workers = {ann}
  Days = {mon}
  UtcDay <- OwnDay
  Jobs = {j1}
  TimeOff = {}
  Null = Null
  Mode = "override_only"
  SelfTimeOff = TRUE
  LastWeeks <- OneCell
  TimesheetRows = {"punch"}
  MaxRows = 3
  Owners = {e1, e2}
  c0 = c0
  c1 = c1
  GridCells = {c0, c1}
  Takes <- MCTakes
  MaxHours = 2
  MaxEntries = 2
  MaxPunched = 1
  MaxChanges = 3
  Values = {"one", "other"}
  MaxScreenEdits = 2
INVARIANT TypeOK
INVARIANT SupersedeLinks
INVARIANT YourChangesShow
PROPERTY NoTakeover
PROPERTY UndoRestoresEntries
PROPERTY SavesSpeakForTheirAuthor
CHECK_DEADLOCK FALSE
