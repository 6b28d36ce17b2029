SPECIFICATION ApplianceSpec
CONSTANTS
  Accounts = {a1}
  Visitors = {v1, v2, v3}
  LinkLimit = 1
  PoolSize = 3
  MaxLinks = 2
  Screens = {s1, s2}
  PinOwners = {e1}
  BadPinLimit = 2
  MaxCodes = 2
  MaxDevices = 2
  b1 = b1
  b2 = b2
  Bearers = {b1, b2}
  Printers = {p1, p2}
  Sheets <- MCSheets
  MaxVersion = 2
  Wizards = {w1, w2}
  MaxSuperAdmins = 3
  Workers = {w1, w2}
  Reminded = {e1, e2}
  ReminderMax = 1
  ReminderDays = 2
  Exporters = {x1, x2}
  MaxExports = 3
  DayLength = 4
  Spring = 42
  Fall = 84
  LastDay = 110
  MonthStarts <- MCMonthStarts
  Calendars <- MCCalendars
  Operators = {o1, o2}
  Users = {ann}
  Null = Null
  Page = page
  Drains = {d1, d2}
  Ops = {"clockIn"}
  MaxTaps = 2
INVARIANT ApplianceTypeOK
INVARIANT ReplayedInTurn
INVARIANT LinkUsedBySession
INVARIANT OneDevicePerCode
INVARIANT BadPinsBounded
INVARIANT CardsAreNew
INVARIANT SetUpOnce
INVARIANT RemindersBounded
INVARIANT OneExportInForce
INVARIANT UpdateServed
PROPERTY OpeningAnswered
PROPERTY DrainsEnd
PROPERTY PeriodsTile
CHECK_DEADLOCK FALSE
