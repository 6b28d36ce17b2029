SPECIFICATION Spec
CONSTANTS
  Users = {ann}
  Null = Null
  Page = page
  Drains = {d1, d2}
  Ops = {"clockIn"}
  MaxTaps = 2
PROPERTY KeptForLogin
CHECK_DEADLOCK FALSE
