SPECIFICATION PeriodSpec
CONSTANTS
  DayLength = 4
  Spring = 42
  Fall = 84
  LastDay = 110
  MonthStarts <- MCMonthStarts
  Calendars <- MCCalendars
INVARIANT PeriodContainsDate
