SPECIFICATION FairSpec
CONSTANTS
  Reals = {0, 1, 5}
  Schedule_Default = 21
PROPERTIES
  CalendarReturns
  ManualValueHolds
