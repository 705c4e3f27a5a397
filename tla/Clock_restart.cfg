SPECIFICATION Spec
CONSTANTS
  DaysPerYear = 2
  MomentsPerDay = 2
  SetYears = {1999, 2000, 2099}
  PassYears = {2000, 2001, 2100}
  Epoch = 1970
INVARIANT
  TypeOK
PROPERTIES
  RestartKeepsTime
  DateThenTime
