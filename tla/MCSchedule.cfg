CHECK_DEADLOCK FALSE
CONSTANTS
  west = west
  east = east
  t1 = t1
  Tx = {t1}
  Date <- MCDate
  NoDate = NoDate
  Zone = {west, east}
  DateOf <- MCDateOf
  UtcDateOf <- MCUtcDateOf
  Hours = {0, 1}
  Open <- MCOpen
  Day = 2
  Settings <- MCSettings
  MaxTime = 3
  MaxMishaps = 2
  MaxEdits = 1
SPECIFICATION Spec
INVARIANTS
  TypeOK
  DayIsSwept
PROPERTIES
  LapseIsWarned
