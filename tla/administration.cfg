\* Two requests, two timezones a day apart, two changes of window, one reset.
CONSTANTS
  west = west
  east = east
  Visitors = {v1}
  Addresses = {a1}
  Places = {p1}
  Overall = overall
  Requests = {q1, q2}
  Cleaners = {}
  Timezones = {west, east}
  LocalDate <- MCLocalDate
  DayLength = 1
  WindowChoices = {1, 2}
  Policies <- Timed
  Batch = 2
  ForeignKeys = {TRUE}
  MaxClock = 2
  MaxRecords = 2
  MaxResets = 1
  MaxRules = 3
SPECIFICATION Spec
INVARIANTS RecordsKeepTheirWindow OneTimezone ClearedStaysEmpty WindowStartIdentifies
SYMMETRY MCSymmetry
