\* Windows of two days, two addresses and places, two records, one cleanup.
CONSTANTS
  Visitors = {v1}
  Addresses = {a1, a2}
  Places = {p1, p2}
  Overall = overall
  Requests = {q1}
  Cleaners = {c1}
  Timezones = {utc}
  LocalDate <- MCLocalDate
  DayLength = 1
  WindowChoices = {2}
  Policies <- Timed
  Batch = 2
  ForeignKeys = {TRUE}
  MaxClock = 2
  MaxRecords = 2
  MaxResets = 0
  MaxRules = 1
SPECIFICATION GeoSpec
INVARIANTS GeographyMatchesRecords GeoVisitorsCountedOnce RecordsRegistered
SYMMETRY MCSymmetry
