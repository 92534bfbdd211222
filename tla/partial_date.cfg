\* A refresh after some of a date's records have expired.
CONSTANTS
  Visitors = {v1}
  Addresses = {a1}
  Places = {p1}
  Overall = overall
  Requests = {q1}
  Cleaners = {c1}
  Timezones = {utc}
  LocalDate <- MCLocalDate
  DayLength = 2
  WindowChoices = {1}
  Policies <- Timed
  Batch = 1
  ForeignKeys = {TRUE}
  MaxClock = 3
  MaxRecords = 2
  MaxResets = 0
  MaxRules = 1
SPECIFICATION GeoSpec
INVARIANT DurableTotals
