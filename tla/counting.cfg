\* Two requests of one visitor at two places, one cleanup, one change of window.
CONSTANTS
  west = west
  east = east
  Visitors = {v1}
  Addresses = {a1}
  Places = {p1, p2}
  Overall = overall
  Requests = {q1, q2}
  Cleaners = {c1}
  Timezones = {west}
  LocalDate <- MCLocalDate
  DayLength = 1
  WindowChoices = {1, 2}
  Policies <- Timed
  Batch = 2
  ForeignKeys = {TRUE, FALSE}
  MaxClock = 2
  MaxRecords = 2
  MaxResets = 0
  MaxRules = 2
SPECIFICATION Spec
INVARIANTS UniqueVisitorsAreDistinct OpenWindowsRemembered DurableTotals
PROPERTIES RefinesLedger
SYMMETRY MCSymmetry
