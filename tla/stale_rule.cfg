\* A Site without Pageviews whose window and timezone change twice.
CONSTANTS
  west = west
  east = east
  Visitors = {}
  Addresses = {}
  Places = {}
  Overall = overall
  Requests = {}
  Cleaners = {}
  Timezones = {west, east}
  LocalDate <- MCLocalDate
  DayLength = 2
  WindowChoices = {1, 2}
  Policies <- Timed
  Batch = 1
  ForeignKeys = {TRUE}
  MaxClock = 1
  MaxRecords = 0
  MaxResets = 0
  MaxRules = 3
SPECIFICATION Spec
INVARIANT SettingsPrevail
