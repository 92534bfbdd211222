\* A Site that moves west and counts its first visitor while a cleanup runs.
CONSTANTS
  west = west
  east = east
  Visitors = {v1}
  Addresses = {a1}
  Places = {p1}
  Overall = overall
  Requests = {q1}
  Cleaners = {c1}
  Timezones = {west, east}
  LocalDate <- MCLocalDate
  DayLength = 1
  WindowChoices = {1}
  Policies <- Timed
  Batch = 1
  ForeignKeys = {TRUE}
  MaxClock = 1
  MaxRecords = 1
  MaxResets = 0
  MaxRules = 1
SPECIFICATION Spec
INVARIANT UnfinishedWindowsRemembered
