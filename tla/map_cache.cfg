\* Three keys of two Sites, two requests, two handlers, room for two small maps.
CONSTANTS
  s1 = s1
  s2 = s2
  k1 = k1
  k2 = k2
  k3 = k3
  Sites = {s1, s2}
  Keys = {k1, k2, k3}
  SiteOf <- MCSiteOf
  Clients = {c1, c2}
  Handlers = {h1, h2}
  Sizes = {1, 2, 3}
  TTL = 1
  MaxBytes = 2
  MaxSiteEntries = 1
  MaxClock = 1
  MaxVersion <- MCMaxVersion
SPECIFICATION AnsweredSpec
INVARIANTS CacheIsCurrent CountersAgree LimitsHold
PROPERTIES RefinesService
SYMMETRY MCSymmetry
