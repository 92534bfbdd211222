\* Two tabs, four kinds of browser facility, one more page load each.
CONSTANTS
  t1 = t1
  t2 = t2
  widget = widget
  map = map
  track = track
  stranger = stranger
  here = here
  query = query
  other = other
  Tabs = {t1, t2}
  Elements = {widget, map, track}
  KindOf <- MCKindOf
  EmbeddedIn <- MCEmbeddedIn
  Locations = {here, query, other}
  PathOf <- MCPathOf
  Asked <- MCAsked
  Reported <- MCReported
  Strangers = {stranger}
  MinSize <- MCMin
  MaxSize <- MCMax
  DefaultSize <- MCDefault
  MaxLoads = 1
SPECIFICATION Spec
INVARIANTS ReportedOnce OneIdentityPerLoad FewIdentities OwnFrameSizes
CHECK_DEADLOCK FALSE
