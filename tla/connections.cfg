\* Two connections, three goroutines: two ListSites fill the pool.
CONSTANTS
  Conns = {c1, c2}
  Procs = {p1, p2, p3}
  SiteCount = 1
SPECIFICATION FairSpec
PROPERTIES Completes
INVARIANTS ConnectionsAccounted SomebodyGoesOn
