\* Two connections, two goroutines.
CONSTANTS
  Conns = {c1, c2}
  Procs = {p1, p2}
  SiteCount = 1
SPECIFICATION Spec
INVARIANTS DeletedLeavesNothing
