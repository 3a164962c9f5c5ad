SPECIFICATION FairSpec
CONSTANTS
  o1 = o1
  o2 = o2
  lv = lv
  ab = ab
  cn = cn
  Threads = {t1, t2}
  Gone = {t2}
  Opens = {o1, o2}
  Leaves = {lv}
  Abandons = {ab}
  Connects = {cn}
  Scenarios <- FewAndMany
  None = None
  MaxBreaks = 2
CHECK_DEADLOCK FALSE
INVARIANTS
  MarkedIsHeard
PROPERTIES
  ListenersReturn
