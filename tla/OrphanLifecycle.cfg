SPECIFICATION Spec
CONSTANTS
  Ports = {0, 1, 2}
  PortLists <- SmallPortLists
  Alleycat = {}
  Slingshot = {}
  Plain = {p1, p2}
  Bridges = {}
  Ssh = {}
  Guided = {}
  Disconnects = {}
  Restarts = {}
  Casts = {{p1, p2}}
  None = None
  MaxFlips = 0
CHECK_DEADLOCK FALSE
INVARIANTS
  Reachable
