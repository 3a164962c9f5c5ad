SPECIFICATION FairSpec
CONSTANTS
  Ports = {0, 1, 2}
  PortLists <- SmallPortLists
  Alleycat = {a1, a2}
  Slingshot = {sl}
  Plain = {pl}
  Bridges = {br}
  Ssh = {sh}
  Guided = {gd}
  Disconnects = {d1}
  Restarts = {r1}
  Casts <- GatedAndMixed
  None = None
  MaxFlips = 2
CHECK_DEADLOCK FALSE
INVARIANTS
  TypeOK
  NoOrphan
  MappedIsOpen
  DisconnectHolds
  ProgressHasOwner
PROPERTIES
  CallsReturn
