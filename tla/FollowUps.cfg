SPECIFICATION FairSpec
CONSTANTS
  m1 = m1
  m2 = m2
  b1 = b1
  k1 = k1
  k2 = k2
  Messages = {m1, m2, b1}
  Bare = {b1}
  Taps = {k1, k2}
  Deleter = Deleter
  Listener = Listener
  Scenarios <- Met
  UserItems = 2
  MaxTurns = 3
CHECK_DEADLOCK FALSE
INVARIANTS
  MessageOnce
  NoDoubleBubble
PROPERTIES
  HeadIsSent
