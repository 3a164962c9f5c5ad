SPECIFICATION FairSpec
CONSTANTS
  Handoffs = {h1, h2}
  Worlds <- AllWorlds
  MaxItems = 1
CHECK_DEADLOCK FALSE
INVARIANTS
  ToldOnce
  AnswerIsFinal
PROPERTIES
  HandoffEnds
