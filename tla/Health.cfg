SPECIFICATION FairHealthSpec
CONSTANTS
  MaxSessions = 2
  r1 = r1
  AppRequests = {r1}
  Scenarios <- OneAtATime
CHECK_DEADLOCK FALSE
INVARIANTS
  SpeaksOnceMore
PROPERTIES
  HealthIsShown
  ReadersEnd
