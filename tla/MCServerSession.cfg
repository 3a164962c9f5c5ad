SPECIFICATION FairSpec
CONSTANTS
  Runtimes = {codex, pi}
  Primary = codex
  Kinds = {codex, pi, other}
  Requests = {turnStart}
  OneWays = {approval}
  Shutdown = Shutdown
  None = None
  QueueCap = 1
  MaxAttempts = 2
  MaxBreaks = 2
INVARIANTS
  TypeOK
  ConnectingMeansTrying
  AllDeadMeansDisconnected
  ClosedIsQuiet
PROPERTIES
  ServiceRefined
  CallsSettle
  DisconnectCompletes
CHECK_DEADLOCK FALSE
