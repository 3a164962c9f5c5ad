SPECIFICATION FairStream
CONSTANTS
  MaxLines = 3
  Segments <- TooLargeThenSplit
  ServerLogs <- Logs
  MaxBreaks = 2
CHECK_DEADLOCK FALSE
INVARIANTS
  ClosedIsLast
PROPERTIES
  LinesCarried
  MessagesCarried
