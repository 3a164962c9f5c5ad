SPECIFICATION ApprovalSpec
CONSTANTS
  Requests = {"q1", "q2", "q3"}
  ServerOf <- MCServerOf
  Questions = {"q2"}
  Calls = {"c1", "c2"}
  None = "none"
  Situations <- MCScenarios
CHECK_DEADLOCK FALSE
INVARIANTS
  AnswerIsForIt
PROPERTIES
  KeptWhileWaiting
  ShownThenCleared
