SPECIFICATION ListSpec
CONSTANTS
  N = 3
  Runtimes = {"codex", "pi"}
  RuntimeOf <- MCRuntimeOf
  Default = "codex"
  Polls = {"poll"}
  Drains = {"drain"}
  Limited = {"page"}
  Tools = {"tool"}
  Courses <- AllScenarios
CHECK_DEADLOCK FALSE

  
PROPERTIES
  OnlyStalePruned
  StoreFollows
