SPECIFICATION FairSpec
CONSTANTS
  Devices = {a, b}
  Scenarios <- FaultlessAndFaults
CHECK_DEADLOCK FALSE
PROPERTIES
  NeverOlder
  
