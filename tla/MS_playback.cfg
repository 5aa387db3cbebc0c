SPECIFICATION FairSpec
CONSTANTS
  Sources = {a}
  Clients = {client}
  Permits = 1
  StallAfter = 0
  StartupAfter = 0
  MaxAge = 1
  Faults = 1
  MayShutDown = TRUE
  None = None
CHECK_DEADLOCK FALSE
INVARIANTS TypeOK InStep  
  
