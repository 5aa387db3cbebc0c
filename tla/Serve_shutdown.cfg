SPECIFICATION FairSpec
CONSTANTS
  Helpers = {health, vision}
  Unbounded = {vision}
  Connections = {c1, c2}
INVARIANTS TypeOK CleanExit
PROPERTIES  InterruptExits
