SPECIFICATION Spec
CONSTANTS
  Helpers = {health, vision}
  Unbounded = {vision}
  Connections = {c1, c2}
INVARIANTS JoinsCleanly
