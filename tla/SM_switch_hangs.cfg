SPECIFICATION FairSpec
CONSTANTS
  cam = cam
  a = a
  b = b
  file = file
  Sources = {a, b}
  BuiltIn = cam
  KindsOf <- OwnKinds
  NoPath = {}
  Clients = {c1}
  Provider = provider
  Main = main
  MaxWorkers = 6
  None = None
  Ops = {"start"}
  ClientsLeave = FALSE
  MayShutDown = FALSE
  ReconnectEnabled = TRUE
  RetryForever = TRUE
CHECK_DEADLOCK FALSE
PROPERTIES SwitchCompletes
