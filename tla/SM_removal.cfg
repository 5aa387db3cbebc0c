SPECIFICATION Spec
CONSTANTS
  cam = cam
  a = a
  b = b
  file = file
  Sources = {a}
  BuiltIn = cam
  KindsOf <- ChangingKinds
  NoPath = {}
  Clients = {c1}
  Provider = provider
  Main = main
  MaxWorkers = 6
  None = None
  Ops = {"start", "stop", "remove", "add"}
  ClientsLeave = TRUE
  MayShutDown = FALSE
  ReconnectEnabled = TRUE
  RetryForever = TRUE
INVARIANTS TypeOK NoStrayWorker 
