SPECIFICATION FairSpec
CONSTANTS
  cam = cam
  a = a
  b = b
  file = file
  Sources = {cam}
  BuiltIn = cam
  KindsOf <- OwnKinds
  NoPath = {}
  Clients = {c1}
  Provider = provider
  Main = main
  MaxWorkers = 6
  None = None
  Ops = {"start", "stop"}
  ClientsLeave = TRUE
  MayShutDown = TRUE
  ReconnectEnabled = TRUE
  RetryForever = FALSE
PROPERTIES FrameFlow 
