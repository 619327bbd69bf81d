SPECIFICATION FairSpec
CONSTANTS
  NoCmd = NoCmd
  Cmd = {c1, c2}
  Waiter = {c1, c2}
  Allowed = {c1}
  NoHandler = {c2}
  Disconnect = {}
  MaxOpen = 1
  MaxIps = 1
CHECK_DEADLOCK FALSE
PROPERTY CommandHandled
PROPERTY WaitsEnd
