SPECIFICATION Spec
CONSTANTS
  NoCmd = NoCmd
  Cmd = {c1, c2, c3}
  Waiter = {c1, c2}
  Allowed = {c1}
  NoHandler = {}
  Disconnect = {c3}
  MaxOpen = 2
  MaxIps = 0
CHECK_DEADLOCK FALSE
 
 
INVARIANT AckMeansExecuted
INVARIANT NoLostWakeup
INVARIANT NoLeak
