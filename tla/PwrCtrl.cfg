SPECIFICATION FairSpec
CONSTANTS
  Callers = {"scan", "ioctl"}
  Denying = {"scan"}
  MaxRequests = 3
  MaxSuspend = 1
CONSTRAINT Orderly
CHECK_DEADLOCK FALSE
INVARIANT TypeOK
INVARIANT PoweredWhileUsed
 
 
PROPERTY SuspendEnds
