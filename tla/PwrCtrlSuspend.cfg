SPECIFICATION Spec
CONSTANTS
  Callers = {"scan", "ioctl"}
  Denying = {"scan"}
  MaxRequests = 1
  MaxSuspend = 1
INVARIANT NotSuspendedInIps
CHECK_DEADLOCK FALSE
