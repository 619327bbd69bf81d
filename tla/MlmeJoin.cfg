SPECIFICATION FairSpec
CONSTANTS
  MaxRoam = 2
  RetryLimit = 1
  NumChan = 1
  Budget = 4
CHECK_DEADLOCK FALSE
CONSTRAINT Orderly
INVARIANT TypeOK
INVARIANT AttemptIsDriven
INVARIANT LinkedIsKnown
PROPERTY KernelAnswered
PROPERTY ScanAnswered
