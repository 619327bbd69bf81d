SPECIFICATION FairSpec
CONSTANTS
  Sta = {s1}
  BMC = bmc
  NumAC = 2
  Uapsd = {{1}}
  PollAC = 2
  NR_XMITFRAME = 2
  U32 = 8
  None = none
CHECK_DEADLOCK FALSE
CONSTRAINT Undisturbed
PROPERTY GroupFrameLeaves
INVARIANT CountersExact
 
