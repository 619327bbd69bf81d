SPECIFICATION Spec
CONSTANTS
  Sta = {s1, s2}
  BMC = bmc
  NumAC = 1
  Uapsd = {{}}
  PollAC = 1
  NR_XMITFRAME = 2
  U32 = 8
  None = none
CHECK_DEADLOCK FALSE
SYMMETRY Symmetry
CONSTRAINT Undisturbed
INVARIANT TypeOK
 
