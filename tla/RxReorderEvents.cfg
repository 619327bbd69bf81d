SPECIFICATION FairSpec
CONSTANTS
  SnSize = 16
  WSize = 2
  MaxGap = 2
  First = 14
  LastFrame = 17
  MaxRx = 5
  BadMpdus = {}
  Events = {"bar", "delba", "addba"}
CHECK_DEADLOCK FALSE
INVARIANT NoTwins
INVARIANT NothingStuck
PROPERTY PendingDrains
