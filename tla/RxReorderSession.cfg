SPECIFICATION Spec
CONSTANTS
  SnSize = 16
  WSize = 3
  MaxGap = 2
  First = 13
  LastFrame = 18
  MaxRx = 6
  BadMpdus = {16}
  Events = {"stop", "free"}
CHECK_DEADLOCK FALSE
PROPERTY LossExact
PROPERTY DeliversInOrder
