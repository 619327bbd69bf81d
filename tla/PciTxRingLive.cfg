SPECIFICATION FairSpec
CONSTANTS
  be1 = be1
  be2 = be2
  hi = hi
  Ring = {1, 2, 3}
  Entries = 2
  Flow = {be1, hi}
  RingOf <- MCRingOf
  CheckedRing <- MCCheckedRing
  Mgnt = Mgnt
  MgntRing = 1
  DataBuf = {d1, d2}
  MgntBuf = {}
  Sender = {s1}
  Tasklet = Tasklet
  NoBuf = NoBuf
  MaxFrags = 1
  MaxFrames = 3
  MaxBlocks = 1
  MaxStops = 0
CHECK_DEADLOCK FALSE
PROPERTY PendingTaken
PROPERTY BufferReturns
INVARIANT NoStrandedFrame
