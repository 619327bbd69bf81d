SPECIFICATION Spec
CONSTANTS
  be1 = be1
  be2 = be2
  hi = hi
  Ring = {1, 3}
  Entries = 3
  Flow = {be1}
  RingOf <- MCRingOf
  CheckedRing <- MCCheckedRing
  Mgnt = Mgnt
  MgntRing = 1
  DataBuf = {d1, d2, d3}
  MgntBuf = {m1, m2}
  Sender = {s1, s2}
  Tasklet = Tasklet
  NoBuf = NoBuf
  MaxFrags = 1
  MaxFrames = 4
  MaxBlocks = 0
  MaxStops = 2
CHECK_DEADLOCK FALSE
SYMMETRY Symmetry
INVARIANT DmaSafeBeforeStop
INVARIANT QlenExact
INVARIANT MgntNotDropped
INVARIANT OneOwner
