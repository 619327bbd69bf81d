SPECIFICATION Spec
CONSTANTS
  N = 3
  TagMod = 4
  NumFrames = 4
  Encrypted = {1, 2, 3, 4}
  MaxFrames = 4
  MaxRestart = 1
CONSTRAINT Orderly
INVARIANT TypeOK
INVARIANT RightFrame
INVARIANT PoolConserved
 
INVARIANT NoLostInterrupt
PROPERTY EncryptedInOrder
