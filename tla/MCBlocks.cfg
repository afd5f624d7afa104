SPECIFICATION BlocksSpec
CONSTANTS
  p1 = p1
  p2 = p2
  b1 = b1
  b2 = b2
  b3 = b3
  k1 = k1
  k2 = k2
  k3 = k3
  k4 = k4
  u1 = u1
  u2 = u2
  u3 = u3
  v0 = v0
  v1 = v1
  Free = Free
  None = None
  Proc <- MCProc
  Buf <- MCBuf
  Block <- MCBlock
  Val <- MCVal
  NPin = 1
  Logged <- MCLogged
  LogSize = 5
  NLog = 5
  MaxHeld = 2
SYMMETRY MCSymmetry
INVARIANTS
  OneBufferPerBlock
  
  SleeperHasHolder
  RequestIsQueued
  ChangesAreNamed
PROPERTY
  StoreSpec
