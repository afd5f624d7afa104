CONSTANTS
  p1 = p1
  p2 = p2
  b1 = b1
  b2 = b2
  v1 = v1
  v2 = v2
  Proc <- MCProc
  Block <- MCBlock
  Val <- MCVal
  Boot = Boot
  NoVal = NoVal
  NoBlock = NoBlock
  MaxOpBlocks = 4
  LogSize = 8
  NLog = 8
  OpBlocks = 2
SPECIFICATION LiveSpec
INVARIANTS
  SleeperHasWaker
  
PROPERTIES
  SleepersWake
  AtomicSpec
