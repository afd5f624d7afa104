SPECIFICATION MCSpec
CONSTANTS
  c0 = c0
  c1 = c1
  None = None
  Stale = Stale
  proc1 = proc1
  proc2 = proc2
  Free = Free
  Cpu <- MCCpu
  Proc <- MCProc
  File <- MCFile
  Sizes <- MCSizes
  NBlock = 3
  BSIZE = 2
  NDIRECT = 1
  MaxChunk = 2
  NLock = 2
  Depth = 2
  MaxBrk = 13
  Chunk = 4
  Requests <- MCRequests
INVARIANTS
  LocksAreQuiet
  HeapPartition
  BitmapExact
  
PROPERTIES
  NoStarvation
  ShellWaits
  FileSpec
CHECK_DEADLOCK FALSE
