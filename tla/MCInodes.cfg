SPECIFICATION Spec
CONSTANTS
  p1 = p1
  p2 = p2
  nd = nd
  nx = nx
  Free = Free
  None = None
  Proc <- MCProc
  Name <- MCName
  Calls <- MCCalls
  NInode = 3
  MaxLink = 2
SYMMETRY MCSymmetry
CHECK_DEADLOCK FALSE
INVARIANTS
  RefsExact
  
  NamesAreCounted
  DirectoryTree
PROPERTY
  RemovedWasEmpty
