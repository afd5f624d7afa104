SPECIFICATION MCSpec
CONSTANTS
  v0 = v0
  v1 = v1
  NoProc = NoProc
  Proc <- MCProc
  First = 1
  NPage = 3
  FirstPage = 4
  NSlot = 3
  RssMod = 8
  MaxPages = 4
  Val <- MCVal
  Zero = v0

  
  
  
  
PROPERTY
  PrivateSpec
CHECK_DEADLOCK FALSE
