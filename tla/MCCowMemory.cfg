CONSTANTS
  p1 = p1
  p2 = p2
  p3 = p3
  d1 = d1
  d2 = d2
  d3 = d3
  g1 = g1
  g2 = g2
  g3 = g3
  g4 = g4
  v0 = v0
  v1 = v1
  First = p1
  NoProc = NoProc
  NoDir = NoDir
  NoPage = NoPage
  Junk = Junk
  Val <- MCVal
  Zero = v0
  Pgdir <- MCPgdir
  Proc <- MCProc3
  Page <- MCPage4
  MaxPages = 2
  Deallocs <- MCChild
SYMMETRY MCSymmetry
SPECIFICATION Spec
INVARIANTS
  WritableIsExclusive
  NoDanglingPte
  RmapExact
PROPERTY
  PrivateSpec
CHECK_DEADLOCK FALSE
CONSTRAINT MCNarrow
