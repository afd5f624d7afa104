SPECIFICATION RingsSpec
CONSTANTS
  p1 = p1
  p2 = p2
  p3 = p3
  b1 = b1
  b2 = b2
  char1 = char1
  char2 = char2
  NewLine = NewLine
  EndMark = EndMark
  None = None
  Proc <- MCProc
  Byte <- MCByte
  Strings <- MCStrings
  ReadSizes <- MCReadSizes
  first = p1
  PIPESIZE = 2
  Width = 4
  MaxFd = 2
  Letter <- MCLetter
  INPUT_BUF = 3
  IndexWidth = 6
  Reader <- MCReader
  Lengths <- MCLengths
SYMMETRY MCSymmetry
CONSTRAINT MCNarrow
CHECK_DEADLOCK FALSE
INVARIANTS
  EndsAgree
  SleepersWait
PROPERTIES
  BytesInOrder
  LineSpec
