CONSTANTS
  b1 = b1
  b2 = b2
  b3 = b3
  v0 = v0
  v1 = v1
  Block <- MCBlock
  Val <- MCVal
  Zero = v0
  LogSize = 5
  NLog = 5
  MaxHeld = 2
SPECIFICATION Spec
SYMMETRY MCSymmetry
INVARIANTS
  RecoveryUndoes
