CONSTANTS
  init = init
  p1 = p1
  p2 = p2
  p3 = p3
  c0 = c0
  c1 = c1
  Proc <- MCProc4
  Cpu <- MCCpu
  First = init
  Boot = c0
  NoProc = NoProc
  NoCpu = NoCpu
  Ticks = Ticks
SPECIFICATION Spec
INVARIANTS
  OneCpu
  StackKept
  SchedChecks
  NoLostWakeup
  WaiterIsTold
SYMMETRY MCSymmetry
CONSTRAINT MCNarrow
