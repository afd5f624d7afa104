SPECIFICATION Spec
CONSTANTS
  Button <- MCButton
  MaxQueue = 7
  None = None
  left = left
  middle = middle
INVARIANT ClicksArePrinted
CHECK_DEADLOCK FALSE
