SPECIFICATION Spec
CONSTANTS
  Cap = 1
  MaxSent = 2
PROPERTY DirectlyConnected
CHECK_DEADLOCK FALSE
