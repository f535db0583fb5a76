SPECIFICATION Spec
CONSTANTS
  Fields <- TwoFields
  Shapes <- SomeShapes
INVARIANTS ArgvWins
CHECK_DEADLOCK FALSE
