SPECIFICATION Spec
CONSTANTS
  Fields <- TwoFields
  Shapes <- SomeShapes
INVARIANTS TypeOK Overlaid FailsOnlyMixed
CHECK_DEADLOCK FALSE
