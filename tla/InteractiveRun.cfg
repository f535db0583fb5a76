SPECIFICATION FairSpec
CONSTANTS
  Cap = 1
  MaxSent = 2
INVARIANTS TypeOK NothingLost NoSoloStart PipeBlameIsFair
PROPERTIES InteractorHears Returns
CHECK_DEADLOCK FALSE
