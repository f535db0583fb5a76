CONSTANTS
    TimeLimit = 1
    Redundancy = 2
    ChildSlack = 1
    RlimitCpu = 3
    MaxPre = 1
    MaxCpu = 4
    WallSlack = 0
SPECIFICATION FairSpec
PROPERTIES InstructionComes
CHECK_DEADLOCK FALSE
