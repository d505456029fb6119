SPECIFICATION Spec
CONSTANTS
    NumFrames = 2
    MaxLine = 3
    MaxFrame = 9
INVARIANTS
    TypeOK
    FramesInOrder
    EndsWithTerminal
    UsageRecorded
CHECK_DEADLOCK FALSE
