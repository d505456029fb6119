SPECIFICATION FairSpec
CONSTANTS
    LastBlock = 1
    ToolKinds = {"function", "custom", "shell"}
    StopReasons = {"end_turn", "max_tokens"}
    MaxFragments = 2
CHECK_DEADLOCK FALSE
INVARIANTS
    TypeOK
    ExecutableOnlyWhenWhole
    FinalAgreesWithStream
    NoFragmentLostOrRepeated
PROPERTIES
    LifecycleHolds
    EveryStreamEnds
