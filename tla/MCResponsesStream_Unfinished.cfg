SPECIFICATION Spec
CONSTANTS
    LastBlock = 1
    ToolKinds = {"function", "shell"}
    StopReasons = {"end_turn", "max_tokens"}
    MaxFragments = 2
CHECK_DEADLOCK FALSE
INVARIANT
    UnfinishedNeverMarkedCompleted
