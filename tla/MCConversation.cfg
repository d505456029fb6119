SPECIFICATION Spec
CONSTANTS
    Models <- MCModels
    Options <- MCOptions
    Keyrings <- MCKeyrings
    Setting <- MCSetting
    Shapes <- MCShapes
    MaxAsks = 2
    MaxReplies = 2
    MaxSurprises = 1
INVARIANTS
    TypeOK
    SignedTurnsIntact
    ResultsFollowCalls
    CheckpointBudget
    InferenceFits
    ReplayAccepted
PROPERTIES
    PrefixStable
CHECK_DEADLOCK FALSE
