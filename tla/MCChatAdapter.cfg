SPECIFICATION FairSpec
CONSTANTS
    MaxItems = 3
    MaxPieces = 2
    Styles <- MCStyles
INVARIANTS
    TypeOK
    ThinkSeparates
    StreamAgreesWithWhole
    VerdictBeforeDone
    ReplayFaithful
PROPERTIES
    WireHolds
    DoneFollowsEnd
CHECK_DEADLOCK FALSE
