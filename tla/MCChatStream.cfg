SPECIFICATION FairSpec
CONSTANTS
    Blocks <- MCBlocks
    MaxFragments = 1
INVARIANTS
    TypeOK
    TagsSeparateReasoning
    CallsReassemble
    CapsuleCarriesReasoning
    UsageCountsReasoning
PROPERTIES
    WireHolds
    DoneFollowsEnd
CHECK_DEADLOCK FALSE
