SPECIFICATION FairSpec
CONSTANTS
    r1 = r1
    r2 = r2
    r3 = r3
    rejecting = rejecting
    sibling = sibling
    supporting = supporting
    k1 = k1
    k2 = k2
    Requests <- MCRequests
    Models <- MCModels
    Keys <- MCKeys
    KeyOf <- MCKeyOf
    Rejecting <- MCRejecting
CHECK_DEADLOCK FALSE
INVARIANTS
    TypeOK
    MarksAreEarned
    RejectionHealed
    OnlyInFlightRelapse
PROPERTIES
    EveryRequestEnds
