SPECIFICATION FairSpec
CONSTANTS
    SystemProfiles = {"us.gpt"}
    Application = {"arn.oss"}
    Foundations <- MCFoundations
    Underlying <- MCUnderlying
    Eligible = {"oss", "gpt"}
    OnDemand = {}
    Aliases <- MCAliases
    ChatEntry <- MCChatEntry
    ResponsesEntry <- MCResponsesEntry
    InRegion = {"converse", "oss", "gpt", "only"}
    Allowed = {"us.gpt", "arn.oss", "converse", "chained"}
    DefaultModel = "converse"
INVARIANTS
    TypeOK
    AdvertisedResolves
    RoutedByBackend
PROPERTIES
    ProfileLearned
