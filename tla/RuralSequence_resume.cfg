CONSTANTS
    NumCommunities = 5
    Links <- MCLinks
    Townward <- MCTownward
    Dominates <- MCDominates
    InexactEntry <- MCInexactEntry
    InexactLength <- MCInexactLength
    Marker = Marker
    NoAnswer = NoAnswer
    NoOffer = NoOffer
    NoDecision = NoDecision
    Settings <- MCSettings
    MaxCrashes = 2
    MaxForks = 1
SPECIFICATION FairSpec
INVARIANTS
    TypeOK
    NothingDisagrees
    PlannerFollowsHistory
    AccessReachesSpine
    EveryCommunityOnce
    GapsAreUnreachable
PROPERTY RunEnds
