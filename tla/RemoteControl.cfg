SPECIFICATION FairSpec
CONSTANTS
    Remotes = {r1, r2}
    MaxRequests = 2
CHECK_DEADLOCK FALSE
PROPERTIES
    ServiceFollowsOption
    RequestsAreServed
    QuitEnds

