SPECIFICATION Spec
CONSTANTS
    Addresses <- MCAddresses
    Allowed <- MCAllowed
    Ids = {"ada", "ada-2"}
    Candidates <- MCCandidates
    Requests = {r1, r2}
    LinkTtl <- MCLinkTtl
    SessionTtl <- MCSessionTtl
    Window <- MCWindow
    MaxRequests <- MCMaxRequests
    MaxTime = 2
    MaxLinks = 3
    MaxSessions = 2
SYMMETRY Symmetry
INVARIANTS LinkSignsInOnce InboxIsBounded OffboardingEndsSessions
CHECK_DEADLOCK FALSE
