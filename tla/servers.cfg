SPECIFICATION FairSpec
CONSTANTS
    ada = ada
    bob = bob
    ops = ops
    k1 = k1
    People = {ada, bob}
    ChannelIds = {}
    GroupIds = {ops}
    Accounts = {}
    Chats = {}
    Nobody = Nobody
    NoScope = NoScope
    SkillIds = {s1, s2}
    Names = {n1}
    Bodies = {b1, b2}
    NoSkill = NoSkill
    Gone = Gone
    Keys = {k1}
    NoKey = NoKey
    Processes = {p1, p2}
    Latest = 2
    Admin <- MCAdmin
    BootstrapKey <- MCBootstrapKey
    Ops = ops
    Invited = {bob}
    MaxRequests = 2
    MaxChanges = 1
    MaxCrashes = 1
INVARIANTS PublishedStaysVisible
PROPERTIES PublishedDoesNotChange RevokedStaysRevoked WritesAreEntitled EveryProcessComesUp
CHECK_DEADLOCK FALSE
