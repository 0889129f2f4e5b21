SPECIFICATION FairSpec
CONSTANTS
    ann = ann
    bob = bob
    g1 = g1
    g2 = g2
    U1 = U1
    U2 = U2
    C = C
    D = D
    chanC = chanC
    chanD = chanD
    ops = ops
    People = {ann, bob, g1, g2}
    ChannelIds = {chanC, chanD, ops}
    GroupIds = {ops}
    Accounts = {U1, U2}
    Chats = {C, D}
    Nobody = Nobody
    NoScope = NoScope
    NoSession = NoSession
    Messages = {1, 2, 3}
    Said <- MCSaid
    Configured = {U1}
    ConfiguredAs <- MCConfiguredAs
    GuestOf <- MCGuestOf
    DerivedOf <- MCDerivedOf
    AllowedChats = {}
    Workers = {w1, w2}
    Replies <- MCReplies
    MaxChars = 4
    Top = Top
    Transports <- MCTransports
    Bindable <- MCBindable
    Linkable = {ann, bob}
    MaxTrouble = 2
INVARIANTS  OneSessionPerThread LossIsBounded PostsAreTheAnswer
PROPERTIES KindFollowsConfiguration 
CHECK_DEADLOCK FALSE
