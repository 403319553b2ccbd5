SPECIFICATION Spec
CONSTANTS
    Connections = {c1, c2}
    NoConnection = NoConnection
    MaxChannelCount = 2
    MaxChannelLifetime = 1
    MaxSessionCount = 1
    MaxSessionLifeTime = 1
    RequestedLifetimes = {0}
    RequestedTimeouts <- Timeouts
    OneIssue = TRUE
    ChannelIdBound = 3
    TokenIdBound = 3
    SessionIdBound = 1
    TimeBound = 2
INVARIANTS
    TypeOK
    LinkInv
    ChannelsOfConnection
PROPERTIES
    NoLateAttach
    SessionsSurviveChannels
    Reclaimed
