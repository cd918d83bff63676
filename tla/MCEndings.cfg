SPECIFICATION PartSpec
CONSTANTS
    s1 = s1
    s2 = s2
    bob = bob
    g = g
    Session <- TwoSessions
    User <- MCUser
    Guild <- MCGuild
    Holder <- MCHolder
    Founders <- BobFounded
    BufSize = 1
    MaxEvents = 1
    Outages = FALSE
    None = None
    MaxMounts = 2
    Lightning = "lightning"
    Life <- MCLife
    MaxPlays = 3
INVARIANTS
    AllTypesOK
    ExitLeavesNobody
    ScreenRight
PROPERTIES
    ClosedSessionsEnd
    ShutdownCompletes
    EffectsEnd
CHECK_DEADLOCK FALSE
