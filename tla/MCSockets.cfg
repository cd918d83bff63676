SPECIFICATION PartSpec
CONSTANTS
    s1 = s1
    s2 = s2
    g1 = g1
    g2 = g2
    Session <- MCSession
    Gateway <- MCGateway
    Home <- MCHome
    PresenceTTL = 7
    LivenessWindow = 12
    HeartbeatTimeout = 9
    CallTimeout = 1
    Conn = {c1, c2, c3}
    None = None
    MaxMounts = 2
    MaxFaults = 3
    Channel = {v1, v2}
    Caller = {call1, call2}
    Media = {"mic", "screen"}
    MaxRooms = 2
    MaxChanges = 1
INVARIANTS
    AllTypesOK
    NeverEvicted
    StatusMatchesMembers
    ReportsMatchMembers
    OneAttempt
    
    
PROPERTIES
    GhostsAgeOut
    ComesBack
CHECK_DEADLOCK FALSE
