SPECIFICATION Spec
CONSTANTS
    s1 = s1
    s2 = s2
    bob = bob
    g = g
    Session <- OneSession
    User <- MCUser
    Guild <- MCGuild
    Holder <- MCHolder
    Founders <- NoFounder
    BufSize = 2
    MaxEvents = 1
    Outages = FALSE
INVARIANT HearsEveryGuild
CHECK_DEADLOCK FALSE
