SPECIFICATION Spec
CONSTANTS
    s1 = s1
    s2 = s2
    g1 = g1
    g2 = g2
    Session <- MCSession
    Gateway <- MCGateway
    Home <- MCHome
    PresenceTTL = 7
    LivenessWindow = 12
    HeartbeatTimeout = 9
    CallTimeout = 1
CONSTRAINT NothingFailed
INVARIANTS
    TransitionsCorrect
