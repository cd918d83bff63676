SPECIFICATION PartSpec
CONSTANTS
    Tab = {t1, t2}
    MaxTokens = 3
    Ttl = 1
    MaxWrites = 2
    MaxReadies = 1
INVARIANTS
    AllTypesOK
    NoNeedlessRefusal
    StoredIsUsable
    LogoutRevokes
    
    
SYMMETRY Symmetry
CHECK_DEADLOCK FALSE
