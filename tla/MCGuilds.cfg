SPECIFICATION PartSpec
CONSTANTS
    User = {u1, u2}
    Guild = {1, 2}
    Channel = {1, 2}
    Code = {k1}
    MaxRequests = 4
    None = None
    Text = {2, 3}
    Voice = {1}
    Person = {4, 5}
    Home <- Homes
    Start <- Given
    Task = {t1, t2}
    MaxCalls = 3
    s1 = s1
    bob = bob
    lounge = lounge
INVARIANTS
    AllTypesOK
    RowsAgree
    ToldIsStored
    ListsAreRight
    SelectionFits
    
SYMMETRY Symmetry
CHECK_DEADLOCK FALSE
