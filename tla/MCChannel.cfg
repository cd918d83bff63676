SPECIFICATION PartSpec
CONSTANTS
    User = {alice, bob}
    Owner = bob
    NoOne = NoOne
    Request = {r1, r2}
    Only = r1
    FewRows = 2
    BucketSize = 2
    Skew = 1
    CreatedAt = 2
    Limit = 2
    MaxTime = 3
    MaxMessages = 3
    Temp = {t1, t2}
    Text <- SameText
    Other = Other
    PageSize = 1
    MaxPosts = 3
    MaxWrites = 3
    FewWrites = 2
    Me = me
    Reader = {u1, u2}
    MaxReactions = 3
    MaxClicks = 2
    MaxPages = 1
    TYPING_THROTTLE = 16
    TYPING_TTL = 20
    Sweep = 2
    MaxDelay = 2
    MaxLines = 2
INVARIANTS
    AllTypesOK
    PagingComplete
    OwnWords
    
    SendsSettle
    ReactionsRight
    TypingRight
PROPERTY ShownStays
SYMMETRY Symmetry
CHECK_DEADLOCK FALSE
