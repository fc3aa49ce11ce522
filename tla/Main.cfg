CONSTANTS
    People = {}
    Loop = Loop
    Last = 1
    Down = Down
    Gone = Gone
    Script <- Files
    Needed <- StartUpTables
    Oldest = 2
    MaxCuts = 1
    Visitors = {v1, v2}
    Admins = {a1, a2}
    Tokens = {t1, t2}
    MaxAge = 1
    MaxFaults = 1
    None = None
SPECIFICATION EitherFair
INVARIANTS
    ServesComplete
    SchemaKept
PROPERTIES
    StartsUp
    LockHolds
    LockEnds
