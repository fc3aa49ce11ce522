CONSTANTS
    People = {p1}
    Loop = Loop
    Last = 3
    MaxFaults = 2
    Down = Down
    Gone = Gone
    None = None
SPECIFICATION FairSpec
INVARIANTS
    DiskKept
PROPERTIES
    NowIsNewer
    UpdatesArrive
