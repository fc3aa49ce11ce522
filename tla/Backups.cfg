CONSTANTS
    Commits = 2
    Minutes = 3
    Counts = {1, 2}
    MaxFaults = 2
    Timer = Timer
    Button = Button
    Torn = Torn
    Bad = Bad
    None = None
    MaxRecords = 3
    MaxRows = 2
    Threads = {t1, t2}
    Reloads = {q1, q2}
    Last = 2
    MaxQueue = 1
SPECIFICATION EitherFair
INVARIANTS
    LogsKept
    LinesKept
PROPERTIES
    SnapshotsKept
    GoesOn
