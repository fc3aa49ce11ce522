CONSTANTS
    Devices = {d1, d2}
    Interval = 1
    LongestSleep = 1
    Concurrency = 1
    None = None
SPECIFICATION FairSpec
INVARIANTS
    RoundsKept
PROPERTIES
    PollsAreSpaced
    PolledAsEnabled
