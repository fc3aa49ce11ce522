CONSTANTS
    octets = octets
    errors = errors
    uptime = uptime
    traps = traps
    Tasks = {t1, t2}
    Series = {octets, traps}
    Known = {octets}
    Traps = {traps}
    Shapes <- SmallBatches
    RetentionSettings = {0, 1}
    Horizon = 2
    Chunk = 1
    Never = Never
    Charted = {octets, errors, uptime}
    Scoped = {octets, errors}
    Widths = {0, 2}
    DayLength = 2
    Ticks = 3
    PerSeries = 2
    Overall = 3
    Alerts = 1
    Devices = {}
    Interval = 1
    LongestSleep = 1
    Concurrency = 1
    None = None
SPECIFICATION Either
SYMMETRY Symmetric
INVARIANTS
    LatestKept
    ChartKept
PROPERTIES
    OldIsRemoved
