SPECIFICATION Either
SYMMETRY Symmetric
CONSTANTS
    d1 = d1
    d2 = d2
    c1 = c1
    r1 = r1
    r2 = r2
    NoSubject = NoSubject
    Devices = {d1}
    Collectors = {}
    Rules = {r1, r2}
    Kind <- DownAndLevel
    Scope <- Everywhere
    Silence <- OneTick
    Cooldown <- OneTick
    Retention = 1
    Horizon = 2
    Polled = {d1}
    Pages = {a1, a2}
    Section = {plain, secret}
    Known = {plain, secret}
    Secrets = {secret}
    Words = {w1}
    Default = Default
    Mask = Mask
    None = None
INVARIANTS
    AlertsKept
    FormKept
PROPERTIES
    ResolvedByReport
    FiredShowsDown
    TypedIsSaved
