CONSTANTS
    d1 = d1
    d2 = d2
    c1 = c1
    r1 = r1
    r2 = r2
    NoSubject = NoSubject
    Devices = {d1}
    Collectors = {}
    Rules = {r1}
    Kind <- TrapOnly
    Scope <- Everywhere
    Silence <- OneTick
    Cooldown <- OneTick
    Retention = 1
    Horizon = 2
    Polled = {}
    d3 = d3
    k1 = k1
    org = org
    group = group
    sub = sub
    n1 = n1
    n2 = n2
    None = None
    Local = local
    Blank = Blank
    Unassigned = Unassigned
    Mask = Mask
    Requests = {q1, q2}
    Ids = {d1, d2, d3}
    Units = {org, group, sub}
    Credentials = {k1}
    Collecting = {local, far}
    Level <- UnitLevels
    Depth = 2
    Names = {Blank, Unassigned, n1, n2}
    Keys = {key}
    Rows <- Sent
    Asks <- Asked
    Files <- Started
    Pages = {}
    Section = {}
    Known = {}
    Secrets = {}
    Words = {}
    Default = Default
SPECIFICATION AnyFair
CHECK_DEADLOCK FALSE
INVARIANTS
    CooldownOfTraps
    TreeKept
PROPERTIES
    SilentIsAlerted
    AnsweringIsResolved
    ChangesKept
