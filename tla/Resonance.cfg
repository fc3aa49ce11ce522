CONSTANTS
    r1 = r1
    r2 = r2
    ann = ann
    ben = ben
    Requests = {r1, r2}
    Users = {ann, ben}
    Admins = {ann}
    Answers = {"code", "config error", "transient error"}
    UserLimit = 1
    GlobalLimit = 3
    TestLimit = 1
    Window = 2
    ConfigThreshold = 2
    ConfigCooldown = 2
    TransientThreshold = 3
    TransientCooldown = 2
SPECIFICATION PartSpec
INVARIANTS
    GateKept
    ShareKept
PROPERTIES
    PausesAgain
