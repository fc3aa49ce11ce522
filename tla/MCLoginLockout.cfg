CONSTANTS
    Requests = {r1, r2}
    Users = {bob}
    NoUser = nobody
    Addresses = {a1}
    Passwords = {p1, p2}
    NoPassword = null
    TooShort = short
    Limit = 2
    LockTime = 1
    AddressLimit = 3
    Window = 2
    BlockTime = 1
SPECIFICATION Spec
SYMMETRY Symmetric
INVARIANTS
    LockoutKept
PROPERTIES
    ForgivenKept
    GuessBudgetKept
