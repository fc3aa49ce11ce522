CONSTANTS
    Requests = {q1, q2}
    Hub = hub
    People = {ann, bob, hub}
    Events = {1, 2}
    Rules = {1}
    Devices = {1}
    RuleOf <- FiredBy
    LevelSettings <- Saved
    Declared = {"getSnmpSummary", "listDevices", "listAlertEvents", "listAlertRules", "ackAlertEvent", "ackAllAlertEvents", "toggleAlertRule"}
    Size <- Bytes
    Budget = 2
    PageSize = 2
    MaxChanges = 1
SPECIFICATION Spec
CHECK_DEADLOCK FALSE
SYMMETRY Symmetric
INVARIANTS
    AcksComplete
PROPERTIES
    WritesTrusted
    AnswersRight
