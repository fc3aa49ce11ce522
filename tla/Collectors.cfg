CONSTANTS
    d1 = d1
    d2 = d2
    r1 = r1
    own = own
    metrics = metrics
    certs = certs
    Requests = {q1, q2}
    Devices = {d1, d2}
    Assignments <- Assigned
    Labels = {r1}
    Pipelines = {metrics, certs}
    LabelOf <- LabelsOf
    PipelineOf <- PipelinesOf
    Foreign = {own}
    Installed <- AtStart
    Partial = Partial
    Stumps <- CutOff
    None = None
    Never = Never
    SeenFor = 2
    FailFor = 3
SPECIFICATION Either
SYMMETRY Symmetric
INVARIANTS
    SyncedIsRunning
    ConfigKept
PROPERTIES
    RowRight
