SPECIFICATION Spec
CONSTANTS
    v1 = v1
    v2 = v2
    d0 = d0
    None = None
    Versions <- MCVersions
    EditDirs <- MCEditDirs
    InputData <- d0
    MaxSteps = 5
    Offered <- MCOffered
INVARIANTS
    ChainConnected
    OrdersCoherent
    NamedCodeRuns
    AppliedIsNamed
    ResultIsBacked
PROPERTY ExecuteKeepsTrees
CHECK_DEADLOCK FALSE
