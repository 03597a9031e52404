SPECIFICATION Spec
CONSTANTS
    Runs <- MCRuns
    OrderOf <- MCOrderOf
    DataOf <- MCDataOf
    InputOf <- MCInputOf
    FunctionOf <- MCFunctionOf
    StructureOf <- MCStructureOf
    MaxFaults = 1
    MaxHitches = 1
    None = None
CHECK_DEADLOCK FALSE
INVARIANT NoFalseAlarm
INVARIANT AuditsAreSound
