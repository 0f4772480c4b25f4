CONSTANTS
    Programs <- MCPrograms
    FunctionLength = 5
    ShortLength = 3
    Ints = {0, 1}
    StackInitial = 2
    StackStep = 1
    StackCapacity = 5
    FrameInitial = 1
    FrameStep = 1
    FrameCapacity = 3
    LocalsInitial = 1
    LocalsStep = 2
    LocalsCapacity = 4
    MaxArgs = 2
    Debugged <- MCDebugged
    Names <- MCNames
    Places = {4, 8, 11, 20}
    MaxBreakpoints = 2
    MaxMappings = 1
    Budgets = {0, 2, 20}
    CommandBound = 4
SPECIFICATION DebugSpec
INVARIANTS ChecksSilent BreakpointsStop
PROPERTIES ImplementsActivations StepsLand
CHECK_DEADLOCK FALSE
