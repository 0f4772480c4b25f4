SPECIFICATION Spec
CONSTANTS
    MaxInstructions = 200
    MaxConstants = 12
    MaxLocals = 8
    MaxCallArgs = 3
    MaxFixups = 8
    MaxLoopDepth = 2
    MaxBranches = 2
    Word = 2
    Long = 3
    MaxSections = 2
    MaxStringBytes = 40
    Beyond = 1
    Sources <- MCSources
    Cuttable <- MCCuttable
    TextNames <- MCTextNames
    TextBytes <- MCTextBytes
    MaxSteps = 220
    Fuel = 9
INVARIANTS
    LoadsWholeOrNotAtAll
    ResultAsMeant
    CompiledRuns
CHECK_DEADLOCK FALSE
