SPECIFICATION Spec
CONSTANTS
    StringInitial = 5
    StringStep = 4
    BytesInitial = 5
    BytesStep = 4
    Reuse = FALSE
    Programs <- MCCrowded
    StackBound = 2
    BlobCapacity = 2
    BlobBytes = 5
    MaxHandle = 3
    MapSlots = 2
    MapCapacity = 2
    Hash <- MCHash
INVARIANT ArgumentsAreLive
CHECK_DEADLOCK FALSE
