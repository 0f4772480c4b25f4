SPECIFICATION Spec
CONSTANTS
    StringInitial = 5
    StringStep = 4
    BytesInitial = 5
    BytesStep = 4
    Reuse = FALSE
    Programs <- MCPrograms
    StackBound = 2
    BlobCapacity = 2
    BlobBytes = 5
    MaxHandle = 3
    MapSlots = 2
    MapCapacity = 2
    Hash <- MCHash
INVARIANTS
    RootsAreLive
    StringsRefusedOnlyWhenFull

    
CHECK_DEADLOCK FALSE
