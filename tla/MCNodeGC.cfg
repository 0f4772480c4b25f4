CONSTANTS
    NodeCapacity = 4
    ChildCapacity = 3
    PairCapacity = 2
    BuilderCapacity = 1
    GcInterval = 2
    ReturnInterval = 3
    Programs <- MCPrograms
    StackBound = 2
    GrowthBound = 8
SPECIFICATION Spec
INVARIANTS RootsIntact CompactionInvisible RefusedOnlyWhenFull
CHECK_DEADLOCK FALSE
