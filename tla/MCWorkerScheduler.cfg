SPECIFICATION FairSpec
CONSTANTS
  c1 = c1
  c2 = c2
  Callers <- TwoCallers
  Ids <- ThreeIds
  ActiveLimit = 2
  OutstandingLimit = 2
INVARIANTS
  TasksExclusive
  CreditMatchesSlots
  NoLostWakeup
  FreedWhenQuiet
PROPERTIES
  ImplementsTaskBoard
  
  StopTerminates
