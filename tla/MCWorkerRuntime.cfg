SPECIFICATION RuntimeSpec
CONSTANTS
  o = o
  Callers <- OneOwner
  Ids <- SomeIds
  ActiveLimit = 2
  OutstandingLimit = 2
  Catalog <- SomeCatalog
  RequiredCaps <- SomeCaps
  Artifact <- SomeArtifacts
  ParentPolicy <- SomePolicy
INVARIANTS
  RunningInvocationPinned
  TablesAgree
PROPERTIES
  AwaitGetsOwnData
