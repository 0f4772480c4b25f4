SPECIFICATION FairSpec
CONSTANTS
    AsyncCapacity = 3
    HandleCapacity = 1
    Limit = 3
    MaxLen = 2
    MaxStarts = 3
INVARIANTS SocketsOwnedOnce DeliversOwnConnection WritesAreWhole
PROPERTIES OutcomeFinal
  ConnectsSettle
