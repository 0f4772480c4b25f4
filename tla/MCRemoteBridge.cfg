CONSTANTS
    c1 = c1
    c2 = c2
    Clients = {c1, c2}
    Transports = {"ws", "stdio", "local", "denied"}
    AllowedCaps <- MCAllowed
    ServedCap <- MCServed
    Hellos <- MCHellos
    Calls <- MCCalls
    Damages <- MCDamages
    EchoOp <- MCEcho
    Name <- MCName
    Message <- MCMessage
    MaxCaps = 2
    MaxText = 2
    MaxErrorText = 2
    Capacity = 14
    LocalCapacity = 10
    IdModulus = 3
    Kinds <- MCKinds
    PingSizes = {1}
    LengthModulus = 4
    BufferPieces = 3
    FrameBound <- MCFrameBound
SPECIFICATION Spec
INVARIANTS GrantsAreOwn 
PROPERTY AnswersArrive
CHECK_DEADLOCK FALSE
