SPECIFICATION FairSpec
CONSTANTS
    UiOps <- LinkOps
    Slot = {}
    Old = {o1}
    MaxLeft = 1
    MaxQueue = 2
    ConnectAttempts = 4
INVARIANTS
    TypeOK
    NoGattLeak
    ShownConnectedIsHeld
    EncryptedIsReal
PROPERTIES
    UsesLinkInTurn
    WorkerReturns
