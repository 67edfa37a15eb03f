SPECIFICATION FairSpec
CONSTANTS
    UiOps <- UpgradeOps
    Slot = {s1}
    Old = {}
    MaxLeft = 0
    MaxQueue = 1
    ConnectAttempts = 1
INVARIANTS FirmwareOnlyEncrypted
PROPERTIES StopIsHonoured LostLinkIsLetGo
