SPECIFICATION FairSpec
CONSTANTS
    Parts <- TwoParts
    Peers = {"Match", "Prompt", "ClientRefuses", "DeviceRefuses", "Plain"}
    Resends = 5
    ResultResends = 7
    MaxLost = 2
INVARIANTS TypeOK OneAnswerKeysAgree PlaintextOnlyToPlain
PROPERTIES HandshakeEnds HandshakeSucceeds
CHECK_DEADLOCK FALSE
