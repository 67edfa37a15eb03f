SPECIFICATION FairSpec
CONSTANTS
    Ssid <- TwoNetworks
    First <- OldNetwork
    MaxApplies = 1
    MaxFaults = 1
INVARIANTS TypeOK NameWasGiven
PROPERTIES AttemptsEnd
