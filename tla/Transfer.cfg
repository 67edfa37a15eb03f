SPECIFICATION FairSpec
CONSTANTS
    Packets = 4
    SeqModulus = 2
    StartAttempts = 3
    PacketAttempts = 3
    MaxLost = 2
    MaxSent = 3
    MaxLate = 2
INVARIANTS TypeOK  AcksAreReal
PROPERTIES Delivers UpgradeEnds
\* An upgrade that has ended over a lost link does nothing more.
CHECK_DEADLOCK FALSE
