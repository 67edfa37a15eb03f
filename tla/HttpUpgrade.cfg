SPECIFICATION FairSpec
CONSTANTS
    Chunks = 2
    Peers = {"Device", "Other"}
INVARIANTS TypeOK SuccessWasServed
PROPERTIES UpgradeEnds
\* An upgrade that has ended does nothing more, nor does its server.
CHECK_DEADLOCK FALSE
