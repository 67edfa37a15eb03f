SPECIFICATION FairSpec
CONSTANTS
    Writer = {w1}
    BitWrites = {}
    OtaJobs = {"Ble", "Http"}
    Mishaps = {"lost", "late"}
INVARIANTS TypeOK TransferIsAlone TlvDeviceReadAsTlv
PROPERTIES WritesEnd PollingResumes
