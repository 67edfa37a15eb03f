SPECIFICATION Spec
CONSTANTS
    Writer = {w1}
    BitWrites <- TwoRegisters
    OtaJobs = {}
    Mishaps = {"late"}
PROPERTY BitWriteChangesOneBit
