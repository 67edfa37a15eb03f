SPECIFICATION Spec
CONSTANTS
    Writer = {w1, w2}
    BitWrites <- OneRegister
    OtaJobs = {}
    Mishaps = {"lost", "late"}
SYMMETRY WriterSymmetry
INVARIANT ShownOutputIsReal
PROPERTIES ReplyAnswersRequest BitWritesAreAtomic
