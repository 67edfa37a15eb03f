SPECIFICATION FairSpec
CONSTANTS
    A = A
    B = B
    Pages <- MCPages
    Layouts <- MCLayouts
    HeaderLen = 2
    Room = 4
    MaxClaim = 2
    MaxLost = 1
    MaxLate = 2
INVARIANTS
    TypeOK
    ReadIsOnePage
PROPERTIES
    ReadsRecover
