SPECIFICATION Spec
CONSTANTS
    UiOps <- LateOps
    Slot = {s1}
    Old = {o1}
    MaxLeft = 0
    MaxQueue = 1
    ConnectAttempts = 1
INVARIANTS TasksHaveSession
