SPECIFICATION FairSpec
CONSTANTS
    Register <- AllRegisters
    Holds <- Contents
    FirstLists <- TwoTabs
    Menu <- Choices
    MaxEdits = 1
    MaxFaults = 1
INVARIANTS TypeOK ResultsStayOnTheirList
PROPERTIES CardsSettle
