SPECIFICATION FairSpec
CONSTANTS
    MaxMessages = 3
    Window = 2
INVARIANTS RelayedInOrder ReportsNeverWait
PROPERTIES EndsTogether
