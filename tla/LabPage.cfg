SPECIFICATION TabsSpec
CONSTANTS
    Polls = {k1, k2}
    MaxPauses = 1
    MaxFailures = 1
    MaxTabs = 3
INVARIANTS TabsTypeOK OneSetupTerminal OneShown ButtonsFollow
PROPERTIES GivesUpInformed PollingInforms LeavesAtDeadline
CHECK_DEADLOCK FALSE
