SPECIFICATION FairSpec
CONSTANTS
    Polls = {k1, k2}
    MaxPauses = 1
    MaxFailures = 0
PROPERTIES ResumeReconnects
CHECK_DEADLOCK FALSE
