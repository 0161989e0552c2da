SPECIFICATION FairSpec
CONSTANTS
    Inputs = {"pause", "resume"}
    Lagging = {"NetworkPolicy"}
    MaxLag = 1
    MaxRequests = 2
    MaxFailures = 0
    MaxRestarts = 0
INVARIANTS TypeOK ReadyIsBacked
PROPERTIES ResumeConverges
