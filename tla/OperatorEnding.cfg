SPECIFICATION FairSpec
CONSTANTS
    Inputs = {"pause", "expire", "delete", "deadline"}
    Lagging = {}
    MaxLag = 1
    MaxRequests = 1
    MaxFailures = 0
    MaxRestarts = 0
PROPERTIES PauseConverges ExpiryEnforced DeletionCompletes
