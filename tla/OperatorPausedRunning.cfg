SPECIFICATION Spec
CONSTANTS
    Inputs = {"pause", "resume"}
    Lagging = {"Service", "NetworkPolicy"}
    MaxLag = 1
    MaxRequests = 3
    MaxFailures = 0
    MaxRestarts = 0
INVARIANTS PausedVMIsStopped
