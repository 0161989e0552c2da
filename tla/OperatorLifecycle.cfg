SPECIFICATION Spec
CONSTANTS
    Inputs = {"pause", "expire", "delete", "deadline"}
    Lagging = {}
    MaxLag = 1
    MaxRequests = 1
    MaxFailures = 1
    MaxRestarts = 1
INVARIANTS PausedIsLetGo ExpiredIsTornDown
PROPERTIES ImplementsLifecycle
