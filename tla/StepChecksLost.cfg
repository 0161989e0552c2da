SPECIFICATION Spec
CONSTANTS
    N = 2
    Pages = {p1}
    Calls = {k1, k2}
    None = None
    MaxJobs = 2
    MaxClock = 0
    MaxFailures = 0
    MaxStops = 0
INVARIANTS EachPassRecorded
