SPECIFICATION Spec
CONSTANTS
    N = 2
    Pages = {p1}
    Calls = {k1, k2}
    None = None
    MaxJobs = 2
    MaxClock = 1
    MaxFailures = 1
    MaxStops = 1
    Names = {"customer", "scenario", "none"}
    Listings <- MCListings
SYMMETRY Symmetry
INVARIANTS TypeOK RecordedOnce RecordedInTime RecordedPassed RowShowsFurthest GraduatesPassedAll
