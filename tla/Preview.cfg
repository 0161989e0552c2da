SPECIFICATION Spec
CONSTANTS
    Paths = {"a", "b"}
    Steps = 2
    Checks <- MCChecks
    Saves = {w1}
    Verifies = {v1, v2}
    Runs = {r1, r2}
    None = None
SYMMETRY Symmetry
INVARIANTS TypedOnce SuccessIsEntered VerdictStands
