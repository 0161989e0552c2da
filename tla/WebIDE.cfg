SPECIFICATION IDESpec
CONSTANTS
    Dirs = {"root", "sub", "etc"}
    Nodes <- MCNodes
    Entries <- MCEntries
    TopEntries <- MCTopEntries
    RootNoise = {"run"}
    Home = "root"
    Loads = {l1, l2}
    None = None
    NoPath = NoPath
    MaxItems = 2
    Paths = {"a.yml", "b.yaml"}
    Requests = {r1, r2}
    MaxEdits = 1
    MaxFetches = 2
SYMMETRY Symmetry
INVARIANTS IDETypeOK FilesKeepTheirText ButtonComesBack UnmarkedIsSaved ListedOnce OwnEntries ActiveIsOpen MarkIsShown
