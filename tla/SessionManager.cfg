SPECIFICATION CatalogSpec
CONSTANTS
    Clients = {c1, c2}
    Others = {c2}
    Ids = {i1, i2, i3, i4}
    Servers = {s1, s2}
    MaxActive = 2
    None = None
    Tabs = {t1}
    Requests = {r1}
SYMMETRY Symmetry
INVARIANTS CatalogTypeOK CapacityBound PerClientBound LedHome
