SPECIFICATION DashboardSpec
CONSTANTS
    a = a
    a2 = a2
    b = b
    broad = broad
    narrow = narrow
    Files = {a, a2, b}
    PathOf <- MCPathOf
    FilesOf <- MCFilesOf
    Targets = {broad, narrow}
    Broad = broad
    Narrow = narrow
    Pasts <- MCPasts
    Bodies <- MCBodies
    Extras = {a2}
    Percents = {"some"}
    Slots = {s1, s2}
    None = None
    MaxReleases = 3
    MaxSpent = 4
    FormCost = 3
    MayFail = TRUE
    c1 = c1
    g = g
    h = h
    k = k
    dim1 = dim1
    dim2 = dim2
    Dims = {dim1, dim2}
    First = dim1
    Names = {c1, g, h, k}
    Otherwise = Otherwise
    DefaultKey = DefaultKey
    Values = {1, 2, 3}
    Kinds = {"version", "string"}
    Rank <- MCRank
    Additions <- MCAdditions
    ApiMaps <- MCApiMaps
    Starts <- MCStarts
    Workers = {s1, s2}
    CallsMayFail = TRUE
    MaxChanges = 2
SYMMETRY MCSymmetry
INVARIANTS
    TypeOK
    ServedSplitsPackage
    SplitsComplete
    OngoingDistinct
    CohortsSafe
PROPERTIES
    RevertRestores
    PatchKeepsPackage
CHECK_DEADLOCK FALSE
