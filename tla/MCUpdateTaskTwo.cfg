SPECIFICATION Spec
CONSTANTS
    w1 = w1
    w2 = w2
    r1 = r1
    Runner = Runner
    Saver = Saver
    Unset = Unset
    Waiters <- TwoWaiters
    Resources <- OneResource
    Replaced <- OneResource
    Releases <- PlainRelease
INVARIANTS ManifestsBacked FetchedGivenInPlace
PROPERTY DeathNeedsTakeOver
SYMMETRY WaiterSymmetry
CHECK_DEADLOCK FALSE
