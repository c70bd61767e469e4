SPECIFICATION Spec
CONSTANTS
    Requests = {q1, q2}
    Releases <- TwoReleases
    Default = 1
    Configs <- TwoReleases
    MaxSlow = 0
SYMMETRY RequestSymmetry
INVARIANT ReturnedIsListed
CHECK_DEADLOCK FALSE
