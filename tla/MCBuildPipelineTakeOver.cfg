SPECIFICATION Spec
CONSTANTS
    Requests = {q1, q2, q3}
    Releases <- TwoReleases
    Default = 1
    Configs <- LastRelease
    MaxSlow = 1
SYMMETRY RequestSymmetry
INVARIANT OneReleasePerVersion
CHECK_DEADLOCK FALSE
