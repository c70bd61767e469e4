SPECIFICATION Spec
CONSTANTS
    Requests = {q1, q2, q3}
    Releases <- ThreeReleases
    Default = 1
    Configs <- TwoReleases
    MaxSlow = 0
SYMMETRY RequestSymmetry
INVARIANTS
    TypeOK
    ReadyIsComplete
    AnswerBacked
    OneBuilder
    KeyNamesReady
    MetadataListsReady
    PreviousBuildAnswers
PROPERTY ReadyStaysReady
CHECK_DEADLOCK FALSE
