SPECIFICATION Spec
CONSTANTS
    Platforms = {android, ios}
    Uploaders = {android}
    Index = None
    asset = asset
    Order <- OneAsset
    Tags = {beta}
    NoTag = NoTag
    Contents = {c1, c2}
    None = None
    Torn = Torn
    Slots = {s1, s2}
    MaxVersion = 2
    MaxPackage = 2
    MaxCommands = 3
    MaxMishaps = 1
SYMMETRY Symmetry
INVARIANTS
    TypeOK
    LocalRecordsBacked
    PackageKeepsTag
    ServedAsPublished
    OrphanNeedsFault
PROPERTY
    ImplementsRegistry
CHECK_DEADLOCK FALSE
