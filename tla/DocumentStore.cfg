CONSTANTS
    Contents = {a, b, c}
    PublishIds = {p1, p2}
    MaxVersions = 3
    MaxOperations = 4
SPECIFICATION Spec
SYMMETRY Symmetry
INVARIANTS
    TypeOK
    CurrentIsSound
    WorkingIsNewest
    VersionDiffersFromBase
    PendingIsProjected
    PendingIsPublishable
    OnePublication
    EveryRevisionOnce
PROPERTIES
    PublishedIsFrozen
    NoCurrentIsForever
    EndsAreFinal
CHECK_DEADLOCK FALSE
