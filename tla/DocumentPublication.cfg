CONSTANTS
    Contents = {a, b}
    PublishIds = {p1}
    MaxVersions = 1
    MaxOperations = 1
    Executors = {x1, x2}
    MaxFaults = 2
SPECIFICATION Safety
SYMMETRY Symmetry
INVARIANTS
    TypeOK
    AnswersHold
PROPERTIES
    StoreSpec
    PublishedWhileGranted
