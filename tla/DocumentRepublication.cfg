CONSTANTS
    Contents = {a, b}
    PublishIds = {p1, p2}
    MaxVersions = 2
    MaxOperations = 2
    Executors = {x1}
    MaxFaults = 1
SPECIFICATION Safety
SYMMETRY Symmetry
INVARIANTS
    AnswersHold
PROPERTIES
    StoreSpec
