CONSTANTS
    Contents = {a, b}
    PublishIds = {p1, p2, p3}
    MaxVersions = 3
    MaxOperations = 3
SPECIFICATION Spec
SYMMETRY Symmetry
INVARIANT PendingIsPublishable
CHECK_DEADLOCK FALSE
