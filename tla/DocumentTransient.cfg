CONSTANTS
    Contents = {a}
    PublishIds = {p1}
    MaxVersions = 1
    MaxOperations = 0
    Executors = {x1, x2}
    MaxFaults = 1
SPECIFICATION Safety
INVARIANTS
    TransientKeepsPending
