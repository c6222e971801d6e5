CONSTANTS
    Contents = {a}
    PublishIds = {p1}
    MaxVersions = 1
    MaxOperations = 1
    Executors = {x1, x2}
    MaxFaults = 1
SPECIFICATION Spec
PROPERTIES
    DueScheduleEnds
