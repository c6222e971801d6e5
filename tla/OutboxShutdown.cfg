CONSTANTS
    Events = {e1}
    MaxAttempts = {2}
    Lease = 1
    ErrorCodes = {"unknown_at_limit"}
    Backoffs = {1}
    BatchSize = 1
    MaxLag = 0
    OtherOps = {"claim"}
    MaxStops = 1
SPECIFICATION OutageSpec
PROPERTIES
    ShutdownReturns
