CONSTANTS
    Events = {e1, e2}
    MaxAttempts = {1}
    Lease = 1
    ErrorCodes = {"indexing_failed", "unknown_at_limit"}
    Backoffs = {1}
    BatchSize = 2
    MaxLag = 0
    OtherOps = {}
    MaxStops = 1
SPECIFICATION Safety
SYMMETRY Symmetry
INVARIANTS
    HonestSummary
    NoCallAfterSummary
    SummaryAddsUp
