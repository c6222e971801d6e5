CONSTANTS
    Events = {e1}
    MaxAttempts = {2}
    Lease = 1
    ErrorCodes = {"indexing_failed", "unknown_at_limit"}
    Backoffs = {1}
    BatchSize = 1
    MaxLag = 0
    OtherOps = {"claim", "renew", "settle", "reap"}
    MaxStops = 1
SPECIFICATION Safety
INVARIANTS
    TypeOK
    HonestSummary
    NoCallAfterSummary
    SummaryAddsUp
    EndsAsDecided
