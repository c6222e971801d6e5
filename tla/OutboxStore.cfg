SPECIFICATION Spec
CONSTANTS
    Events = {e1, e2}
    Workers = {w1, w2}
    MaxAttempts = {1, 3}
    LegacyAttempts = {0, 1}
    Lease = 2
    ErrorCodes = {"indexing_failed", "unknown_at_limit"}
    Backoffs = {1}
    BatchSize = 2
    MaxLag = 1
    MaxRevision = 3
SYMMETRY Symmetry
INVARIANTS
    TypeOK
    AttemptsCountClaims
    AttemptBudget
    NewestClaimEnds
    LeaseOnNewestClaim
    ExhaustedIsUnknown
PROPERTIES
    EndIsFinal
    LimitIsPinned
    LegacyHoldsDelivery
