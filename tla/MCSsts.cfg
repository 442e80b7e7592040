SPECIFICATION Spec
CONSTANTS
    Requests = {1, 2, 3}
    Tracks = {"low", "high", "other"}
    SetIds = {"A", "B"}
    DECISION_WINDOW = 1
    ABR_CHANNEL = 1
    U64_MAX = 63
    UPSHIFT_GOP_STREAK = 2
    COOLDOWN_HIGH_STREAK = 2
    Settings <- All
INVARIANTS
    OneTrackPerGroup
    CacheIsCurrent
    WaitingIsAsked
    SetsAgree
    AllocationIsSound
CHECK_DEADLOCK FALSE
