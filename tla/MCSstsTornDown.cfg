\* Four cases, run one at a time; each is violated.
\*   Settings <- TornDown    INVARIANT NoneLeftWaiting
\*   Settings <- Again       INVARIANT AnswerCannotChange
\*   Settings <- Unfinished  INVARIANT DepthComesDown
\*   Settings <- LeftOpen    INVARIANT DepthComesDown
SPECIFICATION Spec
CONSTANTS
    Requests = {1, 2, 3}
    Tracks = {"low", "high", "other"}
    SetIds = {"A", "B"}
    DECISION_WINDOW = 1
    ABR_CHANNEL = 2
    U64_MAX = 63
    UPSHIFT_GOP_STREAK = 2
    COOLDOWN_HIGH_STREAK = 2
    Settings <- TornDown
INVARIANT NoneLeftWaiting
CHECK_DEADLOCK FALSE
