\* Two cases, run one at a time; each is violated.
\*   Settings <- OfFetch  INVARIANT UpdateIsAnswered
\*   Settings <- OfTorn   INVARIANT UpdateIsAnswered
SPECIFICATION Spec
CONSTANTS
    U64_MAX = 40000
    MAX_VALUE_LENGTH = 20
    MAX_REASON_PHRASE_LEN = 3
    U16_MAX = 60
    MAX_NEW_SESSION_URI_LEN = 5
    Settings <- OfFetch
INVARIANT UpdateIsAnswered
CHECK_DEADLOCK FALSE
