CONSTANTS
    U64_MAX = 40000
    MAX_VALUE_LENGTH = 20
    MAX_REASON_PHRASE_LEN = 3
    Settings <- Streams
SPECIFICATION FilteredSpec
INVARIANTS
    TakerIsNotAhead
    AbortedForAReason
    DatagramsAsSent
    SameAfterAnotherHop
    FiltersMeanWhatWasAsked
PROPERTY IsChannel
CHECK_DEADLOCK FALSE
