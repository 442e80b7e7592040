SPECIFICATION Spec
CONSTANTS
    U64_MAX = 40000
    MAX_VALUE_LENGTH = 20
    MAX_REASON_PHRASE_LEN = 3
    U16_MAX = 60
    MAX_NEW_SESSION_URI_LEN = 5
    Settings <- All
INVARIANTS
    NoFalseAlarm
    WaitsOnlyForMore
PROPERTY IsChannel
CHECK_DEADLOCK FALSE
