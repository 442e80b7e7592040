CONSTANTS
    U64_MAX = 40000
    MAX_VALUE_LENGTH = 20
    MAX_REASON_PHRASE_LEN = 3
    Settings <- OneObject
SPECIFICATION FairSpec
PROPERTY EndIsSeen
CHECK_DEADLOCK FALSE
