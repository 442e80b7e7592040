\* The last group asked for is partly back in the cache.  For a publisher that has
\* less than another had: Settings <- Behind, INVARIANT NoObjectDenied.
SPECIFICATION Spec
CONSTANTS
    a = a
    b = b
    Fetches = {a, b}
    LastGroup = 1
    LastObject = 1
    Settings <- Refilled
CHECK_DEADLOCK FALSE
INVARIANT EndNotShort
