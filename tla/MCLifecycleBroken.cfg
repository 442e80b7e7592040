\* Three cases, run one at a time; each is violated.
\*   Behaviours = {"close"}   INVARIANT OneResponse
\*   Behaviours = {"end"}     INVARIANT AcceptedIsServed
\*   Behaviours = {"cancel"}  INVARIANT NotLeftBehind
SPECIFICATION Spec
CONSTANTS
    r1 = r1
    r2 = r2
    r3 = r3
    p1 = p1
    p2 = p2
    Requests = {r1, r2}
    Publishers = {p1, p2}
    MaxTracks = 2
    Reliable = {}
    Behaviours = {"close"}
CHECK_DEADLOCK FALSE
INVARIANT OneResponse
