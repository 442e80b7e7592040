SPECIFICATION Spec
CONSTANTS
    r1 = r1
    r2 = r2
    r3 = r3
    p1 = p1
    p2 = p2
    Requests = {r1, r2}
    Publishers = {p1}
    MaxTracks = 2
    Reliable = {}
    Behaviours = {"cancel", "end", "cache", "unsupported"}
SYMMETRY Symmetric
CHECK_DEADLOCK FALSE
INVARIANT UpstreamReleased
