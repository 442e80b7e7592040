\* Two cases, run one at a time; each is violated.
\*   Behaviours = {"disconnect"}  PROPERTY UpstreamEnds
\*   Behaviours = {}              PROPERTY EveryoneAnswered
SPECIFICATION FairSpec
CONSTANTS
    r1 = r1
    r2 = r2
    r3 = r3
    p1 = p1
    p2 = p2
    Requests = {r1, r2}
    Publishers = {p1}
    MaxTracks = 1
    Reliable = {}
    Behaviours = {"disconnect"}
CHECK_DEADLOCK FALSE
PROPERTY UpstreamEnds
