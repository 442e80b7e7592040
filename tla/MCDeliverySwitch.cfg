\* Three cases, run one at a time; each is violated.
\*   Settings <- Overlapping  INVARIANT TracksMeet
\*   Settings <- SoftOnly     INVARIANT SoftWaitsToo
\*   Settings <- AtZero       INVARIANT ZeroCuts
SPECIFICATION Spec
CONSTANTS
    old = old
    new = new
    Subs = {old, new}
    Forwarding = {old}
    LastGroup = 1
    LastObject = 2
    Settings <- Overlapping
CHECK_DEADLOCK FALSE
INVARIANT TracksMeet
