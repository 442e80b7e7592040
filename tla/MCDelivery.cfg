SPECIFICATION Spec
CONSTANTS
    old = old
    new = new
    Subs = {old, new}
    Forwarding = {old}
    LastGroup = 1
    LastObject = 2
    Settings <- All
CHECK_DEADLOCK FALSE
INVARIANTS
    DecodedAsSent
    NoHole
    DoneCountsEveryStream
    StreamsFollowSubgroups
    SwitchLeavesOne
    EndedIsSilent
