SPECIFICATION Spec
CONSTANTS
    INLINE_BITS = 2
    WINDOW_BITS = 3
    RetainedChoices <- MCRetained
    Groups <- MCGroups
    Objects <- MCObjects
    MaxIngested = 5
INVARIANTS
    NoObjectLost
    ExactWithinBounds
PROPERTY NeverBackToOlderGroup
