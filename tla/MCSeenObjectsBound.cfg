\* To be run by hand: the documented bound of the window is one id too wide.
SPECIFICATION Spec
CONSTANTS
    INLINE_BITS = 2
    WINDOW_BITS = 3
    RetainedChoices <- MCRetained
    Groups <- MCGroups
    Objects <- MCObjects
    MaxIngested = 5
INVARIANT ExactAsDocumented
