-------------------------- MODULE MCTrackLifecycle --------------------------
EXTENDS TrackLifecycle, TLC

CONSTANTS r1, r2, r3, p1, p2

Symmetric == Permutations(Requests)
=============================================================================
