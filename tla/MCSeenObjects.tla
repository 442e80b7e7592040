--------------------------- MODULE MCSeenObjects ---------------------------
(* A ring of at most two slots over three groups, so that groups 0 and 2    *)
(* compete for one, and ids that reach past the window by more than one.    *)
EXTENDS SeenObjects

MCRetained == 0..2
MCGroups == 0..2
MCObjects == 0..5
=============================================================================
