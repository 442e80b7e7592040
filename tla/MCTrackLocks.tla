---------------------------- MODULE MCTrackLocks ----------------------------
(* Instances of TrackLocks for TLC. *)
EXTENDS TrackLocks, TLC

CONSTANTS t1, t2, t3

AllHandlers ==
  {"subscribe", "subscribe_ok", "subscribe_error", "register", "cancelled",
   "upstream_ended", "upstream_done", "cancel", "update", "publish", "pushed",
   "publish_done", "publish_update", "subscribe_tracks", "namespaces",
   "track_status", "fetch", "fetch_delivery", "data_stream", "datagram", "close",
   "sweep"}

Symmetric == Permutations(Task)
=============================================================================
