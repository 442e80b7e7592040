----------------------------- MODULE TrackLocks -----------------------------
(***************************************************************************)
(* The locks of the relay's track bookkeeping, and the handlers that take  *)
(* them: TrackManager's maps `tracks', `track_aliases' and `publishes', a  *)
(* track's own lock, and inside it `handover' and `publisher_aliases'.     *)
(* Every handler runs on a task of its own; they meet only in these locks. *)
(*                                                                         *)
(* A handler is modelled by its lock programs: the orders in which one run *)
(* of it takes and drops these locks.  The scope of a guard is the scope   *)
(* of the Rust value, temporaries included: the guard in the scrutinee of  *)
(* an `if let' lives to the end of its block.  What a handler computes is  *)
(* left out, so a branch of it is a choice between programs.  Consecutive  *)
(* reads of one lock that nothing separates are written once, a loop over  *)
(* tracks or publishers as one turn of it, and locks that are only ever    *)
(* leaves (the status, the cache, the subscription maps) not at all.       *)
(*                                                                         *)
(* tokio's RwLock and Mutex are external: both are fair queues.  A request *)
(* is granted at once only when nobody waits and the holders admit it;     *)
(* otherwise it waits its turn, readers behind a waiting writer included.  *)
(***************************************************************************)
EXTENDS Naturals, Sequences, FiniteSets, SequencesExt

CONSTANTS
  Task,          \* the tokio tasks that run handlers
  Handlers       \* the handlers this instance runs, a subset of AllHandlers

VARIABLES
  todo,          \* todo[t]: the programs task t may still run to their end
  held,          \* held[t]: the guards t holds, innermost last
  queue          \* queue[l]: the tasks waiting for lock l, in order

vars == <<todo, held, queue>>

\* The documented order; `handover' is one of the track's inner locks.
LockOrder == <<"tracks", "track", "handover", "publisher_aliases",
               "track_aliases", "publishes">>

Lock == ToSet(LockOrder)

Rank(l) == CHOOSE i \in DOMAIN LockOrder : LockOrder[i] = l

\* A `fill' is the read of open_fill_fetch_stream, told apart for the properties.
Guard == [mode : {"read", "fill", "write"}, lock : Lock]

-----------------------------------------------------------------------------
(* Lock programs, as sets of step sequences.  A step takes a guard, or drops *)
(* the innermost one.                                                       *)

Skip == {<<>>}

Then(p, q) == {a \o b : a \in p, b \in q}

Maybe(p) == p \cup Skip

Step(m, l) == [mode |-> m, lock |-> l]

Read(l, p) == {<<Step("read", l)>> \o a \o <<Step("drop", l)>> : a \in p}

Write(l, p) == {<<Step("write", l)>> \o a \o <<Step("drop", l)>> : a \in p}

-----------------------------------------------------------------------------
(* TrackManager                                                            *)

get_track == Read("tracks", Skip)

get_track_by_alias == Read("tracks", Read("track_aliases", Skip))

remove_track ==
  Write("tracks",
    Then(Maybe(Read("track",
           Read("publisher_aliases", Maybe(Write("track_aliases", Skip))))),
         Write("publishes", Skip)))

\* An alias removal that reaches back for the map of tracks.
AliasRemovalChecksTrack ==
  Write("track_aliases", Maybe(Read("tracks", Write("publishes", Skip))))

remove_publisher_alias ==
  Write("track_aliases", Maybe(Write("publishes", Skip)))

sweep_empty_cache_only_tracks ==
  Then(Write("tracks", Maybe(Read("track", Skip))), Write("publishes", Skip))

get_or_create_track == Then(get_track, Maybe(Write("tracks", Skip)))

add_track_alias == Write("track_aliases", Skip)

resolve_track_by_alias == Then(Read("track_aliases", Skip), Maybe(get_track))

get_publish_request_id == Read("publishes", Skip)

add_publish_message == Write("publishes", Skip)

get_tracks_and_publishes_by_namespace_prefix ==
  Read("tracks", Read("publishes", Skip))

get_track_name_by_publisher ==
  Then(Read("tracks", Read("publishes", Skip)),
       Maybe(Read("track", Read("publisher_aliases", Skip))))

-----------------------------------------------------------------------------
(* Track.  A track that lets go of its upstream and keeps its cache clears  *)
(* its publishers under `handover' and leaves their aliases to clean_up; an *)
(* empty one is left for clean_up to remove.                                *)

confirm == Write("publisher_aliases", Skip)

remove_publisher == Write("publisher_aliases", Skip)

LetsGo == \* remove_subscriber or retire, then TrackManager::clean_up
  Then(Read("track", Write("handover", Write("publisher_aliases", Skip))),
       Maybe(remove_publisher_alias))
  \cup Then(Read("track", Write("handover", Skip)), Maybe(remove_track))

retire_track == Then(get_track, Maybe(LetsGo))

wait_for_publisher_streams == Maybe(Then(get_track, Maybe(Read("track", Skip))))

cleanup_published_track ==
  Then(get_track,
       Maybe(Then(Read("track", Then(remove_publisher,
                                     Maybe(remove_publisher_alias))),
                  Maybe(retire_track))))

-----------------------------------------------------------------------------
(* The handlers                                                            *)

\* It opens nothing, and takes no lock, without FILL_PARAMETERS.
open_fill_fetch_stream ==
  Maybe({<<Step("fill", "track"), Step("drop", "track")>>})

ensure_upstream_forwarding ==
  Then(Read("track", Maybe(Read("publisher_aliases", Skip))),
       Maybe(get_publish_request_id))

\* One turn of find_subscription_by_request_id: it has let go of the map.
plan_switch == Maybe(Then(Read("tracks", Skip), Maybe(Read("track", Skip))))

reject_subscription == Read("track", Skip)

\* A refused plan, a duplicate Request ID or a refused set assignment ends it early.
handle_subscribe_message ==
  Then(plan_switch,
       Maybe(Then(get_or_create_track,
             Then(Read("track", Write("handover", Skip)),
             Then(Maybe(Read("track", Skip)), \* the track's id, for its set
                  Maybe(reject_subscription
                    \cup Then(Read("track", Skip) \* the creator, or a joiner that waits
                                \cup Read("track", open_fill_fetch_stream),
                         Then(ensure_upstream_forwarding,
                              Maybe(Then(Read("track", Skip),
                                         open_fill_fetch_stream))))))))))

handle_subscribe_ok_message ==
  Then(get_track,
  Then(Read("track", Skip),
       Maybe(Then(add_track_alias,
             Then(Write("track", confirm),
                  Maybe(Then(Read("track", Skip), open_fill_fetch_stream)))))))

handle_subscribe_error_message ==
  Then(get_track, Maybe(Then(Read("track", Skip), Maybe(retire_track))))

register_upstream_request ==
  Then(get_track, Maybe(Read("track", Write("handover", Skip))))

remove_upstream_publisher ==
  Then(Read("publisher_aliases", Skip),
  Then(Write("publisher_aliases", Skip), Maybe(remove_publisher_alias)))

cleanup_cancelled_upstream_subscription ==
  Then(get_track, Maybe(Read("track", Maybe(remove_upstream_publisher))))

end_upstream_subscription ==
  Then(get_track,
  Then(Maybe(Read("track", Skip)),
       handle_subscribe_error_message
         \cup Then(Read("track", remove_upstream_publisher),
                   Maybe(Read("track", Skip)))))

\* An upstream PUBLISH_DONE.
UpstreamDone ==
  Then(get_track,
       Maybe(Then(Read("track", remove_publisher), Maybe(Read("track", Skip)))))

cancel_subscription ==
  Then(get_track, Maybe(Then(Read("track", Skip), Maybe(LetsGo))))

fail_update == Then(get_track, Then(Read("track", Skip), Write("track", Skip)))

\* The guard in the scrutinee of the last `if let' lives through the fill.
handle_request_update ==
  fail_update
  \cup Then(plan_switch,
       Maybe(Then(get_track,
             Maybe(Then(Read("track", Skip),
                   Maybe(fail_update
                     \cup Then(ensure_upstream_forwarding,
                          Then(Read("track", Skip),
                               Maybe(Read("track", open_fill_fetch_stream))))))))))

push_track_to_subscriber ==
  Then(Read("track", Skip), ensure_upstream_forwarding)

\* The task of a pushed PUBLISH: its first fill, an update, its end.
forward_publish_downstream ==
  Then(open_fill_fetch_stream,
  Then(Maybe(Then(Read("track", Skip),
             Then(ensure_upstream_forwarding,
             Then(Maybe(Read("track", Skip)), open_fill_fetch_stream)))),
       Maybe(Read("track", Skip))))

Publish ==
  Then(Read("track_aliases", Skip),
  Then(Maybe(Then(get_track_by_alias, Maybe(Read("track", Skip)))),
  Then(get_or_create_track,
  Then(Maybe(Read("track", Skip)),
  Then(add_track_alias,
       Maybe(Then(Write("track", Write("publisher_aliases", Skip)),
             Then(add_publish_message,
             Then(Maybe(Then(Write("track", Skip),
                             Maybe(push_track_to_subscriber))),
                  ensure_upstream_forwarding)))))))))

PublishUpdate ==
  Then(get_track_name_by_publisher,
       Maybe(Then(get_track, Then(Write("publishes", Skip),
                                  Read("track", Skip)))))

handle_subscribe_tracks ==
  Then(get_tracks_and_publishes_by_namespace_prefix,
       Maybe(Then(Read("track", Read("publisher_aliases", Skip)),
                  Maybe(push_track_to_subscriber))))

send_namespace_catchup == get_tracks_and_publishes_by_namespace_prefix

handle_track_status == Then(get_track, Maybe(Read("track", Skip)))

send_upstream_fetch_for_range ==
  Then(Read("track", Skip),
       Maybe(Then(Read("publisher_aliases", Skip), Read("track", Skip))))

handle_malformed_upstream_fetch ==
  Then(Read("track", Write("handover", remove_upstream_publisher)),
       Maybe(remove_track))

handle_fetch ==
  Then(get_track,
       Maybe(Then(Maybe(get_or_create_track),
             Then(Read("track", Skip),
             Then(Maybe(send_upstream_fetch_for_range),
                  Maybe(Read("track", Skip)))))))

\* One gap of a delivery that is filled from upstream.
serve_fetch_stream ==
  Then(Read("track", Skip),
       Maybe(Then(send_upstream_fetch_for_range,
             Then(Maybe(Read("track", Skip)),
                  Maybe(handle_malformed_upstream_fetch)))))

handle_uni_stream == Then(resolve_track_by_alias, Maybe(Read("track", Skip)))

handle_datagram == Then(get_track_by_alias, Maybe(Read("track", Skip)))

handle_connection_close ==
  Then(Read("tracks", Maybe(Read("track",
         Then(remove_publisher, Maybe(remove_publisher_alias))))),
  Then(Maybe(retire_track),
       Read("tracks", Maybe(Read("track", Skip)))))

ProgramsOf(h) ==
  CASE h = "subscribe"        -> handle_subscribe_message
    [] h = "subscribe_ok"     -> handle_subscribe_ok_message
    [] h = "subscribe_error"  -> handle_subscribe_error_message
    [] h = "register"         -> register_upstream_request
    [] h = "cancelled"        -> cleanup_cancelled_upstream_subscription
    [] h = "upstream_ended"   -> end_upstream_subscription
    [] h = "upstream_done"    -> UpstreamDone
    [] h = "cancel"           -> cancel_subscription
    [] h = "update"           -> handle_request_update
    [] h = "publish"          -> Publish
    [] h = "pushed"           -> forward_publish_downstream
    [] h = "publish_done"     -> Then(wait_for_publisher_streams,
                                      cleanup_published_track)
    [] h = "publish_update"   -> PublishUpdate
    [] h = "subscribe_tracks" -> handle_subscribe_tracks
    [] h = "namespaces"       -> send_namespace_catchup
    [] h = "track_status"     -> handle_track_status
    [] h = "fetch"            -> handle_fetch
    [] h = "fetch_delivery"   -> serve_fetch_stream
    [] h = "data_stream"      -> handle_uni_stream
    [] h = "datagram"         -> handle_datagram
    [] h = "close"            -> handle_connection_close
    [] h = "sweep"            -> sweep_empty_cache_only_tracks

-----------------------------------------------------------------------------
(* The tasks                                                               *)

Idle(t) == todo[t] = {}

\* The steps the handler t runs may take next, and what is left after one.
Steps(t) == {Head(p) : p \in todo[t] \ Skip}

After(t, s) == {Tail(p) : p \in {q \in todo[t] \ Skip : Head(q) = s}}

Waits(t) == \E l \in Lock : \E w \in ToSet(queue[l]) : w.task = t

\* The holders of g's lock admit g: readers share it, a writer does not.
Admitted(g) ==
  \A t \in Task : \A h \in ToSet(held[t]) :
    h.lock = g.lock => h.mode # "write" /\ g.mode # "write"

Takes(t, g) ==
  /\ held' = [held EXCEPT ![t] = Append(@, g)]
  /\ todo' = [todo EXCEPT ![t] = After(t, g)]

Init ==
  /\ todo = [t \in Task |-> {}]
  /\ held = [t \in Task |-> <<>>]
  /\ queue = [l \in Lock |-> <<>>]

Start(t) ==
  /\ Idle(t)
  /\ \E h \in Handlers : todo' = [todo EXCEPT ![t] = ProgramsOf(h)]
  /\ UNCHANGED <<held, queue>>

\* Nobody waits and the holders admit the guard: `read' or `write' returns.
Acquire(t) ==
  /\ ~Waits(t)
  /\ \E g \in Steps(t) \cap Guard :
       /\ queue[g.lock] = <<>> /\ Admitted(g)
       /\ Takes(t, g)
  /\ UNCHANGED queue

Enqueue(t) ==
  /\ ~Waits(t)
  /\ \E g \in Steps(t) \cap Guard :
       /\ queue[g.lock] # <<>> \/ ~Admitted(g)
       /\ queue' = [queue EXCEPT ![g.lock] = Append(@, [task |-> t, guard |-> g])]
  /\ UNCHANGED <<todo, held>>

\* The task whose turn it is gets the guard once the holders admit it.
Granted(t) ==
  \E l \in Lock :
    /\ queue[l] # <<>>
    /\ LET w == Head(queue[l])
       IN  w.task = t /\ Admitted(w.guard) /\ Takes(t, w.guard)
    /\ queue' = [queue EXCEPT ![l] = Tail(@)]

Drop(t) ==
  /\ ~Waits(t)
  /\ \E d \in Steps(t) \ Guard : todo' = [todo EXCEPT ![t] = After(t, d)]
  /\ held' = [held EXCEPT ![t] = Front(@)]
  /\ UNCHANGED queue

Finish(t) ==
  /\ ~Waits(t)
  /\ <<>> \in todo[t]
  /\ todo' = [todo EXCEPT ![t] = {}]
  /\ UNCHANGED <<held, queue>>

Runs(t) == Acquire(t) \/ Enqueue(t) \/ Granted(t) \/ Drop(t) \/ Finish(t)

Next == \E t \in Task : Start(t) \/ Runs(t)

Spec == Init /\ [][Next]_vars

-----------------------------------------------------------------------------
(* Properties                                                              *)

\* "Lock order: take `tracks`, then a track's own lock, then that track's inner
\* locks (such as `publisher_aliases`), then `track_aliases`, then `publishes`
\* [...]. Never take a lock that you, or your caller, already hold, even for
\* reading" (track_manager.rs:65-67): whatever lock a handler is about to take
\* comes after all those it holds, calls into TrackManager made with a guard held
\* by the caller included.  One place breaks the rule, and no other does: the
\* fill of a SUBSCRIBE that joins a confirmed track (subscribe_handler.rs:922-954)
\* or of a REQUEST_UPDATE (1607-1618) reads the track that its caller has for
\* reading (fill.rs:118).
TakenInOrder ==
  \A t \in Task : \A g \in Steps(t) \cap Guard :
    \A h \in ToSet(held[t]) :
      \/ Rank(h.lock) < Rank(g.lock)
      \/ g.mode = "fill" /\ h = Step("read", "track")

\* No deadlock: while some handler runs, one that runs can go on, so they never
\* all wait for each other.  (A task that does not wait always has a next step.)
NoDeadlock ==
  (\E t \in Task : ~Idle(t)) =>
    \/ \E t \in Task : ~Idle(t) /\ ~Waits(t)
    \/ \E l \in Lock : queue[l] # <<>> /\ Admitted(Head(queue[l]).guard)

\* Task t waits, behind a writer, for its fill to read the track it has itself.
FillBlocked(t) ==
  /\ \E w \in ToSet(queue["track"]) : w.task = t /\ w.guard.mode = "fill"
  /\ Step("read", "track") \in ToSet(held[t])

\* The handlers never all wait for each other, unless one of them is a fill that
\* waits for the lock its own caller holds: NoDeadlock fails there and nowhere else.
OnlyFillsDeadlock == NoDeadlock \/ \E t \in Task : FillBlocked(t)

\* The lock order of track_manager.rs:65-67 is kept everywhere but in those two
\* fills, and keeping it is enough: the handlers never deadlock but through them.
LocksInOrder == TakenInOrder /\ OnlyFillsDeadlock
=============================================================================
