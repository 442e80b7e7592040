------------------------------ MODULE Prefixes ------------------------------
(***************************************************************************)
(* What the relay does with namespaces: PUBLISH_NAMESPACE announces one,    *)
(* SUBSCRIBE_NAMESPACE hears of those under a prefix, PUBLISH offers a      *)
(* track, and SUBSCRIBE_TRACKS is pushed those under a prefix               *)
(* (publish_namespace_handler.rs, subscribe_namespace_handler.rs,           *)
(* subscribe_tracks_handler.rs, prefix_subscription.rs, publish_handler.rs, *)
(* request_stream.rs, track_manager.rs, and the close of a session).        *)
(*                                                                          *)
(* A step is what a request's task does under one lock. A request's stream  *)
(* is served by one task, a closing session by another, each pushed track   *)
(* by one more. A namespace has one track, and a track whose last publisher *)
(* leaves has nothing cached: it goes, and is not published again.          *)
(***************************************************************************)
EXTENDS Integers, FiniteSets, Sequences

CONSTANTS
    Clients,
    Requests,
    Namespaces,  \* Tuples: sequences of fields
    Settings     \* what an instance does:
                 \*   by, kind, at   who sends a request, which, for which Tuple
                 \*   refused        requests that may not be granted
                 \*   mute           PUBLISH and SUBSCRIBE_TRACKS with FORWARD = 0
                 \*   moves          the prefixes a REQUEST_UPDATE may ask for
                 \*   turns          SUBSCRIBE_TRACKS whose REQUEST_UPDATE says FORWARD = 1
                 \*   cancels        requests whose stream the peer may close
                 \*   closes         clients whose session may close
                 \*   unwanted       pushes the subscriber may refuse or leave
                 \*   excludes       tracks the filters of a SUBSCRIBE_TRACKS exclude
                 \*   streams        max_publish_streams (0: no limit)
                 \*   active         max_active_requests (0: no limit)
                 \*   drains         whether the relay may start draining
                 \*   fields         MAX_NAMESPACE_PREFIX_FIELDS

Kinds == {"PublishNamespace", "SubscribeNamespace", "SubscribeTracks", "Publish"}

ASSUME PrefixesAssumption ==
    \A c \in Settings :
        /\ c.by \in [Requests -> Clients]
        /\ c.kind \in [Requests -> Kinds]
        /\ \A r \in Requests : c.at[r] \in Namespaces

VARIABLES
    setting,
    draining,       \* SessionContext::draining
    conn,           \* clients whose connection is open
    closing,        \* where handle_connection_close of each client is
    req,            \* the requests and the tasks that serve them
    announced,      \* announced_track_namespaces of the clients
    announcements,  \* TrackManager::announcements, by the client that made them
    subscribers,    \* TrackManager::namespace_subscribers
    params,         \* FORWARD of the subscriptions: as asked for, as the registry keeps it
    channel,        \* what waits in the namespace_rx of a request
    heard,          \* suffixes whose last word on the stream was NAMESPACE
    echoed,         \* what a catch-up told that no NAMESPACE_DONE will take back
    track,          \* the tracks
    told            \* publishers told by REQUEST_UPDATE to forward a track

vars == <<setting, draining, conn, closing, req, announced, announcements,
          subscribers, params, channel, heard, echoed, track, told>>

sessions == <<setting, draining, conn, closing>>
names == <<announced, announcements>>
streams == <<channel, heard, echoed>>
tracks == <<track, told>>

NoClient == "none"

starts_with(ns, prefix) ==
    Len(prefix) <= Len(ns) /\ \A i \in 1..Len(prefix) : ns[i] = prefix[i]

suffix(ns, prefix) == SubSeq(ns, Len(prefix) + 1, Len(ns))

namespace_prefixes_overlap(a, b) == a = b \/ starts_with(a, b) \/ starts_with(b, a)

By(r) == setting.by[r]
Kind(r) == setting.kind[r]
At(r) == setting.at[r]

Init ==
    /\ setting \in Settings
    /\ draining = FALSE
    /\ conn = Clients
    /\ closing = [c \in Clients |-> [pc |-> "open", names |-> {}]]
    /\ req = [r \in Requests |->
                [pc |-> "new", prefix |-> setting.at[r], next |-> setting.at[r],
                 created |-> FALSE, todo |-> {}, to |-> <<>>, pushed |-> 0,
                 moved |-> FALSE, skipped |-> FALSE, late |-> FALSE]]
    /\ announced = {}
    /\ announcements = [n \in Namespaces |-> NoClient]
    /\ subscribers = {}
    /\ params = [asked  |-> Requests \ setting.mute, kept |-> Requests \ setting.mute,
                 beside |-> {}]
    /\ channel = [r \in Requests |-> <<>>]
    /\ heard = [r \in Requests |-> {}]
    /\ echoed = [r \in Requests |-> {}]
    /\ track = [n \in Namespaces |->
                  [made |-> FALSE, gone |-> FALSE, pubs |-> {}, publishes |-> {},
                   subs |-> [c \in Clients |-> 0], wants |-> {}, forward |-> FALSE,
                   opening |-> {}, open |-> {}]]
    /\ told = {}

At_(r, pc) == req[r].pc = pc
Goes(r, pc) == req' = [req EXCEPT ![r].pc = pc]

(***************************************************************************)
(* The registry of prefix subscriptions                                     *)
(***************************************************************************)
Entry(prefix, c, kind, r) == [prefix |-> prefix, by |-> c, kind |-> kind, tx |-> r]

add_namespace_subscriber(prefix, c, kind, r) ==
    IF \E e \in subscribers : e.prefix = prefix /\ e.by = c /\ e.kind = kind
    THEN subscribers
    ELSE subscribers \cup {Entry(prefix, c, kind, r)}

get_namespace_subscribers(ns, kind) ==
    {e \in subscribers : e.kind = kind /\ starts_with(ns, e.prefix)}

remove_namespace_subscriber_by_prefix(prefix, c, kind) ==
    {e \in subscribers : ~(e.prefix = prefix /\ e.by = c /\ e.kind = kind)}

\* `exclude' is a set: the prefix a subscription is about to vacate, or nothing.
find_overlapping_namespace_subscription(c, prefix, kind, exclude) ==
    {e \in subscribers : /\ e.by = c /\ e.kind = kind
                         /\ e.prefix \notin exclude
                         /\ namespace_prefixes_overlap(prefix, e.prefix)}

\* The registries it may leave: one entry of the client moves, if there is any.
rekey_namespace_subscriber(old, new, c, kind) ==
    LET held == {e \in subscribers : e.prefix = old /\ e.by = c /\ e.kind = kind}
    IN  IF held = {} THEN {subscribers}
        ELSE {(subscribers \ {e}) \cup {Entry(new, c, kind, e.tx)} : e \in held}

\* The channels after one message about a namespace to everyone who asked, except
\* the client it comes from.
announce_to_namespace_subscribers(ns, announcer, type, chan) ==
    [r \in Requests |->
        LET e == {x \in get_namespace_subscribers(ns, "Namespace") :
                    x.tx = r /\ x.by # announcer}
        IN  IF e = {} THEN chan[r]
            ELSE Append(chan[r], [type   |-> type,
                                  suffix |-> suffix(ns, (CHOOSE x \in e : TRUE).prefix)])]

(***************************************************************************)
(* A request stream                                                         *)
(***************************************************************************)
Finished == {"new", "refused", "failed", "ended"}

\* A request is rejected while draining, shed when the relay serves as many as it
\* may, and otherwise handled: it is counted after it was let in.
accept(r) ==
    LET active == {x \in Requests : req[x].pc \notin Finished \cup {"let in"}}
    IN  /\ At_(r, "new")
        /\ By(r) \in conn
        /\ IF draining \/ (setting.active > 0 /\ Cardinality(active) >= setting.active)
           THEN Goes(r, "refused")
           ELSE Goes(r, "let in")
        /\ UNCHANGED <<sessions, params, names, subscribers, streams, tracks>>

dispatch(r) ==
    /\ At_(r, "let in")
    /\ Goes(r, Kind(r))
    /\ UNCHANGED <<sessions, params, names, subscribers, streams, tracks>>

\* A reserved namespace, a track property that must be understood and is not, or
\* filters that cannot be honoured: a REQUEST_ERROR, and nothing is kept.
Reject(r) ==
    /\ req[r].pc \in Kinds
    /\ r \in setting.refused
    /\ Goes(r, "refused")
    /\ UNCHANGED <<sessions, params, names, subscribers, streams, tracks>>

\* The handler writes its REQUEST_OK. When it cannot, the handler fails, and the
\* stream is given up without cancelling the request.
RequestOk(r, pc) ==
    /\ req' = [req EXCEPT ![r].pc = IF By(r) \in conn THEN pc ELSE "failed"]
    /\ UNCHANGED <<sessions, params, names, subscribers, streams, tracks>>

\* The stream ended: the peer closed it, or its session is gone.
StreamEnds(r) ==
    /\ At_(r, "serving")
    /\ r \in setting.cancels \/ By(r) \notin conn

(***************************************************************************)
(* PUBLISH_NAMESPACE                                                        *)
(***************************************************************************)
add_announced_track_namespace(r) ==
    /\ At_(r, "PublishNamespace") /\ r \notin setting.refused
    /\ announced' = announced \cup {<<By(r), At(r)>>}
    /\ Goes(r, "announced")
    /\ UNCHANGED <<sessions, params, announcements, subscribers, streams, tracks>>

add_announcement(r) ==
    /\ At_(r, "announced")
    /\ announcements' = [announcements EXCEPT ![At(r)] = By(r)]
    /\ Goes(r, "stored")
    /\ UNCHANGED <<sessions, params, announced, subscribers, streams, tracks>>

TellNamespace(r) ==
    /\ At_(r, "stored")
    /\ channel' = announce_to_namespace_subscribers(At(r), By(r), "NAMESPACE", channel)
    /\ Goes(r, "told")
    /\ UNCHANGED <<sessions, params, names, subscribers, heard, echoed, tracks>>

NamespaceOk(r) == At_(r, "told") /\ RequestOk(r, "serving")

CancelNamespace(r) ==
    /\ StreamEnds(r) /\ Kind(r) = "PublishNamespace"
    /\ announced' = announced \ {<<By(r), At(r)>>}
    /\ Goes(r, "cancelled")
    /\ UNCHANGED <<sessions, params, announcements, subscribers, streams, tracks>>

\* Mutant: whoever withdraws says so to nobody.
remove_announcement_silently(r) ==
    /\ At_(r, "cancelled")
    /\ announcements' = [announcements EXCEPT ![At(r)] = NoClient]
    /\ Goes(r, "ended")
    /\ UNCHANGED <<sessions, params, announced, subscribers, streams, tracks>>

\* Only the client whose announcement it is takes it out, and then says so.
remove_announcement(r) ==
    LET mine == announcements[At(r)] = By(r)
    IN  /\ At_(r, "cancelled")
        /\ announcements' = IF mine THEN [announcements EXCEPT ![At(r)] = NoClient]
                            ELSE announcements
        /\ Goes(r, IF mine THEN "withdrawn" ELSE "ended")
        /\ UNCHANGED <<sessions, params, announced, subscribers, streams, tracks>>

TellDone(r) ==
    /\ At_(r, "withdrawn")
    /\ channel' = announce_to_namespace_subscribers(At(r), By(r), "NAMESPACE_DONE", channel)
    /\ Goes(r, "ended")
    /\ UNCHANGED <<sessions, params, names, subscribers, heard, echoed, tracks>>

(***************************************************************************)
(* SUBSCRIBE_NAMESPACE and SUBSCRIBE_TRACKS                                 *)
(***************************************************************************)
SubscribeKind(r) == IF Kind(r) = "SubscribeTracks" THEN "Tracks" ELSE "Namespace"

oversized_namespace_error(prefix) == Len(prefix) > setting.fields

\* The prefix is checked under one lock and registered under another. The two kinds
\* of subscription do not conflict with each other.
CheckPrefix(r, kind) ==
    /\ r \notin setting.refused
    /\ Goes(r, IF \/ oversized_namespace_error(At(r))
                  \/ find_overlapping_namespace_subscription(By(r), At(r), kind, {}) # {}
               THEN "refused" ELSE "clear")
    /\ UNCHANGED <<sessions, params, names, subscribers, streams, tracks>>

handle_subscribe_namespace(r) == At_(r, "SubscribeNamespace") /\ CheckPrefix(r, "Namespace")
handle_subscribe_tracks(r) == At_(r, "SubscribeTracks") /\ CheckPrefix(r, "Tracks")

\* `late', which the code does not keep, says that the check would not pass any more.
Register(r) ==
    /\ At_(r, "clear")
    /\ subscribers' = add_namespace_subscriber(At(r), By(r), SubscribeKind(r), r)
    /\ req' = [req EXCEPT ![r].pc = "registered", ![r].late = @ \/
          find_overlapping_namespace_subscription(By(r), At(r), SubscribeKind(r), {}) # {}]
    /\ UNCHANGED <<sessions, params, names, streams, tracks>>

SubscribeOk(r) == At_(r, "registered") /\ RequestOk(r, "catching up")

get_announcements_by_prefix(prefix) ==
    {n \in Namespaces : announcements[n] # NoClient /\ starts_with(n, prefix)}

get_tracks_and_publishes_by_namespace_prefix(prefix) ==
    {n \in Namespaces : /\ track[n].made /\ ~track[n].gone
                        /\ starts_with(n, prefix)
                        /\ track[n].publishes # {}}

\* Mutant: a new subscriber hears of published tracks only.
send_namespace_catchup_tracks(r) ==
    LET found == get_tracks_and_publishes_by_namespace_prefix(At(r))
    IN  /\ At_(r, "catching up")
        /\ SubscribeKind(r) = "Namespace"
        /\ IF By(r) \in conn \/ found = {}
           THEN /\ heard' = [heard EXCEPT ![r] = @ \cup {suffix(n, At(r)) : n \in found}]
                /\ echoed' = [echoed EXCEPT ![r] = @ \cup found]
                /\ Goes(r, "serving")
           ELSE Goes(r, "failed") /\ UNCHANGED <<heard, echoed>>
        /\ UNCHANGED <<sessions, params, names, subscribers, channel, tracks>>

\* The announcements first, whoever made them, then the namespaces of published
\* tracks. `echoed', which the code does not keep, is what it says that no later
\* NAMESPACE_DONE will take back: the client's own announcements, and the tracks.
send_namespace_catchup(r) ==
    LET found == IF At_(r, "catching up") THEN get_announcements_by_prefix(At(r))
                 ELSE get_tracks_and_publishes_by_namespace_prefix(At(r))
    IN  /\ At_(r, "catching up") \/ At_(r, "caught up")
        /\ SubscribeKind(r) = "Namespace"
        /\ IF By(r) \in conn \/ found = {}
           THEN /\ heard' = [heard EXCEPT ![r] = @ \cup {suffix(n, At(r)) : n \in found}]
                /\ echoed' = [echoed EXCEPT ![r] = @ \cup
                      {n \in found : At_(r, "caught up") \/ announcements[n] = By(r)}]
                /\ Goes(r, IF At_(r, "catching up") THEN "caught up" ELSE "serving")
           ELSE Goes(r, "failed") /\ UNCHANGED <<heard, echoed>>
        /\ UNCHANGED <<sessions, params, names, subscribers, channel, tracks>>

\* The stream writes what was sent to its channel, oldest first.
WriteNamespace(r) ==
    /\ At_(r, "serving")
    /\ channel[r] # <<>>
    /\ By(r) \in conn
    /\ LET m == Head(channel[r])
       IN  heard' = [heard EXCEPT ![r] = IF m.type = "NAMESPACE" THEN @ \cup {m.suffix}
                                         ELSE @ \ {m.suffix}]
    /\ channel' = [channel EXCEPT ![r] = Tail(@)]
    /\ UNCHANGED <<sessions, params, req, names, subscribers, echoed, tracks>>

\* No registry entry holds the channel any more: the stream ends by itself.
ChannelDropped(r) ==
    /\ At_(r, "serving")
    /\ Kind(r) \in {"SubscribeNamespace", "SubscribeTracks"}
    /\ channel[r] = <<>>
    /\ \A e \in subscribers : e.tx # r
    /\ Goes(r, "ended")
    /\ UNCHANGED <<sessions, params, names, subscribers, streams, tracks>>

\* REQUEST_UPDATE with a new prefix: checked, then applied.
prefix_move_rejection(r, prefix) ==
    \/ oversized_namespace_error(prefix)
    \/ find_overlapping_namespace_subscription(
           By(r), prefix, SubscribeKind(r), {req[r].prefix}) # {}

UpdatePrefix(r, prefix) ==
    /\ At_(r, "serving")
    /\ Kind(r) \in {"SubscribeNamespace", "SubscribeTracks"}
    /\ By(r) \in conn
    /\ ~req[r].moved
    /\ ~prefix_move_rejection(r, prefix)
    /\ req' = [req EXCEPT ![r].pc = "moving", ![r].next = prefix]
    /\ UNCHANGED <<sessions, params, names, subscribers, streams, tracks>>

\* REQUEST_UPDATE that leaves the prefix alone and turns FORWARD on.
UpdateForward(r) ==
    /\ At_(r, "serving")
    /\ Kind(r) = "SubscribeTracks"
    /\ r \in setting.turns \ params.asked
    /\ By(r) \in conn
    /\ Goes(r, "updating")
    /\ UNCHANGED <<sessions, params, names, subscribers, streams, tracks>>

\* The parameters of the update go to the stored request and to the first entry the
\* client has at the prefix, of whichever kind: the model takes any. `beside', which
\* the code does not keep, is the clients that had entries of the other kind there.
WriteParameters(r, prefix) ==
    LET found == {e \in subscribers : e.prefix = prefix /\ e.by = By(r)}
        others == {e \in found : e.kind # SubscribeKind(r)}
    IN  /\ At_(r, "moving") \/ At_(r, "updating")
        /\ Goes(r, IF At_(r, "moving") THEN "rekeying" ELSE "serving")
        /\ IF r \notin setting.turns THEN params' = params
           ELSE \E tx \in IF found = {} THEN {{}} ELSE {{e.tx} : e \in found} :
                params' = [asked  |-> params.asked \cup {r},
                           kept   |-> params.kept \cup tx,
                           beside |-> params.beside \cup {e.by : e \in others}]
        /\ UNCHANGED <<sessions, names, subscribers, streams, tracks>>

\* Mutant: the parameters follow the entry to a prefix it has not moved to yet.
update_namespace_subscription_parameters_next(r) == WriteParameters(r, req[r].next)

update_namespace_subscription_parameters(r) == WriteParameters(r, req[r].prefix)

\* Then the entry moves, and the stored request with it.
apply_subscription_update(r) ==
    /\ At_(r, "rekeying")
    /\ req' = [req EXCEPT ![r].pc = "serving", ![r].prefix = req[r].next, ![r].moved = TRUE,
          ![r].late = @ \/ prefix_move_rejection(r, req[r].next)]
    /\ subscribers' \in rekey_namespace_subscriber(req[r].prefix, req[r].next, By(r),
                                                   SubscribeKind(r))
    /\ UNCHANGED <<sessions, params, names, streams, tracks>>

\* Mutant: the prefix the request came with is taken out.
CancelFirstPrefix(r) ==
    /\ StreamEnds(r) /\ Kind(r) \in {"SubscribeNamespace", "SubscribeTracks"}
    /\ subscribers' = remove_namespace_subscriber_by_prefix(At(r), By(r), SubscribeKind(r))
    /\ Goes(r, "ended")
    /\ UNCHANGED <<sessions, params, names, streams, tracks>>

\* The prefix the request holds now is the one taken out.
CancelPrefix(r) ==
    /\ StreamEnds(r) /\ Kind(r) \in {"SubscribeNamespace", "SubscribeTracks"}
    /\ subscribers' = remove_namespace_subscriber_by_prefix(req[r].prefix, By(r),
                                                            SubscribeKind(r))
    /\ Goes(r, "ended")
    /\ UNCHANGED <<sessions, params, names, streams, tracks>>

(***************************************************************************)
(* PUBLISH, and the tracks pushed to SUBSCRIBE_TRACKS                       *)
(***************************************************************************)
\* Mutant: the flag is taken before it is known whether anyone wants Objects.
ensure_upstream_forwarding_early(n, tr) ==
    /\ track' = [track EXCEPT ![n] = [tr EXCEPT !.forward = TRUE]]
    /\ told' = IF tr.wants # {} /\ ~tr.forward THEN told \cup (tr.pubs \X {n}) ELSE told

\* Raise the publishers' Forward State once something downstream wants Objects. Only
\* the caller that finds the flag down sends, to the publishers it can reach.
ensure_upstream_forwarding(n, tr) ==
    LET raises == tr.wants # {} /\ ~tr.forward
        reached == {c \in tr.pubs \cap tr.publishes :
                       /\ closing[c].pc # "done"
                       /\ \E r \in Requests : /\ By(r) = c /\ Kind(r) = "Publish" /\ At(r) = n
                                              /\ req[r].pc \notin Finished}
    IN  /\ track' = [track EXCEPT ![n] = [tr EXCEPT !.forward = @ \/ raises]]
        /\ told' = IF raises THEN told \cup (reached \X {n}) ELSE told

\* The first publisher creates the track, the others join it.
get_or_create_track(r) ==
    LET n == At(r)
    IN  /\ At_(r, "Publish")
        /\ track' = [track EXCEPT ![n].made = TRUE]
        /\ req' = [req EXCEPT ![r].pc = "joining", ![r].created = ~track[n].made]
        /\ UNCHANGED <<sessions, params, names, subscribers, streams, told>>

add_publisher(r) ==
    /\ At_(r, "joining")
    /\ track' = [track EXCEPT ![At(r)].pubs = @ \cup {By(r)}]
    /\ Goes(r, "joined")
    /\ UNCHANGED <<sessions, params, names, subscribers, streams, told>>

\* FORWARD in the PUBLISH is what the publisher does on its own.
add_publish_message(r) ==
    /\ At_(r, "joined")
    /\ track' = [track EXCEPT ![At(r)].publishes = @ \cup {By(r)},
                              ![At(r)].forward = @ \/ r \notin setting.mute]
    /\ Goes(r, IF req[r].created THEN "pushes" ELSE "pushed")
    /\ UNCHANGED <<sessions, params, names, subscribers, streams, told>>

\* Mutant: a SUBSCRIBE_TRACKS waits for tracks to come.
ToPushOnlyNew(r) ==
    /\ \/ /\ At_(r, "pushes")
          /\ req' = [req EXCEPT ![r].pc = "pushing",
                ![r].todo = {<<e.by, At(r), e.tx, e.tx \in params.kept>>
                               : e \in get_namespace_subscribers(At(r), "Tracks")}]
       \/ /\ At_(r, "catching up")
          /\ SubscribeKind(r) = "Tracks"
          /\ req' = [req EXCEPT ![r].pc = "pushing"]
    /\ UNCHANGED <<sessions, params, names, subscribers, streams, tracks>>

\* What is to be pushed, as <<subscriber, namespace of the track, SUBSCRIBE_TRACKS, its
\* FORWARD>>: by a PUBLISH its track to every subscription, as the registry keeps it,
\* by a SUBSCRIBE_TRACKS every track.
ToPush(r) ==
    /\ \/ /\ At_(r, "pushes")
          /\ req' = [req EXCEPT ![r].pc = "pushing",
                ![r].todo = {<<e.by, At(r), e.tx, e.tx \in params.kept>>
                               : e \in get_namespace_subscribers(At(r), "Tracks")}]
       \/ /\ At_(r, "catching up")
          /\ SubscribeKind(r) = "Tracks"
          /\ req' = [req EXCEPT ![r].pc = "pushing",
                ![r].todo = {<<By(r), n, r, r \in params.asked>>
                               : n \in get_tracks_and_publishes_by_namespace_prefix(At(r))}]
    /\ UNCHANGED <<sessions, params, names, subscribers, streams, tracks>>

\* One of them: skipped if the subscriber has it or publishes it, blocked when a
\* SUBSCRIBE_TRACKS is out of streams, chosen otherwise.
NextPush(r, p) ==
    LET s == p[1]
        tr == track[p[2]]
        tracksRequest == Kind(r) = "SubscribeTracks"
        served == \/ IF tracksRequest THEN s \in tr.pubs ELSE s = By(r)
                  \/ tr.subs[s] > 0
        blocked == tracksRequest /\ setting.streams > 0 /\ req[r].pushed >= setting.streams
        goes == [req[r] EXCEPT !.todo = @ \ {p}]
    IN  /\ At_(r, "pushing")
        /\ p \in req[r].todo
        /\ req' = [req EXCEPT ![r] =
              IF served THEN goes
              ELSE IF blocked
              THEN IF By(r) \in conn
                   THEN [goes EXCEPT !.todo = {}, !.skipped = TRUE]
                   ELSE [goes EXCEPT !.pc = "failed"]
              ELSE IF <<p[3], p[2]>> \in setting.excludes THEN goes
              ELSE [goes EXCEPT !.pc = "push", !.to = p]]
        /\ UNCHANGED <<sessions, params, names, subscribers, streams, tracks>>

push_track_to_subscriber(r) ==
    LET s == req[r].to[1]
        n == req[r].to[2]
    IN  /\ At_(r, "push")
        /\ track' = [track EXCEPT
                ![n].subs[s] = @ + 1,
                ![n].wants = IF req[r].to[4] THEN @ \cup {s} ELSE @]
        /\ req' = [req EXCEPT ![r].pc = "raise", ![r].pushed = @ + 1]
        /\ UNCHANGED <<sessions, params, names, subscribers, streams, told>>

RaiseForPush(r) ==
    LET n == req[r].to[2]
    IN  /\ At_(r, "raise")
        /\ ensure_upstream_forwarding(n, [track[n] EXCEPT !.opening = @ \cup {req[r].to[1]}])
        /\ req' = [req EXCEPT ![r].pc = "pushing", ![r].to = <<>>]
        /\ UNCHANGED <<sessions, params, names, subscribers, streams>>

PushedAll(r) ==
    /\ At_(r, "pushing")
    /\ req[r].todo = {}
    /\ Goes(r, IF Kind(r) = "Publish" THEN "pushed" ELSE "serving")
    /\ UNCHANGED <<sessions, params, names, subscribers, streams, tracks>>

PublishOk(r) == At_(r, "pushed") /\ RequestOk(r, "accepted")

RaiseAfterOk(r) ==
    /\ At_(r, "accepted")
    /\ ensure_upstream_forwarding(At(r), track[At(r)])
    /\ Goes(r, "serving")
    /\ UNCHANGED <<sessions, params, names, subscribers, streams>>

\* A track no publisher serves any more ends for its subscribers and is removed.
RemovePublisher(tr, c) ==
    LET left == tr.pubs \ {c}
    IN  IF c \notin tr.pubs THEN tr
        ELSE IF left # {}
        THEN [tr EXCEPT !.pubs = left, !.publishes = @ \ {c}]
        ELSE [tr EXCEPT !.pubs = {}, !.publishes = {}, !.gone = TRUE,
                        !.subs = [s \in Clients |-> 0], !.wants = {}, !.open = {}]

\* PUBLISH_DONE, once the streams it counts have arrived.
cleanup_published_track(r) ==
    /\ StreamEnds(r) /\ Kind(r) = "Publish"
    /\ track' = [track EXCEPT ![At(r)] = RemovePublisher(@, By(r))]
    /\ Goes(r, "ended")
    /\ UNCHANGED <<sessions, params, names, subscribers, streams, told>>

\* A PUBLISH stream that just closes leaves its track to the session's end.
ClosePublish(r) ==
    /\ StreamEnds(r) /\ Kind(r) = "Publish"
    /\ Goes(r, "ended")
    /\ UNCHANGED <<sessions, params, names, subscribers, streams, tracks>>

\* The PUBLISH goes out on a stream of its own: Objects may flow from here. When the
\* stream cannot be opened the subscription is left to the session's end.
forward_publish_downstream(s, n) ==
    /\ s \in track[n].opening
    /\ track' = [track EXCEPT ![n].opening = @ \ {s},
                              ![n].open = IF s \in conn THEN @ \cup {s} ELSE @]
    /\ UNCHANGED <<sessions, params, req, names, subscribers, streams, told>>

\* A subscriber turns the Forward State of a pushed track on.
apply_pushed_update(s, n) ==
    LET tr == track[n]
    IN  /\ s \in conn
        /\ s \in tr.open \ tr.wants
        /\ tr.subs[s] > 0
        /\ ensure_upstream_forwarding(n, [tr EXCEPT !.wants = @ \cup {s}])
        /\ UNCHANGED <<sessions, params, req, names, subscribers, streams>>

\* It refuses the PUBLISH, or closes its stream.
end_pushed_subscription(s, n) ==
    /\ track[n].subs[s] > 0
    /\ s \in track[n].open
    /\ <<s, n>> \in setting.unwanted \/ s \notin conn
    /\ track' = [track EXCEPT ![n].subs[s] = @ - 1,
                              ![n].wants = IF track[n].subs[s] = 1 THEN @ \ {s} ELSE @,
                              ![n].open = IF track[n].subs[s] = 1 THEN @ \ {s} ELSE @]
    /\ UNCHANGED <<sessions, params, req, names, subscribers, streams, told>>

(***************************************************************************)
(* A session closes: one task takes the client out of everything, while     *)
(* the tasks of its request streams run on until they notice                *)
(***************************************************************************)
Disconnect(c) ==
    /\ c \in setting.closes \cap conn
    /\ conn' = conn \ {c}
    /\ closing' = [closing EXCEPT ![c].pc = "publishers"]
    /\ UNCHANGED <<setting, params, draining, req, names, subscribers, streams, tracks>>

ClosePublishers(c) ==
    /\ closing[c].pc = "publishers"
    /\ track' = [n \in Namespaces |-> RemovePublisher(track[n], c)]
    /\ closing' = [closing EXCEPT ![c].pc = "announcements"]
    /\ UNCHANGED <<setting, params, draining, conn, req, names, subscribers, streams, told>>

remove_announcements_by_connection(c) ==
    LET mine == {n \in Namespaces : announcements[n] = c}
    IN  /\ closing[c].pc = "announcements"
        /\ announcements' = [n \in Namespaces |-> IF n \in mine THEN NoClient
                                                  ELSE announcements[n]]
        /\ closing' = [closing EXCEPT ![c] = [pc |-> "tell", names |-> mine]]
        /\ UNCHANGED <<setting, params, draining, conn, req, announced, subscribers, streams,
                        tracks>>

CloseTells(c, n) ==
    /\ closing[c].pc = "tell"
    /\ n \in closing[c].names
    /\ channel' = announce_to_namespace_subscribers(n, c, "NAMESPACE_DONE", channel)
    /\ closing' = [closing EXCEPT ![c].names = @ \ {n}]
    /\ UNCHANGED <<setting, params, draining, conn, req, names, subscribers, heard, echoed,
                    tracks>>

remove_namespace_subscriber(c) ==
    /\ closing[c].pc = "tell"
    /\ closing[c].names = {}
    /\ subscribers' = {e \in subscribers : e.by # c}
    /\ closing' = [closing EXCEPT ![c].pc = "client"]
    /\ UNCHANGED <<setting, params, draining, conn, req, names, streams, tracks>>

CloseForgets(c) ==
    /\ closing[c].pc = "client"
    /\ closing' = [closing EXCEPT ![c].pc = "done"]
    /\ track' = [n \in Namespaces |-> [track[n] EXCEPT !.subs[c] = 0, !.wants = @ \ {c}]]
    /\ UNCHANGED <<setting, params, draining, conn, req, names, subscribers, streams, told>>

Drain ==
    /\ setting.drains /\ ~draining
    /\ draining' = TRUE
    /\ UNCHANGED <<setting, params, conn, closing, req, names, subscribers, streams, tracks>>

Serve(r) ==
    \/ accept(r) \/ dispatch(r) \/ Reject(r)
    \/ add_announced_track_namespace(r) \/ add_announcement(r) \/ TellNamespace(r)
    \/ NamespaceOk(r) \/ CancelNamespace(r) \/ remove_announcement(r) \/ TellDone(r)
    \/ handle_subscribe_namespace(r) \/ handle_subscribe_tracks(r) \/ Register(r)
    \/ SubscribeOk(r) \/ send_namespace_catchup(r)
    \/ WriteNamespace(r) \/ ChannelDropped(r)
    \/ UpdateForward(r) \/ update_namespace_subscription_parameters(r)
    \/ apply_subscription_update(r) \/ CancelPrefix(r)
    \/ get_or_create_track(r) \/ add_publisher(r) \/ add_publish_message(r) \/ ToPush(r)
    \/ push_track_to_subscriber(r) \/ RaiseForPush(r) \/ PushedAll(r)
    \/ PublishOk(r) \/ RaiseAfterOk(r) \/ cleanup_published_track(r) \/ ClosePublish(r)
    \/ \E p \in req[r].todo : NextPush(r, p)
    \/ \E p \in setting.moves : UpdatePrefix(r, p)

Close(c) ==
    \/ Disconnect(c) \/ ClosePublishers(c) \/ remove_announcements_by_connection(c)
    \/ remove_namespace_subscriber(c) \/ CloseForgets(c)
    \/ \E n \in Namespaces :
          \/ CloseTells(c, n) \/ forward_publish_downstream(c, n)
          \/ apply_pushed_update(c, n) \/ end_pushed_subscription(c, n)

Next == Drain \/ (\E r \in Requests : Serve(r)) \/ (\E c \in Clients : Close(c))

Spec == Init /\ [][Next]_vars

(***************************************************************************)
(* Properties                                                               *)
(***************************************************************************)
\* Every task is done with what it was doing.
Quiet ==
    /\ \A r \in Requests :
          /\ req[r].pc \in Finished \cup {"serving"}
          /\ req[r].pc = "serving" => By(r) \in conn /\ channel[r] = <<>>
    /\ \A c \in Clients : closing[c].pc \in {"open", "done"}
    /\ \A n \in Namespaces : track[n].opening = {}

\* Requests of a kind for a Tuple: what two of them race for is left out below.
Rivals(kind, n) == {r \in Requests : Kind(r) = kind /\ At(r) = n}
Unshared(kind, n) == Cardinality(Rivals(kind, n)) <= 1

Listening(r, kind) ==
    /\ Kind(r) = kind
    /\ req[r].pc = "serving"
    /\ ~req[r].moved
    /\ \E e \in subscribers : e.tx = r

\* However a SUBSCRIBE_NAMESPACE and a PUBLISH_NAMESPACE cross, the subscriber has
\* heard of the namespace once both have settled: it is in the registry before it
\* catches up, and an announcement is stored before it is passed on.
NothingMissed ==
    Quiet => \A r \in Requests, n \in Namespaces :
        (/\ Listening(r, "SubscribeNamespace")
         /\ Unshared("PublishNamespace", n)
         /\ announcements[n] \notin {NoClient, By(r)}
         /\ starts_with(n, At(r)))
        => suffix(n, At(r)) \in heard[r]

\* And what it believes announced is announced by another client, or is what its
\* catch-up said and nothing takes back: a namespace of its own, or of a track that
\* was published then. (A PUBLISH_NAMESPACE whose session closed before its answer may
\* be passed on after the NAMESPACE_DONE of that close.)
NothingStale ==
    Quiet => \A r \in Requests : Listening(r, "SubscribeNamespace") =>
        \A x \in heard[r] :
            LET n == At(r) \o x
            IN  \/ ~Unshared("PublishNamespace", n)
                \/ \E a \in Rivals("PublishNamespace", n) : req[a].pc = "failed"
                \/ announcements[n] \notin {NoClient, By(r)}
                \/ n \in echoed[r]

\* What a subscriber knows of the namespaces under its prefix is what other clients
\* announce, and what its catch-up echoed.
HearsWhatIsAnnounced == NothingMissed /\ NothingStale

\* A client is never told of a namespace it announces itself
\* (publish_namespace_handler.rs:31-33).
NeverToldItsOwn ==
    \A r \in Requests : Kind(r) = "SubscribeNamespace" =>
        \A x \in heard[r] : \A a \in Rivals("PublishNamespace", At(r) \o x) : By(a) # By(r)

\* However a SUBSCRIBE_TRACKS and a PUBLISH cross, a track with a publisher has been
\* pushed to every subscription under whose prefix it falls, unless the filters
\* exclude it, the relay ran out of streams, or the subscriber publishes it or left.
TracksReached ==
    Quiet => \A r \in Requests, n \in Namespaces :
        (/\ Listening(r, "SubscribeTracks")
         /\ ~req[r].skipped
         /\ track[n].pubs # {} /\ ~track[n].gone
         /\ starts_with(n, At(r))
         /\ By(r) \notin track[n].pubs
         /\ <<r, n>> \notin setting.excludes
         /\ <<By(r), n>> \notin setting.unwanted)
        => By(r) \in track[n].open

\* A lone publisher that said it sends nothing on its own has been told to, once
\* something downstream wants its Objects: without it the track never delivers.
ForwardRaised ==
    Quiet => \A r \in Requests :
        (/\ Kind(r) = "Publish" /\ Unshared("Publish", At(r))
         /\ r \in setting.mute
         /\ req[r].pc = "serving"
         /\ track[At(r)].wants # {})
        => <<By(r), At(r)>> \in told

\* No check of a prefix, for a client and a kind, was overtaken before it was acted on.
InTime(c, kind) ==
    \A r \in Requests : By(r) = c /\ SubscribeKind(r) = kind => ~req[r].late

\* A registry entry of a client that is still there belongs to a request that is
\* still served, under the prefix that request holds, so that a move and a cancel of
\* the subscription act on its own entry; and it keeps the FORWARD that was last asked
\* for. (Two requests of the client may pass the check at once, and then one moves the
\* entry of the other. An update of the parameters finds the entry by prefix and client
\* and may change the one of the other kind. Both are left out.)
RegisteredIsServed ==
    \A e \in subscribers : (e.by \in conn /\ InTime(e.by, e.kind)) =>
        /\ req[e.tx].pc \notin Finished
        /\ req[e.tx].prefix = e.prefix
        /\ By(e.tx) = e.by /\ SubscribeKind(e.tx) = e.kind
        /\ e.by \notin params.beside => (e.tx \in params.kept <=> e.tx \in params.asked)

\* The parameters an update leaves a SUBSCRIBE_TRACKS with are those of the tracks
\* pushed from then on (prefix_subscription.rs:158-161, 265-266).
UpdateTakesEffect ==
    \A e \in subscribers : (e.by \in conn /\ InTime(e.by, e.kind) /\ e.kind = "Tracks") =>
        (e.tx \in params.kept <=> e.tx \in params.asked)

\* Two subscriptions of one client and one kind do not share a prefix.
KindsDoNotShare ==
    \A r, s \in Requests :
        (/\ r # s /\ By(r) = By(s) /\ Kind(r) = Kind(s)
         /\ Kind(r) \in {"SubscribeNamespace", "SubscribeTracks"}
         /\ At_(r, "serving") /\ At_(s, "serving"))
        => req[r].prefix # req[s].prefix

\* A client that withdraws a namespace sends no NAMESPACE_DONE for it while another
\* publisher's PUBLISH_NAMESPACE for it is accepted and open.
NoDoneWhileServed ==
    \A r, s \in Requests :
        (/\ At_(r, "withdrawn")
         /\ s # r /\ Kind(s) = "PublishNamespace" /\ At(s) = At(r))
        => req[s].pc # "serving"
=============================================================================
