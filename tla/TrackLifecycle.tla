--------------------------- MODULE TrackLifecycle ---------------------------
(***************************************************************************)
(* The life of the relay's tracks under one full track name: how SUBSCRIBE  *)
(* requests create and join a track, how the one that created it asks every *)
(* publisher upstream, how the publishers' answers reach the subscribers,   *)
(* and how the last one to leave, a refusal, or a departing publisher lets  *)
(* go of the track again (subscribe_handler.rs, track.rs, track_manager.rs, *)
(* session.rs).                                                             *)
(*                                                                          *)
(* A step is what a task does between two points where others may run: one  *)
(* critical section of `handover', of the track's lock or of the track map. *)
(* A Track outlives its map entry while a task holds it, so Tracks have     *)
(* ids, and `current' is the entry.                                         *)
(***************************************************************************)
EXTENDS Integers, FiniteSets, Sequences

CONSTANTS
    Requests,    \* SUBSCRIBE requests: (connection, request id) pairs
    Publishers,  \* publishers that announced the track's namespace
    MaxTracks,   \* bound on the Tracks created
    Reliable,    \* publishers that accept every SUBSCRIBE, and in time
    Behaviours   \* what else the peers of the relay may do

AllBehaviours ==
    {"cancel",       \* a subscriber closes its request stream
     "disconnect",   \* a subscriber's session closes
     "close",        \* a publisher's session closes
     "end",          \* an accepted upstream subscription ends
     "unsupported",  \* SUBSCRIBE_OK with an unsupported mandatory property
     "refuse",       \* the SUBSCRIBE's switching set assignment is refused
     "cache"}        \* the publisher's Objects are cached

ASSUME LifecycleAssumption ==
    /\ IsFiniteSet(Publishers)
    /\ MaxTracks \in Nat
    /\ Reliable \subseteq Publishers
    /\ Behaviours \subseteq AllBehaviours

VARIABLES
    current,    \* the name's entry of TrackManager::tracks
    made,       \* Tracks created so far
    tracks,     \* the Tracks
    aliases,    \* track_aliases: publishers whose alias leads to the name
    connected,  \* client_manager: publishers a SUBSCRIBE is forwarded to
    req,        \* the SUBSCRIBE requests and the tasks that serve them
    exch,       \* upstream_subscribe_exchange of each relay request: `home' is the
                \* Track it registered with, `track' the one it found by name last,
                \* `pending' its relay_pending_requests entry
    closing     \* handle_connection_close of each publisher

vars == <<current, made, tracks, aliases, connected, req, exch, closing>>

NoTrack == 0
TrackIds == 1..MaxTracks

\* A relay request: the request that forwarded it, and the publisher asked.
Exchanges == Requests \X Publishers

NewTrack ==
    [status     |-> "Pending",
     origin     |-> "Subscribe",
     subs       |-> {},    \* subscription_manager: the Requests subscribed
     waiting    |-> {},    \* pending_subscribers
     pubs       |-> {},    \* publisher_aliases: publishers serving the track
     unanswered |-> 0,     \* pending_upstream_subscribe_count
     registered |-> {},    \* upstream_requests that can still be cancelled
     cached     |-> FALSE] \* whether the cache holds anything

Init ==
    /\ current = NoTrack
    /\ made = 0
    /\ tracks = [t \in TrackIds |-> NewTrack]
    /\ aliases = {}
    /\ connected = Publishers
    /\ req = [r \in Requests |->
                [pc |-> "start", track |-> NoTrack, creator |-> FALSE, asked |-> {},
                 seen |-> "Pending", responses |-> <<>>, told |-> FALSE,
                 gone |-> FALSE, dropped |-> {}]]
    /\ exch = [x \in Exchanges |->
                [pc |-> "idle", home |-> NoTrack, track |-> NoTrack, answered |-> FALSE,
                 pending |-> TRUE, unsupported |-> FALSE, cancel |-> FALSE,
                 accepted |-> FALSE, dropped |-> {}]]
    /\ closing = [p \in Publishers |-> [pc |-> "idle", track |-> NoTrack, dropped |-> {}]]
-----------------------------------------------------------------------------
(* What a step does to a Track, to the map, and to request streams.         *)

\* A defective upstream_subscribe_answered: it passes zero.
OneLessWraps(n) == n - 1

\* upstream_subscribe_answered: a decrement that stops at zero.
OneLess(n) == IF n > 0 THEN n - 1 ELSE 0

\* serve_request writes responses to the request's stream until it finds that
\* the subscriber has closed it; a client that is gone is not looked up.
Open(r) == ~req[r].gone /\ req[r].pc \notin {"leave", "unalias", "remove", "closed"}

\* Responses to the requests of `to' whose stream is open.
Responding(to, kind) ==
    [r \in Requests |->
        IF r \in to /\ Open(r)
        THEN [req[r] EXCEPT !.responses = Append(@, kind)] ELSE req[r]]

\* PublisherDisconnected to every subscription of the track: PUBLISH_DONE.
Telling(to) ==
    [r \in Requests |-> IF r \in to THEN [req[r] EXCEPT !.told = TRUE] ELSE req[r]]

\* cancel_upstream_requests_of_kind: each registered exchange gets the signal.
Signalling(signalled) ==
    [x \in Exchanges |->
        IF x \in signalled THEN [exch[x] EXCEPT !.cancel = TRUE] ELSE exch[x]]

\* become_cache_only, on a Track whose cache holds something.
CacheOnly(track) ==
    [track EXCEPT !.status = "Pending", !.origin = "CacheOnly", !.pubs = {},
                  !.unanswered = 0, !.registered = {}]

\* remove_track takes out whatever Track the name leads to by then.
RemoveTrack ==
    /\ current' = NoTrack
    /\ aliases' = IF current = NoTrack THEN aliases ELSE aliases \ tracks[current].pubs

\* Whether a SUBSCRIBE handler holds the track's lock for reading.
TrackReadHeld(t) == \E r \in Requests : req[r].pc = "answer" /\ req[r].track = t
-----------------------------------------------------------------------------
(* handle_subscribe_message                                                 *)

\* No publisher to forward to: the SUBSCRIBE is answered with REQUEST_ERROR.
SubscribeMiss(r) ==
    /\ req[r].pc = "start"
    /\ connected = {}
    /\ req' = [Responding({r}, "error") EXCEPT ![r].pc = "end"]
    /\ UNCHANGED <<current, made, tracks, aliases, connected, exch, closing>>

\* get_or_create_track.
Subscribe(r) ==
    /\ req[r].pc = "start"
    /\ connected # {}
    /\ IF current = NoTrack
       THEN /\ made < MaxTracks
            /\ made' = made + 1
            /\ current' = made + 1
            /\ req' = [req EXCEPT ![r].pc = "join", ![r].asked = connected,
                                  ![r].track = made + 1, ![r].creator = TRUE]
       ELSE /\ req' = [req EXCEPT ![r].pc = "join", ![r].asked = connected,
                                  ![r].track = current]
            /\ UNCHANGED <<made, current>>
    /\ UNCHANGED <<tracks, aliases, connected, exch, closing>>

\* Under `handover': take_over, which makes a cache-only track this request's
\* as if it had created it, and add_subscription.
Join(r) ==
    LET t == req[r].track
        taken == tracks[t].origin = "CacheOnly" IN
    /\ req[r].pc = "join"
    /\ tracks' = [tracks EXCEPT
            ![t].origin = IF taken THEN "Subscribe" ELSE @,
            ![t].status = IF taken THEN "Pending" ELSE @,
            ![t].subs = @ \union {r}]
    /\ req' = [req EXCEPT ![r].creator = @ \/ taken, ![r].pc = "assign"]
    /\ UNCHANGED <<current, made, aliases, connected, exch, closing>>

\* The switching set assignment is refused: reject_subscription.
Refused(r) ==
    LET t == req[r].track IN
    /\ "refuse" \in Behaviours
    /\ req[r].pc = "assign"
    /\ tracks' = [tracks EXCEPT ![t].subs = @ \ {r}]
    /\ req' = [Responding({r}, "error") EXCEPT ![r].pc = "end"]
    /\ UNCHANGED <<current, made, aliases, connected, exch, closing>>

\* The creator counts the answers it is owed before any request goes out.
Count(r) ==
    LET t == req[r].track IN
    /\ req[r].pc = "assign"
    /\ req[r].creator
    /\ tracks' = [tracks EXCEPT ![t].unanswered = Cardinality(req[r].asked)]
    /\ req' = [req EXCEPT ![r].pc = "forward"]
    /\ UNCHANGED <<current, made, aliases, connected, exch, closing>>

\* It spawns one exchange per publisher.
Forward(r, p) ==
    /\ req[r].pc = "forward"
    /\ p \in req[r].asked
    /\ exch[<<r, p>>].pc = "idle"
    /\ exch' = [exch EXCEPT ![<<r, p>>].pc = "send"]
    /\ req' = IF \E q \in req[r].asked \ {p} : exch[<<r, q>>].pc = "idle"
              THEN req ELSE [req EXCEPT ![r].pc = "live"]
    /\ UNCHANGED <<current, made, tracks, aliases, connected, closing>>

\* Anyone else reads the track's status ...
ReadStatus(r) ==
    /\ req[r].pc = "assign"
    /\ ~req[r].creator
    /\ req' = [req EXCEPT ![r].seen = tracks[req[r].track].status, ![r].pc = "answer"]
    /\ UNCHANGED <<current, made, tracks, aliases, connected, exch, closing>>

\* ... and, its lock still held for reading, is answered or waits.  When the
\* answer cannot be written the handler fails and nothing is cancelled.
AnswerJoiner(r) ==
    LET t == req[r].track
        kind == IF req[r].seen = "Confirmed" THEN "ok" ELSE "error" IN
    /\ req[r].pc = "answer"
    /\ IF req[r].seen = "Pending"
       THEN /\ tracks' = [tracks EXCEPT ![t].waiting = @ \union {r}]
            /\ req' = [req EXCEPT ![r].pc = "live"]
       ELSE /\ req' = [Responding({r}, kind) EXCEPT ![r].pc =
                          IF req[r].gone THEN "closed" ELSE "live"]
            /\ UNCHANGED tracks
    /\ UNCHANGED <<current, made, aliases, connected, exch, closing>>
-----------------------------------------------------------------------------
(* upstream_subscribe_exchange: x asks publisher x[2] on behalf of x[1].    *)

At(x, pc) == exch[x].pc = pc

Goes(x, pc) == exch' = [exch EXCEPT ![x].pc = pc]

\* Opens the request stream and sends SUBSCRIBE.
Send(x) ==
    /\ At(x, "send")
    /\ \/ Goes(x, "sent")
       \/ x[2] \notin Reliable /\ Goes(x, "ended")
    /\ UNCHANGED <<current, made, tracks, aliases, connected, req, closing>>

\* Looks its track up by name: not necessarily the one it was forwarded for.
FindTrack(x) ==
    /\ At(x, "sent")
    /\ IF current = NoTrack
       THEN Goes(x, "over")
       ELSE exch' = [exch EXCEPT ![x].pc = "register", ![x].home = current]
    /\ UNCHANGED <<current, made, tracks, aliases, connected, req, closing>>

\* A defective registration: it does not look whether anybody is left.
RegisterUnchecked(x) ==
    /\ At(x, "register")
    /\ Goes(x, "wait")
    /\ tracks' = [tracks EXCEPT ![exch[x].home].registered = @ \union {x}]
    /\ UNCHANGED <<current, made, aliases, connected, req, closing>>

\* Under `handover': register_upstream_request, cancelled at once when the
\* last subscriber has already left.
Register(x) ==
    LET t == exch[x].home IN
    /\ At(x, "register")
    /\ IF tracks[t].subs = {}
       THEN /\ exch' = [exch EXCEPT ![x].pc = "wait", ![x].cancel = TRUE]
            /\ UNCHANGED tracks
       ELSE /\ Goes(x, "wait")
            /\ tracks' = [tracks EXCEPT ![t].registered = @ \union {x}]
    /\ UNCHANGED <<current, made, aliases, connected, req, closing>>

\* The select is biased: a cancellation goes before the deadline and messages.
Cancelled(x) ==
    /\ At(x, "wait")
    /\ exch[x].cancel
    /\ Goes(x, "cancelled")
    /\ UNCHANGED <<current, made, tracks, aliases, connected, req, closing>>

\* cleanup_cancelled_upstream_subscription, again by name.
CleanUpCancelled(x) ==
    /\ At(x, "cancelled")
    /\ Goes(x, "over")
    /\ IF current = NoTrack
       THEN UNCHANGED <<tracks, aliases>>
       ELSE IF ~exch[x].answered
       THEN /\ tracks' = [tracks EXCEPT ![current].unanswered = OneLess(@)]
            /\ UNCHANGED aliases
       ELSE /\ tracks' = [tracks EXCEPT ![current].pubs = @ \ {x[2]}]
            /\ aliases' = aliases \ (tracks[current].pubs \intersect {x[2]})
    /\ UNCHANGED <<current, made, connected, req, closing>>

\* The answer deadline passes, or the publisher refuses: REQUEST_ERROR, a
\* closed stream, an unexpected message.
AnswerDeadline(x) ==
    /\ At(x, "wait")
    /\ ~exch[x].cancel
    /\ ~exch[x].answered
    /\ x[2] \notin Reliable
    /\ Goes(x, "ended")
    /\ UNCHANGED <<current, made, tracks, aliases, connected, req, closing>>

Fails(x) ==
    /\ At(x, "wait")
    /\ ~exch[x].cancel
    /\ IF exch[x].answered
       THEN "end" \in Behaviours \/ closing[x[2]].pc # "idle"
       ELSE x[2] \notin Reliable
    /\ exch' = [exch EXCEPT ![x].pc = "ended", ![x].answered = TRUE]
    /\ UNCHANGED <<current, made, tracks, aliases, connected, req, closing>>

\* PUBLISH_DONE from an accepted publisher.
UpstreamDone(x) ==
    /\ "end" \in Behaviours
    /\ At(x, "wait")
    /\ ~exch[x].cancel
    /\ exch[x].answered
    /\ IF current = NoTrack
       THEN /\ Goes(x, "over")
            /\ UNCHANGED tracks
       ELSE /\ tracks' = [tracks EXCEPT ![current].pubs = @ \ {x[2]}]
            /\ exch' = [exch EXCEPT ![x].track = current, ![x].pc =
                   IF tracks[current].pubs \subseteq {x[2]} THEN "notify" ELSE "over"]
    /\ UNCHANGED <<current, made, aliases, connected, req, closing>>
-----------------------------------------------------------------------------
(* handle_subscribe_ok_message                                              *)

Accepts(x) ==
    /\ At(x, "wait")
    /\ ~exch[x].cancel
    /\ ~exch[x].answered
    /\ \/ exch' = [exch EXCEPT ![x].pc = "ok", ![x].answered = TRUE]
       \/ /\ "unsupported" \in Behaviours
          /\ exch' = [exch EXCEPT ![x].pc = "error", ![x].answered = TRUE,
                                  ![x].unsupported = TRUE]
    /\ UNCHANGED <<current, made, tracks, aliases, connected, req, closing>>

\* A defective SUBSCRIBE_OK handler: the alias is not registered.
OkAliasForgets(x) ==
    /\ At(x, "ok")
    /\ IF current = NoTrack
       THEN Goes(x, "wait")
       ELSE exch' = [exch EXCEPT ![x].pc = "confirm", ![x].track = current]
    /\ UNCHANGED <<current, made, tracks, aliases, connected, req, closing>>

\* Finds the track, ignores one that let go of its upstream, and registers the
\* publisher's alias, unless it names another track already.
OkAlias(x) ==
    /\ At(x, "ok")
    /\ IF current = NoTrack \/ (current # NoTrack /\ tracks[current].origin = "CacheOnly")
       THEN /\ Goes(x, "wait")
            /\ UNCHANGED aliases
       ELSE \/ /\ exch' = [exch EXCEPT ![x].pc = "confirm", ![x].track = current]
               /\ aliases' = aliases \union {x[2]}
            \/ /\ x[2] \notin Reliable
               /\ Goes(x, "ended")
               /\ UNCHANGED aliases
    /\ UNCHANGED <<current, made, tracks, connected, req, closing>>

\* What confirm and upstream_subscribe_answered leave of a Track.
Confirmed(track, p) ==
    [track EXCEPT !.pubs = @ \union {p},
                  !.status = IF @ = "Pending" THEN "Confirmed" ELSE @,
                  !.unanswered = OneLess(@)]

\* Defective ways to confirm: without the track's write lock, and answering the
\* subscribers once per publisher.
ConfirmUnlocked(x) ==
    LET t == exch[x].track IN
    /\ At(x, "confirm")
    /\ tracks' = [tracks EXCEPT ![t] = Confirmed(@, x[2])]
    /\ exch' = [exch EXCEPT ![x].accepted = TRUE, ![x].pc =
           IF tracks[t].status = "Pending" THEN "tell" ELSE "wait"]
    /\ UNCHANGED <<current, made, aliases, connected, req, closing>>

ConfirmTells(x) ==
    LET t == exch[x].track IN
    /\ At(x, "confirm")
    /\ ~TrackReadHeld(t)
    /\ tracks' = [tracks EXCEPT ![t] = Confirmed(@, x[2])]
    /\ exch' = [exch EXCEPT ![x].accepted = TRUE, ![x].pc = "tell"]
    /\ UNCHANGED <<current, made, aliases, connected, req, closing>>

\* Under the track's write lock: confirm, and one answer less to wait for.
Confirm(x) ==
    LET t == exch[x].track IN
    /\ At(x, "confirm")
    /\ ~TrackReadHeld(t)
    /\ tracks' = [tracks EXCEPT ![t] = Confirmed(@, x[2])]
    /\ exch' = [exch EXCEPT ![x].accepted = TRUE, ![x].pc =
           IF tracks[t].status = "Pending" THEN "tell" ELSE "wait"]
    /\ UNCHANGED <<current, made, aliases, connected, req, closing>>

\* SUBSCRIBE_OK to the creator, if its subscription is still there ...
TellCreator(x) ==
    /\ At(x, "tell")
    /\ req' = Responding({x[1]} \intersect tracks[exch[x].track].subs, "ok")
    /\ Goes(x, "tellWaiting")
    /\ UNCHANGED <<current, made, tracks, aliases, connected, closing>>

\* A defective fan-out: whoever waits is taken off the list and not answered.
TellWaitingLoses(x) ==
    /\ At(x, "tellWaiting")
    /\ tracks' = [tracks EXCEPT ![exch[x].track].waiting = {}]
    /\ Goes(x, "wait")
    /\ UNCHANGED <<current, made, aliases, connected, req, closing>>

\* ... and to everyone who waits.
TellWaiting(x) ==
    LET t == exch[x].track IN
    /\ At(x, "tellWaiting")
    /\ req' = Responding(tracks[t].waiting \intersect tracks[t].subs, "ok")
    /\ tracks' = [tracks EXCEPT ![t].waiting = {}]
    /\ Goes(x, "wait")
    /\ UNCHANGED <<current, made, aliases, connected, closing>>
-----------------------------------------------------------------------------
(* end_upstream_subscription                                                *)

\* A defective end_upstream_subscription: the first refusal is final.
EndUpstreamAtOnce(x) ==
    /\ At(x, "ended")
    /\ IF current = NoTrack
       THEN /\ Goes(x, "error")
            /\ UNCHANGED tracks
       ELSE /\ tracks' = [tracks EXCEPT ![current].unanswered = OneLess(@)]
            /\ exch' = [exch EXCEPT ![x].track = current, ![x].pc =
                   IF tracks[current].status = "Confirmed" THEN "drop" ELSE "error"]
    /\ UNCHANGED <<current, made, aliases, connected, req, closing>>

\* Reads whether the track was accepted and counts this answer.  A refusal is
\* final once nobody else may accept.
EndUpstream(x) ==
    /\ At(x, "ended")
    /\ IF current = NoTrack
       THEN /\ Goes(x, "error")
            /\ UNCHANGED tracks
       ELSE /\ tracks' = [tracks EXCEPT ![current].unanswered = OneLess(@)]
            /\ exch' = [exch EXCEPT ![x].track = current, ![x].pc =
                   IF tracks[current].status = "Confirmed" THEN "drop"
                   ELSE IF OneLess(tracks[current].unanswered) > 0 THEN "over"
                   ELSE "error"]
    /\ UNCHANGED <<current, made, aliases, connected, req, closing>>

\* A defective remove_upstream_publisher: only the alias goes.
DropKeepsPublisher(x) ==
    LET t == exch[x].track IN
    /\ At(x, "drop")
    /\ aliases' = aliases \ (tracks[t].pubs \intersect {x[2]})
    /\ Goes(x, IF tracks[t].pubs \subseteq {x[2]} THEN "notify" ELSE "over")
    /\ UNCHANGED <<current, made, tracks, connected, req, closing>>

\* remove_upstream_publisher, once the track was accepted.
DropPublisher(x) ==
    LET t == exch[x].track IN
    /\ At(x, "drop")
    /\ tracks' = [tracks EXCEPT ![t].pubs = @ \ {x[2]}]
    /\ aliases' = aliases \ (tracks[t].pubs \intersect {x[2]})
    /\ Goes(x, IF tracks[t].pubs \subseteq {x[2]} THEN "notify" ELSE "over")
    /\ UNCHANGED <<current, made, connected, req, closing>>

\* notify_publish_done: the subscribers hear that the track is over.
NotifyDone(x) ==
    /\ At(x, "notify")
    /\ req' = Telling(tracks[exch[x].track].subs)
    /\ Goes(x, "over")
    /\ UNCHANGED <<current, made, tracks, aliases, connected, closing>>

\* Where handle_subscribe_error_message returns to: a SUBSCRIBE_OK turned down
\* for its properties does not end the exchange.
Returns(x) == IF exch[x].unsupported THEN "wait" ELSE "over"

\* handle_subscribe_error_message takes the request's entry, which a second call
\* does not find, and ignores the refusal of a track that has let go of its
\* upstream meanwhile ...
FindRejected(x) ==
    /\ At(x, "error")
    /\ IF ~exch[x].pending THEN Goes(x, "over")
       ELSE exch' = [exch EXCEPT ![x].pending = FALSE, ![x].track = current, ![x].pc =
               IF current # NoTrack /\ tracks[current].origin = "CacheOnly"
               THEN Returns(x) ELSE "reject"]
    /\ UNCHANGED <<current, made, tracks, aliases, connected, req, closing>>

\* ... marks it Rejected, whatever it was ...
Reject(x) ==
    LET t == exch[x].track IN
    /\ At(x, "reject")
    /\ tracks' = IF t = NoTrack THEN tracks
                 ELSE [tracks EXCEPT ![t].status = "Rejected"]
    /\ Goes(x, "tellError")
    /\ UNCHANGED <<current, made, aliases, connected, req, closing>>

\* ... answers the creator, subscription or not ...
TellErrorCreator(x) ==
    /\ At(x, "tellError")
    /\ req' = Responding({x[1]}, "error")
    /\ Goes(x, IF exch[x].track = NoTrack THEN Returns(x) ELSE "tellErrorWaiting")
    /\ UNCHANGED <<current, made, tracks, aliases, connected, closing>>

\* ... and everyone who waits, before it retires the track.
TellErrorWaiting(x) ==
    LET t == exch[x].track IN
    /\ At(x, "tellErrorWaiting")
    /\ req' = Responding(tracks[t].waiting, "error")
    /\ tracks' = [tracks EXCEPT ![t].waiting = {}]
    /\ Goes(x, "retire")
    /\ UNCHANGED <<current, made, aliases, connected, closing>>
-----------------------------------------------------------------------------
(* retire_track by an exchange or by a closing session, and clean_up.       *)

\* Track::retire under `handover', on the Track the name leads to: its state,
\* with the subscribers detached if it stays.
Retired(t) ==
    IF tracks[t].cached
    THEN [tracks EXCEPT ![t] = [CacheOnly(@) EXCEPT !.subs = {}]]
    ELSE tracks

Retire(x) ==
    /\ At(x, "retire")
    /\ IF current = NoTrack
       THEN /\ Goes(x, Returns(x))
            /\ UNCHANGED tracks
       ELSE /\ tracks' = Retired(current)
            /\ exch' = IF tracks[current].cached
                       THEN [Signalling(tracks[current].registered) EXCEPT
                               ![x].pc = "unalias", ![x].track = current,
                               ![x].dropped = tracks[current].pubs]
                       ELSE [exch EXCEPT ![x].pc = "remove", ![x].track = current]
    /\ UNCHANGED <<current, made, aliases, connected, req, closing>>

\* clean_up, after `handover' was released.
CleanUp(x) ==
    /\ \/ /\ At(x, "unalias")
          /\ aliases' = aliases \ exch[x].dropped
          /\ UNCHANGED current
       \/ /\ At(x, "remove")
          /\ RemoveTrack
    /\ Goes(x, Returns(x))
    /\ UNCHANGED <<made, tracks, connected, req, closing>>

\* handle_connection_close of a publisher: it leaves the track it serves ...
Close(p) ==
    /\ "close" \in Behaviours
    /\ closing[p].pc = "idle"
    /\ IF current # NoTrack /\ p \in tracks[current].pubs
       THEN LET last == tracks[current].pubs = {p} IN
            /\ tracks' = [tracks EXCEPT ![current].pubs = @ \ {p}]
            /\ aliases' = aliases \ {p}
            /\ req' = IF last THEN Telling(tracks[current].subs) ELSE req
            /\ closing' = [closing EXCEPT ![p].pc = IF last THEN "retire" ELSE "forget"]
       ELSE /\ closing' = [closing EXCEPT ![p].pc = "forget"]
            /\ UNCHANGED <<tracks, aliases, req>>
    /\ UNCHANGED <<current, made, connected, exch>>

CloseRetires(p) ==
    /\ closing[p].pc = "retire"
    /\ IF current = NoTrack
       THEN /\ closing' = [closing EXCEPT ![p].pc = "forget"]
            /\ UNCHANGED <<tracks, exch>>
       ELSE /\ tracks' = Retired(current)
            /\ IF tracks[current].cached
               THEN /\ exch' = Signalling(tracks[current].registered)
                    /\ closing' = [closing EXCEPT ![p].pc = "unalias", ![p].track = current,
                                                  ![p].dropped = tracks[current].pubs]
               ELSE /\ closing' = [closing EXCEPT ![p].pc = "remove", ![p].track = current]
                    /\ UNCHANGED exch
    /\ UNCHANGED <<current, made, aliases, connected, req>>

CloseCleansUp(p) ==
    /\ \/ /\ closing[p].pc = "unalias"
          /\ aliases' = aliases \ closing[p].dropped
          /\ UNCHANGED current
       \/ /\ closing[p].pc = "remove"
          /\ RemoveTrack
    /\ closing' = [closing EXCEPT ![p].pc = "forget"]
    /\ UNCHANGED <<made, tracks, connected, req, exch>>

\* ... and is no publisher for the SUBSCRIBEs to come.
Forget(p) ==
    /\ closing[p].pc = "forget"
    /\ connected' = connected \ {p}
    /\ closing' = [closing EXCEPT ![p].pc = "closed"]
    /\ UNCHANGED <<current, made, tracks, aliases, req, exch>>
-----------------------------------------------------------------------------
(* cancel_subscription: the subscriber closed its request stream.           *)

Cancel(r) ==
    /\ "cancel" \in Behaviours \/ req[r].gone
    /\ req[r].pc = "live"
    /\ req' = [req EXCEPT ![r].track = current, ![r].pc =
           IF current # NoTrack /\ r \in tracks[current].subs THEN "leave" ELSE "closed"]
    /\ UNCHANGED <<current, made, tracks, aliases, connected, exch, closing>>

\* remove_subscriber, under `handover': the last one out cancels the upstream
\* requests, and the track becomes cache-only or is to be removed.
Leave(r) ==
    LET t == req[r].track
        left == [tracks[t] EXCEPT !.subs = @ \ {r}] IN
    /\ req[r].pc = "leave"
    /\ IF left.subs # {}
       THEN /\ tracks' = [tracks EXCEPT ![t] = left]
            /\ req' = [req EXCEPT ![r].pc = "closed"]
            /\ UNCHANGED exch
       ELSE /\ exch' = Signalling(left.registered)
            /\ IF left.origin # "Subscribe"
               THEN /\ tracks' = [tracks EXCEPT ![t] = [left EXCEPT !.registered = {}]]
                    /\ req' = [req EXCEPT ![r].pc = "closed"]
               ELSE IF left.cached
               THEN /\ tracks' = [tracks EXCEPT ![t] = CacheOnly(left)]
                    /\ req' = [req EXCEPT ![r].pc = "unalias", ![r].dropped = left.pubs]
               ELSE /\ tracks' = [tracks EXCEPT ![t] = [left EXCEPT !.registered = {}]]
                    /\ req' = [req EXCEPT ![r].pc = "remove"]
    /\ UNCHANGED <<current, made, aliases, connected, closing>>

LeaveCleansUp(r) ==
    /\ \/ /\ req[r].pc = "unalias"
          /\ aliases' = aliases \ req[r].dropped
          /\ UNCHANGED current
       \/ /\ req[r].pc = "remove"
          /\ RemoveTrack
    /\ req' = [req EXCEPT ![r].pc = "closed"]
    /\ UNCHANGED <<made, tracks, connected, exch, closing>>

\* handle_connection_close of a subscriber takes its subscription off the track
\* the name leads to; the request's own task goes on, to Cancel in the end.
Disconnect(r) ==
    /\ "disconnect" \in Behaviours
    /\ ~req[r].gone
    /\ req[r].pc # "closed"
    /\ req' = [req EXCEPT ![r].gone = TRUE]
    /\ tracks' = IF current = NoTrack THEN tracks
                 ELSE [tracks EXCEPT ![current].subs = @ \ {r}]
    /\ UNCHANGED <<current, made, aliases, connected, exch, closing>>
-----------------------------------------------------------------------------
(* The cache of the track: Objects arrive over a registered alias; they     *)
(* expire, and a cache-only track that holds nothing is swept.              *)

CacheObject(p) ==
    /\ "cache" \in Behaviours
    /\ current # NoTrack
    /\ p \in aliases
    /\ ~tracks[current].cached
    /\ tracks' = [tracks EXCEPT ![current].cached = TRUE]
    /\ UNCHANGED <<current, made, aliases, connected, req, exch, closing>>

Expire ==
    /\ current # NoTrack
    /\ tracks[current].cached
    /\ tracks' = [tracks EXCEPT ![current].cached = FALSE]
    /\ UNCHANGED <<current, made, aliases, connected, req, exch, closing>>

\* Whether a task holds the Track itself, so that the map's is not the only one.
Held(t) ==
    \/ \E r \in Requests : req[r].track = t /\ req[r].pc \notin {"live", "end", "closed"}
    \/ \E x \in Exchanges :
          \/ exch[x].home = t /\ exch[x].pc # "over"
          \/ exch[x].track = t /\ exch[x].pc \notin {"wait", "over"}
    \/ \E p \in Publishers : closing[p].track = t /\ closing[p].pc \in {"unalias", "remove"}

\* sweep_empty_cache_only_tracks, under the map's write lock.
Sweep ==
    /\ current # NoTrack
    /\ ~Held(current)
    /\ tracks[current].origin = "CacheOnly"
    /\ ~tracks[current].cached
    /\ current' = NoTrack
    /\ UNCHANGED <<made, tracks, aliases, connected, req, exch, closing>>
-----------------------------------------------------------------------------
RequestStep(r) ==
    \/ SubscribeMiss(r) \/ Subscribe(r) \/ Join(r) \/ Count(r)
    \/ \E p \in Publishers : Forward(r, p)
    \/ ReadStatus(r) \/ AnswerJoiner(r) \/ Leave(r) \/ LeaveCleansUp(r)

\* What an exchange does whatever the publisher does.
ExchangeStep(x) ==
    \/ Send(x) \/ FindTrack(x) \/ Register(x) \/ Cancelled(x) \/ CleanUpCancelled(x)
    \/ OkAlias(x) \/ Confirm(x) \/ TellCreator(x) \/ TellWaiting(x)
    \/ EndUpstream(x) \/ DropPublisher(x) \/ NotifyDone(x)
    \/ FindRejected(x) \/ Reject(x) \/ TellErrorCreator(x) \/ TellErrorWaiting(x)
    \/ Retire(x) \/ CleanUp(x)

CloseStep(p) == CloseRetires(p) \/ CloseCleansUp(p) \/ Forget(p)

Next ==
    \/ \E r \in Requests : RequestStep(r) \/ Refused(r) \/ Cancel(r) \/ Disconnect(r)
    \/ \E x \in Exchanges : \/ ExchangeStep(x) \/ AnswerDeadline(x) \/ Fails(x)
                            \/ UpstreamDone(x) \/ Accepts(x)
    \/ \E p \in Publishers : Close(p) \/ CloseStep(p) \/ CacheObject(p)
    \/ Expire
    \/ Sweep

Spec == Init /\ [][Next]_vars

\* The stream to a publisher fails once its session is closed.
StreamDies(x) == closing[x[2]].pc # "idle" /\ Fails(x)

\* Every task of the relay runs on, the answer deadline passes if it may, a
\* reliable publisher answers, and a closed session's streams fail.  Nothing else
\* that peers do is owed.
Fairness ==
    /\ \A r \in Requests : WF_vars(RequestStep(r))
    /\ \A x \in Exchanges : WF_vars(ExchangeStep(x))
    /\ \A x \in Exchanges : WF_vars(AnswerDeadline(x))
    /\ \A x \in Requests \X Reliable : WF_vars(Accepts(x))
    /\ \A x \in Exchanges : WF_vars(StreamDies(x))
    /\ \A p \in Publishers : WF_vars(CloseStep(p))

FairSpec == Spec /\ Fairness
-----------------------------------------------------------------------------
RequestPcs == {"start", "join", "assign", "forward", "answer", "live", "leave",
               "unalias", "remove", "end", "closed"}

ExchangePcs == {"idle", "send", "sent", "register", "wait", "cancelled", "ok",
                "confirm", "tell", "tellWaiting", "ended", "drop", "notify", "error",
                "reject", "tellError", "tellErrorWaiting", "retire", "unalias",
                "remove", "over"}

Statuses == {"Pending", "Confirmed", "Rejected"}

TrackRef == {NoTrack} \union TrackIds

Track == [status : Statuses, origin : {"Subscribe", "CacheOnly"},
          subs : SUBSET Requests, waiting : SUBSET Requests,
          pubs : SUBSET Publishers, unanswered : Nat,
          registered : SUBSET Exchanges, cached : BOOLEAN]

Request == [pc : RequestPcs, track : TrackRef, creator : BOOLEAN,
            asked : SUBSET Publishers, seen : Statuses,
            responses : Seq({"ok", "error"}), told : BOOLEAN, gone : BOOLEAN,
            dropped : SUBSET Publishers]

Exchange == [pc : ExchangePcs, home : TrackRef, track : TrackRef, answered : BOOLEAN,
             pending : BOOLEAN, unsupported : BOOLEAN, cancel : BOOLEAN,
             accepted : BOOLEAN, dropped : SUBSET Publishers]

Closing == [pc : {"idle", "retire", "unalias", "remove", "forget", "closed"},
            track : TrackRef, dropped : SUBSET Publishers]

RequestsHaveTracks ==
    \A r \in Requests :
        req[r].pc \in {"join", "assign", "forward", "answer", "leave"}
            => req[r].track \in TrackIds

ExchangesHaveTracks ==
    \A x \in Exchanges :
        /\ exch[x].pc = "register" => exch[x].home \in TrackIds
        /\ exch[x].pc \in {"confirm", "tell", "tellWaiting", "drop", "notify",
                           "tellErrorWaiting"} => exch[x].track \in TrackIds

\* The type invariant; a task that uses a Track has one.
TypeOK ==
    /\ current \in TrackRef
    /\ made \in 0..MaxTracks
    /\ tracks \in [TrackIds -> Track]
    /\ aliases \in SUBSET Publishers
    /\ connected \in SUBSET Publishers
    /\ req \in [Requests -> Request]
    /\ exch \in [Exchanges -> Exchange]
    /\ closing \in [Publishers -> Closing]
    /\ RequestsHaveTracks
    /\ ExchangesHaveTracks

\* "their request streams take exactly one response": an answer comes from the
\* publisher that confirmed the track, from the last one to decline, or from the
\* track's status, and never from two of them.
OneResponse == \A r \in Requests : Len(req[r].responses) <= 1

\* "One publisher declining is not grounds for that while others may still
\* accept": the creator hears REQUEST_ERROR only if no publisher it asked has
\* been or will be accepted.
RefusalIsUnanimous ==
    \A r \in Requests, p \in Publishers :
        (\E i \in DOMAIN req[r].responses : req[r].responses[i] = "error")
            => ~exch[<<r, p>>].accepted

\* A subscriber that found the track Pending waits only while somebody is to
\* answer it: the publisher that confirms the track is not done before the
\* waiting list is empty, and nobody is put on the list after that.
NoWaiterForgotten ==
    \A t \in TrackIds :
        tracks[t].status = "Confirmed" /\ tracks[t].waiting # {} =>
            \E x \in Exchanges : exch[x].track = t /\ exch[x].pc \in {"tell", "tellWaiting"}

\* The point of `handover': an upstream request is never left running on a track
\* that nobody subscribes to, however leaving and registering interleave.
UpstreamReleased ==
    \A t \in TrackIds : tracks[t].subs = {} => tracks[t].registered = {}

\* A publisher that serves the track in the map is reachable over its alias.
AliasServes == current # NoTrack => tracks[current].pubs \subseteq aliases

\* "a SUBSCRIBE cannot join after the cancel and be left on an upstream that is
\* gone": a subscriber that has been neither refused nor told that the track is
\* over subscribes to the track in the map.
NotLeftBehind ==
    \A t \in TrackIds : \A r \in tracks[t].subs :
        /\ req[r].pc = "live"
        /\ ~req[r].told
        /\ \A i \in DOMAIN req[r].responses : req[r].responses[i] # "error"
        => current = t

\* "a track nothing upstream serves any more: its last publisher left" is let go
\* of: a subscriber that was accepted and not told that the track is over has a
\* publisher, or a task that is about to tell it.
AcceptedIsServed ==
    \A t \in TrackIds : \A r \in tracks[t].subs :
        req[r].pc = "live" /\ ~req[r].told /\ req[r].responses = <<"ok">> =>
            \/ tracks[t].pubs # {}
            \/ \E x \in Exchanges : exch[x].track = t /\ exch[x].pc = "notify"

Answered(r) == req[r].responses # <<>>

\* Every SUBSCRIBE that got as far as a track is answered.
EveryoneAnswered == \A r \in Requests : (req[r].pc = "join") ~> Answered(r)

\* Once every subscriber has gone, every upstream subscription comes to an end.
UpstreamEnds ==
    (\A r \in Requests : req[r].pc = "closed")
        ~> (\A x \in Exchanges : exch[x].pc \in {"idle", "over"})

\* A publisher whose session closed stops serving the track, even one whose
\* SUBSCRIBE_OK is handled while the session closes and puts it back.
ClosedPublisherLeaves ==
    \A p \in Publishers :
        (closing[p].pc = "closed")
            ~> (current = NoTrack \/ p \notin tracks[current].pubs)
=============================================================================
