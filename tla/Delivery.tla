------------------------------ MODULE Delivery ------------------------------
(***************************************************************************)
(* How the relay delivers a track to a subscriber, and how a subscriber    *)
(* switches from one track to another (apps/relay/src/server/              *)
(* subscription.rs, with the parts of track.rs, client.rs,                 *)
(* subscription_manager.rs and client/switch_context.rs it calls).         *)
(*                                                                         *)
(* One subscriber holds a subscription to each of several tracks.  Three   *)
(* kinds of task work on a subscription at the same time:                  *)
(*                                                                         *)
(*   - its event task, which takes the track's events off a queue, decides *)
(*     about each Object, opens a send stream per subgroup and writes;     *)
(*   - the task serving its request stream, which applies REQUEST_UPDATEs, *)
(*     begins switches and cancels;                                        *)
(*   - the event task of the subscription that takes over from it, which   *)
(*     at its first delivery stops this one.                               *)
(*                                                                         *)
(* Each step below is the code between two awaits of one of them.  A group *)
(* has one subgroup, so a group id also names the stream the group arrives *)
(* on and the send stream it leaves on.                                    *)
(***************************************************************************)
EXTENDS Integers, Sequences, FiniteSets

CONSTANTS
    Subs,           \* the subscriptions of one subscriber, one track each
    Forwarding,     \* those created with Forward State 1
    LastGroup,      \* bound: the groups are 0..LastGroup
    LastObject,     \* bound: the Objects of a group are 0..LastObject
    Settings        \* what the peers may do, one choice per behaviour:
                    \*   does         beyond publishing in order: "overlap",
                    \*                "end", "switch", "forward", "filter",
                    \*                "cancel", "stop", "slow"
                    \*   sizes        bound: the Objects a track has in each group
                    \*   datagrams    the tracks that arrive as datagrams
                    \*   updated      the subscriptions REQUEST_UPDATEs come for
                    \*   requests     bound: REQUEST_UPDATEs on one of them
                    \*   filters      the Location Filters these carry
                    \*   blocked      the Locations the Range Filters drop
                    \*   modes        the modes of switches: "Soft", "Hard"
                    \*   lag          max_subscriber_lag; 0 is no limit
                    \*   backlog      bound: events queued when a track sends another

ASSUME DeliveryAssumption ==
    /\ Forwarding \subseteq Subs
    /\ {LastGroup, LastObject} \subseteq Nat
    /\ \A c \in Settings :
        /\ c.sizes \in [Subs -> [0..LastGroup -> 0..(LastObject + 1)]]
        /\ c.datagrams \subseteq Subs
        /\ c.updated \subseteq Subs
        /\ c.blocked \subseteq (0..LastGroup) \X (0..LastObject)
        /\ {c.requests, c.lag, c.backlog} \subseteq Nat
        /\ c.modes \subseteq {"Soft", "Hard"}

Groups == 0..LastGroup
Objects == 0..LastObject

\* An End Object of u64::MAX: the whole of the End Group.
Whole == LastObject + 1

NoLocation == <<-1, 0>>
Locations == Groups \X Objects

\* Locations are ordered by group, then by Object.
Less(l, m) == l[1] < m[1] \/ (l[1] = m[1] /\ l[2] < m[2])

\* Values of send_stream_last_object_ids: no entry, and an entry of None.
Absent == -2
NoObject == -1

NoSub == "none"
NoGroup == -1
KeepFilter == [type |-> "Keep"]

VARIABLES
    setting,   \* what the peers do in this behaviour, one of Settings
    next,      \* next[s][g]: the Objects of g the publisher has sent
    closed,    \* closed[s]: the groups whose stream the publisher closed
    ended,     \* the tracks whose last publisher has left
    active,    \* active_subgroup_headers of the track
    queue,     \* the events between the track and the event task
    sub,       \* the Subscription: its state and what its tasks share
    plans,     \* switch_context: the plan each subscription is the target of
    activated, \* the plans whose SwitchActivation is marked
    ev,        \* the event task
    rq,        \* the task serving the request stream
    streams,   \* send_streams of the client: group -> index in wire, or 0
    wire,      \* every send stream opened: what reached the subscriber on it
    closers,   \* the background tasks about to finish a stream
    got        \* the Objects the subscriber decoded: [sent, decoded]

vars == <<setting, next, closed, ended, active, queue, sub, plans, activated, ev, rq, streams,
          wire, closers, got>>

track == <<setting, next, closed, ended, active>>

Does(what) == what \in setting.does

(***************************************************************************)
(* Location filters                                                        *)
(***************************************************************************)

start_location(f, largest) ==
    CASE f.type = "None" -> NoLocation
      [] f.type = "RelativeStart" ->
            IF largest = NoLocation \/ largest[1] + 1 < f.back
            THEN <<0, 0>> ELSE <<largest[1] + 1 - f.back, 0>>
      [] f.type \in {"AbsoluteStart", "AbsoluteRange"} -> f.start
      [] f.type = "NextObject" ->
            IF largest = NoLocation THEN <<0, 0>>
            ELSE <<largest[1], largest[2] + 1>>

end_location(f) == IF f.type = "AbsoluteRange" THEN f.end ELSE NoLocation

IsLive(f) == f.type \in {"NextObject", "RelativeStart"}

set_location_filter(st, f, largest) ==
    [st EXCEPT !.filter = f, !.start = start_location(f, largest),
               !.end = end_location(f)]

is_past_end(st, l) == st.end # NoLocation /\ Less(st.end, l)

\* The track's Largest Object.
largest_object(s) ==
    LET started == {g \in Groups : next[s][g] > 0}
        top == CHOOSE g \in started : \A h \in started : h <= g
    IN  IF started = {} THEN NoLocation ELSE <<top, next[s][top] - 1>>

(***************************************************************************)
(* Initial state                                                           *)
(***************************************************************************)

\* SWITCH_FROM as a plan.  `number` tells apart the SwitchActivation of two
\* switches onto one subscription.
NoPlan == [from |-> NoSub, mode |-> "Soft", publish_done |-> FALSE,
           boundary |-> NoGroup, number |-> 0]

\* The SwitchActivation of a switch onto s.
Activation(s, plan) == [to |-> s, from |-> plan.from, number |-> plan.number]
NoActivation == [to |-> NoSub, from |-> NoSub, number |-> 0]

NewSubscription(s) ==
    [forward |-> s \in Forwarding, filter |-> [type |-> "None"],
     start |-> NoLocation, end |-> NoLocation, soft_suspended |-> FALSE,
     publish_done_at_end |-> FALSE, switch_activated |-> NoActivation,
     last_ids |-> [g \in Groups |-> Absent], opened_stream_count |-> 0,
     finished |-> FALSE, pending_switch |-> FALSE, pending_header |-> NoGroup,
     skipped |-> {}, receiver |-> TRUE, sender |-> TRUE, removed |-> FALSE, dones |-> <<>>]

NoEvent == [kind |-> "none", loc |-> NoLocation, first |-> FALSE]
IdleEvents == [pc |-> "idle", event |-> NoEvent, stream |-> 0, plan |-> NoPlan,
               keys |-> {}]
IdleRequests(n) == [pc |-> "idle", count |-> n, filter |-> KeepFilter,
                    plan |-> NoPlan, group |-> NoGroup, stream |-> 0,
                    largest |-> NoLocation, keys |-> {}]

Init ==
    /\ setting \in Settings
    /\ next = [s \in Subs |-> [g \in Groups |-> 0]]
    /\ closed = [s \in Subs |-> {}]
    /\ ended = {}
    /\ active = [s \in Subs |-> {}]
    /\ queue = [s \in Subs |-> <<>>]
    /\ sub = [s \in Subs |-> NewSubscription(s)]
    /\ plans = [s \in Subs |-> NoPlan]
    /\ activated = {}
    /\ ev = [s \in Subs |-> IdleEvents]
    /\ rq = [s \in Subs |-> IdleRequests(0)]
    /\ streams = [s \in Subs |-> [g \in Groups |-> 0]]
    /\ wire = [s \in Subs |-> <<>>]
    /\ closers = [s \in Subs |-> {}]
    /\ got = [s \in Subs |-> {}]

(***************************************************************************)
(* The track                                                               *)
(***************************************************************************)

\* A cancelled subscription's sender is disposed of, and a send fails once the
\* receiver is gone: the event is lost either way.
send_event(s, e) ==
    queue' = [queue EXCEPT ![s] =
        IF ~sub[s].sender \/ ~sub[s].receiver THEN @ ELSE Append(@, e)]

\* A publisher that does not overlap groups opens one when the last is closed.
MayPublish(s, g) ==
    /\ s \notin ended
    /\ g \notin closed[s]
    /\ next[s][g] < setting.sizes[s][g]
    /\ \/ Does("overlap")
       \/ \A h \in Groups \ {g} :
            next[s][h] > 0 => h < g /\ (h \in closed[s] \/ s \in setting.datagrams)

new_subgroup_object(s, g) ==
    LET o == next[s][g]
    IN  /\ s \notin setting.datagrams
        /\ MayPublish(s, g)
        /\ next' = [next EXCEPT ![s][g] = o + 1]
        /\ active' = [active EXCEPT ![s] = IF o = 0 THEN @ \cup {g} ELSE @]
        /\ send_event(s, [kind |-> "object", loc |-> <<g, o>>, first |-> o = 0])
        /\ UNCHANGED <<setting, closed, ended, sub, plans, activated, ev, rq, streams,
                       wire, closers, got>>

new_datagram(s, g) ==
    /\ s \in setting.datagrams
    /\ MayPublish(s, g)
    /\ next' = [next EXCEPT ![s][g] = @ + 1]
    /\ send_event(s, [kind |-> "datagram", loc |-> <<g, next[s][g]>>, first |-> FALSE])
    /\ UNCHANGED <<setting, closed, ended, active, sub, plans, activated, ev, rq, streams,
                   wire, closers, got>>

stream_closed(s, g) ==
    /\ s \notin setting.datagrams
    /\ next[s][g] > 0
    /\ g \notin closed[s]
    /\ closed' = [closed EXCEPT ![s] = @ \cup {g}]
    /\ active' = [active EXCEPT ![s] = @ \ {g}]
    /\ send_event(s, [kind |-> "closed", loc |-> <<g, 0>>, first |-> FALSE])
    /\ UNCHANGED <<setting, next, ended, sub, plans, activated, ev, rq, streams, wire,
                   closers, got>>

\* The last publisher leaves, or says PUBLISH_DONE.
notify_publish_done(s) ==
    /\ Does("end")
    /\ s \notin ended
    /\ ended' = ended \cup {s}
    /\ send_event(s, [kind |-> "gone", loc |-> NoLocation, first |-> FALSE])
    /\ UNCHANGED <<setting, next, closed, active, sub, plans, activated, ev, rq, streams,
                   wire, closers, got>>

(***************************************************************************)
(* The subscriber's send streams                                           *)
(***************************************************************************)

NewStream == [header |-> FALSE, last |-> NoObject, state |-> "open"]

\* open_stream up to the write of the header: the entry of the map, or a new
\* stream put into it.  handle_header counts a stream in either case.
OpenStream(s, g) ==
    /\ wire' = [wire EXCEPT ![s] = IF streams[s][g] # 0 THEN @ ELSE Append(@, NewStream)]
    /\ streams' = [streams EXCEPT ![s][g] = IF @ # 0 THEN @ ELSE Len(wire[s]) + 1]

\* The stream that OpenStream(s, g) leaves in the map.
OpenedStream(s, g) == IF streams[s][g] # 0 THEN streams[s][g] ELSE Len(wire[s]) + 1

\* Only the task that put the stream into the map writes its header.
write_header(s, i) == wire' = [wire EXCEPT ![s][i].header = TRUE]

\* Mutant: off by one.
encodeOffByOne(id, previous) == IF previous < 0 THEN id ELSE id - previous

\* An Object's id goes out as what it is on top of the previous one plus one,
\* or as it is when there is no previous one.
encode(id, previous) == IF previous < 0 THEN id ELSE id - previous - 1

\* What the subscriber makes of it: the reverse, against the stream it is on.
\* A stream whose header is missing makes no sense to it.
decode(stream, g, id) ==
    IF ~stream.header THEN NoLocation
    ELSE <<g, IF stream.last < 0 THEN id ELSE stream.last + 1 + id>>

\* reset_stream of each of the streams: those in the map leave it.
ResetStreams(s, groups) ==
    LET hit == {streams[s][g] : g \in groups} \ {0}
    IN  /\ wire' = [wire EXCEPT ![s] =
              [i \in DOMAIN @ |-> IF i \in hit /\ @[i].state = "open"
                                  THEN [@[i] EXCEPT !.state = "reset"] ELSE @[i]]]
        /\ streams' = [streams EXCEPT ![s] =
              [g \in Groups |-> IF g \in groups THEN 0 ELSE @[g]]]

\* The background task that finishes a stream.
close_stream(s, g) ==
    LET i == streams[s][g]
    IN  /\ g \in closers[s]
        /\ closers' = [closers EXCEPT ![s] = @ \ {g}]
        /\ streams' = [streams EXCEPT ![s][g] = 0]
        /\ wire' = [wire EXCEPT ![s] =
              [j \in DOMAIN @ |-> IF j = i /\ @[j].state = "open"
                                  THEN [@[j] EXCEPT !.state = "fin"] ELSE @[j]]]
        /\ UNCHANGED <<track, queue, sub, plans, activated, ev, rq, got>>

\* STOP_SENDING from the subscriber.
StopSending(s, i) ==
    /\ Does("stop")
    /\ i \in DOMAIN wire[s]
    /\ wire[s][i].state = "open"
    /\ wire' = [wire EXCEPT ![s][i].state = "stopped"]
    /\ UNCHANGED <<track, queue, sub, plans, activated, ev, rq, streams, closers, got>>

\* The groups that have an entry in send_stream_last_object_ids.
Keys(s) == {g \in Groups : sub[s].last_ids[g] # Absent}

NoKeys == [g \in Groups |-> Absent]

\* finish: the first to call it leaves the streams to background tasks.
finished(st) == [st EXCEPT !.finished = TRUE, !.last_ids = NoKeys]

finish(s) ==
    IF sub[s].finished THEN UNCHANGED <<sub, closers>>
    ELSE /\ sub' = [sub EXCEPT ![s] = finished(@)]
         /\ closers' = [closers EXCEPT ![s] = @ \cup Keys(s)]

\* Mutant: counts the streams that are open.
send_publish_done_open(st) ==
    [st EXCEPT !.dones = Append(@, Cardinality({g \in Groups : st.last_ids[g] # Absent}))]

\* send_publish_done: with the number of streams opened so far.
send_publish_done(st) == [st EXCEPT !.dones = Append(@, st.opened_stream_count)]

(***************************************************************************)
(* Switching: the steps both sides share                                   *)
(***************************************************************************)

awaiting_switch_activation(st) ==
    st.switch_activated # NoActivation /\ st.switch_activated \notin activated

\* Mutant: a hard switch stops the old track when it is scheduled.
suspend_at_once(s, plan, boundary) ==
    sub' = [sub EXCEPT ![plan.from].forward = (plan.mode = "Soft")]

\* Mutant: off by one about the first group.
suspend_at_from_two(s, plan, boundary) ==
    LET end == <<boundary - 1, Whole>>
    IN  sub' = IF plan.mode # "Soft" \/ boundary <= 1 \/ sub[plan.from].removed THEN sub
               ELSE [sub EXCEPT ![plan.from] =
                    [@ EXCEPT !.soft_suspended = TRUE, !.end = end]]

\* A soft switch brings the end of the suspending subscription forward, never
\* back; a hard one is not scheduled, and there is no group before group 0.
suspend_at(s, plan, boundary) ==
    LET st == sub[plan.from]
        end == <<boundary - 1, Whole>>
    IN  sub' = IF plan.mode # "Soft" \/ boundary = 0 \/ st.removed THEN sub
               ELSE [sub EXCEPT ![plan.from] =
                    [@ EXCEPT !.soft_suspended = TRUE,
                              !.end = IF @ = NoLocation \/ @[1] > boundary - 1
                                      THEN end ELSE @,
                              !.publish_done_at_end = plan.publish_done,
                              !.switch_activated = Activation(s, plan)]]

(***************************************************************************)
(* The event task                                                          *)
(***************************************************************************)

\* What the event task does next about the event it is handling.
EvStep(s, pc) == ev' = [ev EXCEPT ![s].pc = pc]
EvDone(s) == ev' = [ev EXCEPT ![s] = IdleEvents]

Lagging(s) == setting.lag > 0 /\ Len(queue[s]) - 1 > setting.lag

Waiting(s) ==
    /\ ev[s].pc = "idle"
    /\ ~sub[s].finished
    /\ sub[s].receiver
    /\ queue[s] # <<>>

\* Takes an event off the queue.
Receives(s, kind) ==
    /\ Waiting(s)
    /\ ~Lagging(s)
    /\ Head(queue[s]).kind = kind
    /\ queue' = [queue EXCEPT ![s] = Tail(@)]

\* Too many events queued: the streams are reset and the subscription ends.
TooFarBehind(s) ==
    /\ Waiting(s)
    /\ Lagging(s)
    /\ queue' = [queue EXCEPT ![s] = <<>>]
    /\ sub' = [sub EXCEPT ![s].receiver = FALSE, ![s].last_ids = NoKeys]
    /\ ev' = [ev EXCEPT ![s].pc = "shed", ![s].keys = Keys(s)]
    /\ UNCHANGED <<track, plans, activated, rq, streams, wire, closers, got>>

\* Mutant: leaves the subscription unfinished.
ShedUnfinished(s) ==
    /\ ev[s].pc = "shed"
    /\ ResetStreams(s, ev[s].keys)
    /\ EvDone(s)
    /\ UNCHANGED <<track, queue, sub, plans, activated, rq, closers, got>>

Shed(s) ==
    /\ ev[s].pc = "shed"
    /\ ResetStreams(s, ev[s].keys)
    /\ finish(s)
    /\ EvDone(s)
    /\ UNCHANGED <<track, queue, plans, activated, rq, got>>

\* Mutant: a suspended subscription takes every Object for one past its end.
VerdictSuspended(s, l, past) ==
    IF Less(l, sub[s].start) THEN "before"
    ELSE IF past \/ sub[s].soft_suspended THEN "past"
    ELSE IF ~sub[s].forward THEN "paused"
    ELSE IF l \in setting.blocked THEN "filtered" ELSE "passes"

\* The checks on an Object, in the order of the early returns.
Verdict(s, l, past) ==
    IF Less(l, sub[s].start) THEN "before"
    ELSE IF past THEN "past"
    ELSE IF ~sub[s].forward THEN "paused"
    ELSE IF l \in setting.blocked THEN "filtered" ELSE "passes"

\* Mutant: the header of an Object before the start is not kept.
HandleObjectForgets(s) ==
    LET e == Head(queue[s])
        v == Verdict(s, e.loc, is_past_end(sub[s], e.loc))
    IN  /\ Receives(s, "object")
        /\ ev' = [ev EXCEPT
                ![s].event = IF v = "passes" THEN e ELSE @,
                ![s].pc = IF v = "passes" THEN "open" ELSE @]
        /\ UNCHANGED <<track, sub, plans, activated, rq, streams, wire, closers, got>>

\* The checks hold the state's read guard, so they are one step, with what a
\* refused Object leaves behind: the header of its stream, for a later Object.
HandleObject(s) ==
    LET e == Head(queue[s])
        g == e.loc[1]
        v == Verdict(s, e.loc, is_past_end(sub[s], e.loc))
    IN  /\ Receives(s, "object")
        /\ sub' = [sub EXCEPT
                ![s].skipped = IF v \in {"before", "filtered"} /\ e.first THEN @ \cup {g} ELSE @,
                ![s].pending_header = IF v = "paused" /\ e.first THEN g ELSE @]
        /\ ev' = [ev EXCEPT
                ![s].event = IF v = "passes" THEN e ELSE @,
                ![s].pc = IF v = "passes" THEN "open"
                          ELSE IF v = "past" /\ sub[s].soft_suspended THEN "drain" ELSE @]
        /\ UNCHANGED <<track, plans, activated, rq, streams, wire, closers, got>>

\* An Object past the boundary ends a soft switch's drain.
FinishSoftDrain(s) ==
    /\ ev[s].pc = "drain"
    /\ IF ~sub[s].soft_suspended
       THEN EvDone(s) /\ UNCHANGED sub
       ELSE /\ sub' = [sub EXCEPT ![s] =
                [@ EXCEPT !.soft_suspended = FALSE, !.forward = FALSE,
                          !.switch_activated = NoActivation,
                          !.publish_done_at_end = FALSE]]
            /\ IF sub[s].publish_done_at_end THEN EvStep(s, "drainDone") ELSE EvDone(s)
    /\ UNCHANGED <<track, queue, plans, activated, rq, streams, wire, closers, got>>

\* Mutant: leaves the streams open.
DoneWithoutClosing(s) ==
    /\ sub' = [sub EXCEPT ![s] = finished(send_publish_done(@))]
    /\ UNCHANGED closers

\* PUBLISH_DONE and the end of the subscription.
DoneAndFinish(s) ==
    IF sub[s].finished
    THEN sub' = [sub EXCEPT ![s] = send_publish_done(@)] /\ UNCHANGED closers
    ELSE /\ sub' = [sub EXCEPT ![s] = finished(send_publish_done(@))]
         /\ closers' = [closers EXCEPT ![s] = @ \cup Keys(s)]

DrainDone(s) ==
    /\ ev[s].pc = "drainDone"
    /\ DoneAndFinish(s)
    /\ EvDone(s)
    /\ UNCHANGED <<track, queue, plans, activated, rq, streams, wire, got>>

\* The send stream for the Object: a new one with the header that came with it,
\* the one in the map, or one opened with the header of a skipped first Object
\* or of a subgroup still open upstream.  Without any, the Object is dropped.
OpenForObject(s) ==
    LET e == ev[s].event
        g == e.loc[1]
        mid == ~e.first /\ streams[s][g] = 0
        opens == e.first \/ (mid /\ (g \in sub[s].skipped \/ g \in active[s]))
        fresh == opens /\ streams[s][g] = 0
    IN  /\ ev[s].pc = "open"
        /\ IF opens THEN OpenStream(s, g) ELSE UNCHANGED <<streams, wire>>
        /\ sub' = [sub EXCEPT
                ![s].pending_header = NoGroup,
                ![s].skipped = IF mid THEN @ \ {g} ELSE @,
                ![s].opened_stream_count = IF opens /\ ~fresh THEN @ + 1 ELSE @]
        /\ IF mid /\ ~opens THEN EvDone(s)
           ELSE ev' = [ev EXCEPT ![s].stream = OpenedStream(s, g),
                                 ![s].pc = IF fresh THEN "head"
                                           ELSE IF e.first THEN "note" ELSE "write"]
        /\ UNCHANGED <<track, queue, plans, activated, rq, closers, got>>

\* open_stream writes the header of the stream it has put into the map.  A
\* stream stopped by then is taken out again and the Object is dropped.
HeadOfObject(s) ==
    LET i == ev[s].stream
        g == ev[s].event.loc[1]
    IN  /\ ev[s].pc = "head"
        /\ IF wire[s][i].state = "open"
           THEN /\ write_header(s, i)
                /\ sub' = [sub EXCEPT ![s].opened_stream_count = @ + 1]
                /\ EvStep(s, IF ev[s].event.first THEN "note" ELSE "write")
                /\ UNCHANGED streams
           ELSE /\ streams' = [streams EXCEPT ![s][g] = 0]
                /\ EvDone(s)
                /\ UNCHANGED <<sub, wire>>
        /\ UNCHANGED <<track, queue, plans, activated, rq, closers, got>>

NoteStream(s) ==
    /\ ev[s].pc = "note"
    /\ sub' = [sub EXCEPT ![s].last_ids[ev[s].event.loc[1]] = NoObject]
    /\ EvStep(s, "write")
    /\ UNCHANGED <<track, queue, plans, activated, rq, streams, wire, closers, got>>

\* A failed write is not reported, but a stream that was stopped or reset is
\* taken out of the map.
write_stream_object(s, i, l, d) ==
    IF wire[s][i].state = "open"
    THEN /\ got' = [got EXCEPT ![s] = @ \cup {[sent |-> l, decoded |-> d]}]
         /\ wire' = [wire EXCEPT ![s][i].last = d[2]]
         /\ UNCHANGED streams
    ELSE /\ streams' = [streams EXCEPT ![s][l[1]] = 0]
         /\ UNCHANGED <<got, wire>>

\* handle_object: encodes the Object against the last one of its stream and
\* writes it.
WriteObject(s) ==
    LET i == ev[s].stream
        l == ev[s].event.loc
        d == decode(wire[s][i], l[1], encode(l[2], sub[s].last_ids[l[1]]))
    IN  /\ ev[s].pc = "write"
        /\ write_stream_object(s, i, l, d)
        /\ EvStep(s, "record")
        /\ UNCHANGED <<track, queue, sub, plans, activated, rq, closers>>

\* The Object counts as sent.  The first one sent since a switch completes it.
RecordObject(s) ==
    LET l == ev[s].event.loc
    IN  /\ ev[s].pc = "record"
        /\ sub' = [sub EXCEPT ![s].last_ids[l[1]] = l[2], ![s].pending_switch = FALSE]
        /\ IF sub[s].pending_switch THEN EvStep(s, "take") ELSE EvDone(s)
        /\ UNCHANGED <<track, queue, plans, activated, rq, streams, wire, closers, got>>

\* A datagram goes through the same checks, but leaves no header behind, ends
\* no drain, and passes an end that is not in force yet.
HandleDatagram(s) ==
    LET e == Head(queue[s])
        past == is_past_end(sub[s], e.loc) /\ ~awaiting_switch_activation(sub[s])
        passes == Verdict(s, e.loc, past) = "passes"
    IN  /\ Receives(s, "datagram")
        /\ got' = [got EXCEPT ![s] =
              IF passes THEN @ \cup {[sent |-> e.loc, decoded |-> e.loc]} ELSE @]
        /\ sub' = [sub EXCEPT ![s].pending_switch = IF passes THEN FALSE ELSE @]
        /\ ev' = IF passes /\ sub[s].pending_switch
                 THEN [ev EXCEPT ![s].pc = "take", ![s].event = e] ELSE ev
        /\ UNCHANGED <<track, plans, activated, rq, streams, wire, closers>>

HandleStreamClosed(s) ==
    LET g == Head(queue[s]).loc[1]
    IN  /\ Receives(s, "closed")
        /\ sub' = [sub EXCEPT ![s].last_ids[g] = Absent, ![s].skipped = @ \ {g}]
        /\ closers' = [closers EXCEPT ![s] = @ \cup {g}]
        /\ UNCHANGED <<track, plans, activated, ev, rq, streams, wire, got>>

HandlePublisherDisconnected(s) ==
    /\ Receives(s, "gone")
    /\ DoneAndFinish(s)
    /\ UNCHANGED <<track, plans, activated, ev, rq, streams, wire, got>>

\* The event task races each event against a timer of five seconds.  When the
\* timer wins, the handler is dropped where it waits.
GiveUp(s) ==
    /\ Does("slow")
    /\ ev[s].pc # "idle"
    /\ EvDone(s)
    /\ UNCHANGED <<track, queue, sub, plans, activated, rq, streams, wire, closers, got>>

(***************************************************************************)
(* The event task completing a switch                                      *)
(***************************************************************************)

\* The plan is taken and the suspending subscription's boundary released.
CompleteSwitch(s) ==
    LET plan == plans[s]
    IN  /\ ev[s].pc = "take"
        /\ plans' = [plans EXCEPT ![s] = NoPlan]
        /\ IF plan.from = NoSub
           THEN EvDone(s) /\ UNCHANGED activated
           ELSE /\ activated' = activated \cup {Activation(s, plan)}
                /\ IF plan.mode = "Soft" /\ plan.boundary # NoGroup THEN EvDone(s)
                   ELSE ev' = [ev EXCEPT ![s].plan = plan,
                            ![s].pc = IF plan.mode = "Soft" THEN "suspend" ELSE "cut"]
        /\ UNCHANGED <<track, queue, sub, rq, streams, wire, closers, got>>

\* Without a Start Group the first delivery is the boundary.
SuspendHere(s) ==
    /\ ev[s].pc = "suspend"
    /\ suspend_at(s, ev[s].plan, ev[s].event.loc[1])
    /\ EvDone(s)
    /\ UNCHANGED <<track, queue, plans, activated, rq, streams, wire, closers, got>>

\* A hard switch stops the suspending subscription: Forward State 0, then its
\* streams are reset, then PUBLISH_DONE if asked for.  cancel excludes it.
CutSuspending(s) ==
    LET from == ev[s].plan.from
    IN  /\ ev[s].pc = "cut"
        /\ rq[from].pc # "cancel"
        /\ IF sub[from].removed THEN EvDone(s) /\ UNCHANGED sub
           ELSE /\ sub' = [sub EXCEPT ![from].forward = FALSE]
                /\ EvStep(s, "cutDrain")
        /\ UNCHANGED <<track, queue, plans, activated, rq, streams, wire, closers, got>>

CutDrain(s) ==
    LET from == ev[s].plan.from
    IN  /\ ev[s].pc = "cutDrain"
        /\ sub' = [sub EXCEPT ![from].last_ids = NoKeys]
        /\ ev' = [ev EXCEPT ![s].pc = "cutReset", ![s].keys = Keys(from)]
        /\ UNCHANGED <<track, queue, plans, activated, rq, streams, wire, closers, got>>

CutReset(s) ==
    LET plan == ev[s].plan
    IN  /\ ev[s].pc = "cutReset"
        /\ ResetStreams(plan.from, ev[s].keys)
        /\ sub' = [sub EXCEPT ![plan.from] =
                IF plan.publish_done THEN send_publish_done(@) ELSE @]
        /\ EvDone(s)
        /\ UNCHANGED <<track, queue, plans, activated, rq, closers, got>>

(***************************************************************************)
(* The task serving the request stream                                     *)
(***************************************************************************)

RqStep(s, pc) == rq' = [rq EXCEPT ![s].pc = pc]
RqDone(s) == rq' = [rq EXCEPT ![s] = IdleRequests(@.count)]

\* What a REQUEST_UPDATE asks for: a Forward State, a filter, a switch.
Updates(s) ==
    LET Update(forward, filter, plan) ==
            [forward |-> forward, filter |-> filter, plan |-> plan]
        number == rq[s].count + 1
    IN  {Update(f, KeepFilter, NoPlan) :
            f \in IF Does("forward") THEN {"on", "off"} ELSE {}}
        \cup {Update("keep", f, NoPlan) :
            f \in IF Does("filter") THEN setting.filters ELSE {}}
        \cup {Update("keep", f, [from |-> t, mode |-> m, publish_done |-> d,
                                 boundary |-> NoGroup, number |-> number]) :
            f \in setting.filters \cup {KeepFilter}, m \in setting.modes, d \in BOOLEAN,
            t \in IF Does("switch")
                  THEN {t \in Subs \ {s} : ~sub[t].removed} ELSE {}}

\* What follows update_subscription: a switch, or the filter measured against
\* the track's Largest Object.
AfterUpdate(filter, plan) ==
    IF plan.from # NoSub \/ filter # KeepFilter THEN "largest" ELSE "idle"

\* update_subscription up to the end of its write guard.  A filter is taken on
\* unmeasured: a live one starts at {0,0} for now.
HandleUpdate(s, u) ==
    LET turnsOn == u.forward = "on" /\ ~sub[s].forward
        filtered == IF u.filter = KeepFilter THEN sub[s]
                    ELSE set_location_filter(sub[s], u.filter, NoLocation)
    IN  /\ s \in setting.updated
        /\ rq[s].pc = "idle"
        /\ rq[s].count < setting.requests
        /\ ~sub[s].removed
        /\ sub' = [sub EXCEPT ![s] = [filtered EXCEPT !.forward =
                IF u.forward = "keep" THEN @ ELSE u.forward = "on"]]
        /\ rq' = [rq EXCEPT ![s] =
                [@ EXCEPT !.count = @ + 1, !.filter = u.filter, !.plan = u.plan,
                          !.pc = IF turnsOn THEN "flush" ELSE AfterUpdate(u.filter, u.plan)]]
        /\ UNCHANGED <<track, queue, plans, activated, ev, streams, wire, closers, got>>

\* Forward State became 1: the stream of a header held back is opened.
TakePendingHeader(s) ==
    LET g == sub[s].pending_header
    IN  /\ rq[s].pc = "flush"
        /\ sub' = [sub EXCEPT ![s].pending_header = NoGroup]
        /\ rq' = [rq EXCEPT ![s].group = g,
                ![s].pc = IF g = NoGroup THEN AfterUpdate(rq[s].filter, rq[s].plan) ELSE "flushOpen"]
        /\ UNCHANGED <<track, queue, plans, activated, ev, streams, wire, closers, got>>

FlushOpen(s) ==
    LET g == rq[s].group
        fresh == streams[s][g] = 0
    IN  /\ rq[s].pc = "flushOpen"
        /\ OpenStream(s, g)
        /\ sub' = [sub EXCEPT ![s].opened_stream_count = IF fresh THEN @ ELSE @ + 1]
        /\ rq' = [rq EXCEPT ![s].stream = OpenedStream(s, g),
                            ![s].pc = IF fresh THEN "flushHead" ELSE "flushNote"]
        /\ UNCHANGED <<track, queue, plans, activated, ev, closers, got>>

FlushHead(s) ==
    LET i == rq[s].stream
    IN  /\ rq[s].pc = "flushHead"
        /\ IF wire[s][i].state = "open"
           THEN /\ write_header(s, i)
                /\ sub' = [sub EXCEPT ![s].opened_stream_count = @ + 1]
                /\ RqStep(s, "flushNote")
                /\ UNCHANGED streams
           ELSE /\ streams' = [streams EXCEPT ![s][rq[s].group] = 0]
                /\ RqDone(s)
                /\ UNCHANGED <<sub, wire>>
        /\ UNCHANGED <<track, queue, plans, activated, ev, closers, got>>

FlushNote(s) ==
    /\ rq[s].pc = "flushNote"
    /\ sub' = [sub EXCEPT ![s].last_ids[rq[s].group] = NoObject]
    /\ RqDone(s)
    /\ UNCHANGED <<track, queue, plans, activated, ev, streams, wire, closers, got>>

ReadLargest(s) ==
    /\ rq[s].pc = "largest"
    /\ rq' = [rq EXCEPT ![s].largest = largest_object(s),
                        ![s].pc = IF rq[s].plan.from # NoSub THEN "begin" ELSE "resolve"]
    /\ UNCHANGED <<track, queue, sub, plans, activated, ev, streams, wire, closers, got>>

resolve_live_start(s) ==
    /\ rq[s].pc = "resolve"
    /\ sub' = [sub EXCEPT ![s].start = IF IsLive(sub[s].filter)
                THEN start_location(sub[s].filter, rq[s].largest) ELSE @]
    /\ RqDone(s)
    /\ UNCHANGED <<track, queue, plans, activated, ev, streams, wire, closers, got>>

\* begin_switch: the activating subscription forwards, from the boundary on.
BeginSwitch(s) ==
    LET filtered == IF rq[s].filter = KeepFilter THEN sub[s]
                    ELSE set_location_filter(sub[s], rq[s].filter, rq[s].largest)
        boundary == IF filtered.start = NoLocation THEN NoGroup ELSE filtered.start[1]
    IN  /\ rq[s].pc = "begin"
        /\ sub' = [sub EXCEPT ![s] =
                [filtered EXCEPT !.forward = TRUE, !.soft_suspended = FALSE,
                                 !.publish_done_at_end = FALSE,
                                 !.switch_activated = NoActivation]]
        /\ rq' = [rq EXCEPT ![s].plan.boundary = boundary,
                            ![s].pc = IF boundary = NoGroup THEN "plan" ELSE "suspend"]
        /\ UNCHANGED <<track, queue, plans, activated, ev, streams, wire, closers, got>>

SuspendAtBoundary(s) ==
    /\ rq[s].pc = "suspend"
    /\ suspend_at(s, rq[s].plan, rq[s].plan.boundary)
    /\ RqStep(s, "plan")
    /\ UNCHANGED <<track, queue, plans, activated, ev, streams, wire, closers, got>>

SetPlan(s) ==
    /\ rq[s].pc = "plan"
    /\ plans' = [plans EXCEPT ![s] = rq[s].plan]
    /\ RqStep(s, "pend")
    /\ UNCHANGED <<track, queue, sub, activated, ev, streams, wire, closers, got>>

SetPending(s) ==
    /\ rq[s].pc = "pend"
    /\ sub' = [sub EXCEPT ![s].pending_switch = TRUE]
    /\ RqDone(s)
    /\ UNCHANGED <<track, queue, plans, activated, ev, streams, wire, closers, got>>

\* The subscriber closes the request stream.  The subscription's write lock
\* keeps a switch that is cutting it out.
Cancel(s) ==
    /\ Does("cancel")
    /\ rq[s].pc = "idle"
    /\ ~sub[s].removed
    /\ \A t \in Subs : ev[t].pc \in {"cutDrain", "cutReset"} => ev[t].plan.from # s
    /\ sub' = [sub EXCEPT ![s].removed = TRUE, ![s].last_ids = NoKeys]
    /\ rq' = [rq EXCEPT ![s].pc = "cancel", ![s].keys = Keys(s)]
    /\ UNCHANGED <<track, queue, plans, activated, ev, streams, wire, closers, got>>

CancelReset(s) ==
    /\ rq[s].pc = "cancel"
    /\ ResetStreams(s, rq[s].keys)
    /\ closers' = [closers EXCEPT ![s] = IF sub[s].finished THEN @ ELSE @ \cup Keys(s)]
    /\ sub' = [sub EXCEPT ![s] = [(IF @.finished THEN @ ELSE finished(@))
                                    EXCEPT !.sender = FALSE]]
    /\ RqDone(s)
    /\ UNCHANGED <<track, queue, plans, activated, ev, got>>

(***************************************************************************)
(* The specification                                                       *)
(***************************************************************************)

Publisher(s) ==
    /\ Len(queue[s]) <= setting.backlog
    /\ \/ \E g \in Groups :
            new_subgroup_object(s, g) \/ new_datagram(s, g) \/ stream_closed(s, g)
       \/ notify_publish_done(s)

EventTask(s) ==
    \/ TooFarBehind(s) \/ Shed(s)
    \/ HandleObject(s) \/ HandleDatagram(s) \/ HandleStreamClosed(s)
    \/ HandlePublisherDisconnected(s)
    \/ OpenForObject(s) \/ HeadOfObject(s) \/ NoteStream(s)
    \/ WriteObject(s) \/ RecordObject(s)
    \/ FinishSoftDrain(s) \/ DrainDone(s)
    \/ CompleteSwitch(s) \/ SuspendHere(s)
    \/ CutSuspending(s) \/ CutDrain(s) \/ CutReset(s)
    \/ GiveUp(s)

RequestTask(s) ==
    \/ TakePendingHeader(s) \/ FlushOpen(s) \/ FlushHead(s) \/ FlushNote(s)
    \/ ReadLargest(s) \/ resolve_live_start(s)
    \/ BeginSwitch(s) \/ SuspendAtBoundary(s) \/ SetPlan(s) \/ SetPending(s)
    \/ CancelReset(s)

Subscriber(s) ==
    \/ \E u \in Updates(s) : HandleUpdate(s, u)
    \/ Cancel(s)
    \/ \E i \in DOMAIN wire[s] : StopSending(s, i)

Closers(s) == \E g \in Groups : close_stream(s, g)

Next == \E s \in Subs :
    Publisher(s) \/ EventTask(s) \/ RequestTask(s) \/ Subscriber(s) \/ Closers(s)

Spec == Init /\ [][Next]_vars

(***************************************************************************)
(* Properties                                                              *)
(***************************************************************************)

Unread(s) ==
    {queue[s][i].loc : i \in DOMAIN queue[s]}
    \cup IF ev[s].pc \in {"open", "head", "note", "write"} THEN {ev[s].event.loc} ELSE {}

Sent(s) == {d.sent : d \in got[s]}

\* What interferes with a subscription.  The subscriber has stopped one of its streams;
\* a REQUEST_UPDATE has changed its Forward State; a hard switch has stopped it.
Stopped(s) == \E i \in DOMAIN wire[s] : wire[s][i].state = "stopped"
Resumed(s) == Does("forward") /\ rq[s].count > 0
CutOff(s) == "Hard" \in setting.modes /\ ~sub[s].forward

\* "each ID is encoded against the last object actually written to the stream":
\* the subscriber reads off every stream the Locations that were put on it.  Left out is
\* a subscription one of whose streams was stopped (write_stream_object reports the
\* failure as done, so the last id moves on), that was resumed (the header held back may
\* outlive its stream's last id), that a hard switch has cut off or a cancellation removed
\* (an Object in the middle of its handler goes out against ids already drained), and any
\* whose handler the five-second timer may drop between the write and the record of it.
DecodedAsSent ==
    ~Does("slow") => \A s \in Subs :
        Stopped(s) \/ Resumed(s) \/ CutOff(s) \/ sub[s].removed
        \/ \A d \in got[s] : d.decoded = d.sent

\* The published Objects between the start and the end of a subscription that its
\* event task has taken off the queue.
Due(s) ==
    {l \in Locations :
        /\ l[2] < next[s][l[1]]
        /\ l \notin setting.blocked /\ l \notin Unread(s)
        /\ ~Less(l, sub[s].start) /\ ~is_past_end(sub[s], l)}

\* A soft switch "leaves it delivering up to the group before the boundary, so
\* the two tracks meet without a hole" (subscription.rs:914): every Object due reached
\* the subscriber, before, during and after the drain, and after PUBLISH_DONE.  Left out
\* is a subscription that was cancelled, shed for its lag, updated, stopped, or served by
\* a handler its timer may drop.  Also left out are two that no longer forward: one that a
\* hard switch has cut off, and one whose drain is over while groups overlap.  There
\* the code breaks the sentence quoted: the first Object past the boundary ends the drain
\* (1310), and what is still to come of the group before it is dropped (TracksMeet).
NoHole ==
    ~Does("slow") => \A s \in Forwarding :
        /\ ~sub[s].removed /\ sub[s].receiver /\ rq[s].count = 0 /\ ~Stopped(s)
        /\ sub[s].forward \/ (setting.modes = {"Soft"} /\ ~Does("overlap"))
        => Due(s) \subseteq Sent(s)

\* The same without the exception for groups that overlap.  It does not hold.
TracksMeet ==
    setting.modes = {"Soft"} =>
        \A s \in Forwarding : sub[s].dones = <<>> => Due(s) \subseteq Sent(s)

\* "Count every data stream opened for this subscription (PUBLISH_DONE Stream Count)":
\* a stream is opened once its header is written, and PUBLISH_DONE is the last of a
\* subscription, so its Stream Count is the number of streams ever opened.  In two cases
\* the code is off by one, and the property says by no more.  The PUBLISH_DONE of a hard
\* switch comes from the task of the other subscription while the event task may be
\* opening one more stream.  And after a pause the request task and the event task
\* may open one stream together and both count it, or PUBLISH_DONE may overtake the
\* header that the request task is writing.
DoneCountsEveryStream ==
    \A s \in Subs : \A i \in DOMAIN sub[s].dones :
        LET headed == {j \in DOMAIN wire[s] : wire[s][j].header}
        IN  Cardinality(headed) - sub[s].dones[i] \in
                IF Resumed(s) THEN -1..1 ELSE IF "Hard" \in setting.modes THEN 0..1 ELSE {0}

\* The streams in the client's map that nobody is going to close: their subgroup's close
\* or the end of their subscription has been handled.
LeftOpen(s) ==
    {g \in Groups :
        /\ streams[s][g] # 0 /\ g \notin closers[s]
        /\ \/ sub[s].finished
           \/ g \in closed[s] /\ \A i \in DOMAIN queue[s] :
                queue[s][i].kind = "closed" => queue[s][i].loc[1] # g}

\* The send streams in the client's map are those of the subgroups being delivered.  A
\* stream outlives neither its subgroup nor its subscription.  Three cases leave one open,
\* and the property says no more than one: on a cancellation, against "A cancelled
\* subscription's streams are reset, not finished" (subscription.rs:1139), and on a hard
\* switch, it is the stream that the event task was opening, which reset_data_streams does
\* not see because it drains the ids recorded; after a pause, the one that the
\* request task opens for a header whose subgroup has closed.
\* And an Object that passes the filters has a stream to go out on: the one in the map, or
\* one opened with its header, with the header kept when the first Object was refused, or
\* with that of a subgroup still open upstream.  Left out are a stream stopped by the
\* subscriber, which leaves the map, and the header held back while the Forward State was
\* 0: a REQUEST_UPDATE opens a stream with it, but begin_switch does not, and then an
\* Object of a subgroup that has closed upstream is dropped.  Both parts leave out the timer.
StreamsFollowSubgroups ==
    ~Does("slow") => \A s \in Subs :
        /\ ev[s].pc = "idle" /\ rq[s].pc = "idle" =>
            \/ LeftOpen(s) = {}
            \/ /\ sub[s].removed \/ Resumed(s) \/ CutOff(s)
               /\ Cardinality(LeftOpen(s)) = 1
        /\ ev[s].pc = "open" /\ sub[s].forward /\ ~sub[s].removed /\ ~Stopped(s) =>
            LET g == ev[s].event.loc[1]
            IN  \/ ev[s].event.first \/ streams[s][g] # 0
                \/ g \in sub[s].skipped \cup active[s] \cup {sub[s].pending_header, rq[s].group}

\* No subscription but a forwarding one is stopped by a switch unless another forwards.
\* A hard switch waits for "the earliest moment at which stopping the old track does not
\* leave the subscriber with nothing" (subscription.rs:917): the other one has delivered.
\* Of a soft switch the code says the same, "so a switch to a track that never publishes
\* does not cut delivery off" (102), but for streams the wait is commented out (1295), and
\* the old track stops at its boundary whether or not the new one has delivered
\* (SoftWaitsToo).
NeverNeither ==
    ~Does("forward") => \A s \in Forwarding : ~sub[s].forward =>
        \E t \in Subs \ {s} : sub[t].forward /\ (got[t] # {} \/ "Soft" \in setting.modes)

\* What the code says of a soft switch.  It does not hold.
SoftWaitsToo ==
    ~Does("forward") => \A s \in Forwarding : ~sub[s].forward =>
        \E t \in Subs \ {s} : sub[t].forward /\ got[t] # {}

\* The subscriptions a switch was completed away from, with the event task that did so
\* at rest, that still forward without an end.
GoesOn(a) ==
    /\ ev[a.to].pc = "idle"
    /\ sub[a.from].forward /\ ~sub[a.from].finished /\ ~sub[a.from].removed
    /\ sub[a.from].end = NoLocation

\* Once the subscription that takes over has delivered, the other one has stopped or has
\* a group to stop at: the one before that of the first Object delivered.  A soft switch
\* at group 0 is left out.  "There is no group before group 0, so a boundary of 0 leaves
\* nothing to drain and cuts as well" (subscription.rs:919), but nothing cuts: suspend_at
\* returns, complete_switch does no more, and both tracks go on (ZeroCuts).
NotBothForEver ==
    ~Does("forward") /\ ~Does("slow") => \A a \in activated :
        GoesOn(a) => setting.modes = {"Soft"} /\ \E l \in Sent(a.to) : l[1] = 0

\* What the code says of a boundary of 0.  It does not hold.
ZeroCuts == ~Does("forward") /\ ~Does("slow") => \A a \in activated : ~GoesOn(a)

\* A switch leaves the subscriber with one of the two tracks: with one that forwards, and
\* not with both for ever, but for the two exceptions above.
SwitchLeavesOne == NeverNeither /\ NotBothForEver

\* A subscription that was cancelled, fell too far behind, or was told
\* PUBLISH_DONE delivers nothing more once its tasks have come to rest.
EndedIsSilent ==
    ~Does("slow") => \A s \in Subs :
        /\ sub[s].removed \/ ~sub[s].receiver \/ sub[s].dones # <<>>
        /\ ev[s].pc = "idle" /\ rq[s].pc = "idle"
        => sub[s].finished \/ ~sub[s].forward
=============================================================================
