-------------------------------- MODULE Ssts --------------------------------
(***************************************************************************)
(* Sender-side track switching on one connection of the relay: the         *)
(* switching sets, the decision loop, and the gate every forwarded Object  *)
(* passes.  Three kinds of tasks meet here.  Request handlers change the   *)
(* sets.  The controller takes messages from a bounded channel, asks the   *)
(* algorithms and records one final answer per group.  Each subscription's *)
(* task resolves the gate for the group of the Object it holds, waiting    *)
(* for an answer when there is none, and caches the verdict.               *)
(***************************************************************************)
EXTENDS Abr, TLC

CONSTANTS
    Requests,          \* the subscriptions of this connection, by request id
    Tracks,            \* their tracks
    SetIds,            \* switching set ids
    DECISION_WINDOW,   \* 5 in the code: groups of decisions kept behind the live edge
    ABR_CHANNEL,       \* 100 in the code: capacity of the controller's channel
    Settings           \* what an instance does:
                       \*   track       the track of each request
                       \*   feed        the groups of the Objects each request is handed
                       \*   ops         operations on the sets, each happening at most once
                       \*   negotiated  algorithms agreed in SETUP
                       \*   estimates   bandwidth estimates the transport may give
                       \*   cap         the operator's cap
                       \*   ticks       whether the controller's ticker fires
                       \*   closes      requests whose forwarding streams close
                       \*   discard     whether closing a stream may time out (ssts_discard_timeout_ms)

None == "none"
NoGroup == -1   \* SSTS_GATE_GROUP_NONE, or no group seen yet

ASSUME SstsConstants ==
    /\ None \notin SetIds
    /\ \A x \in Settings :
         /\ x.track \in [Requests -> Tracks]
         /\ x.feed \in [Requests -> Seq(Nat)]
         /\ \A op \in x.ops : /\ op.request \in Requests /\ op.track \in Tracks
                              /\ op.set \in SetIds /\ op.threshold \in Nat

VARIABLES
    setting,
    ops,          \* operations still to come
    ended,        \* requests whose subscription was cancelled or refused
    sets,         \* SwitchingSetManager.sets, NoSet for an id that is not in use
    track_to_set, \* SwitchingSetManager.track_to_set (and, by relay id, relay_track_to_set)
    open_streams, \* SwitchingSetManager.open_streams
    epoch,        \* the membership epoch
    decisions,    \* group -> set -> track or Nothing
    chan,         \* abr_tx / abr_rx
    abr,          \* the controller: pc, group, answer, and its loop variables
    gates,        \* the task of each subscription: pc, what it read, its cached verdict
    feed,         \* the Objects each subscription has not handled
    streams,      \* forwarding streams by request and group
    forwarded,    \* history: [request, group, set] of what the gate let through on a decision
    pruned        \* history: [group, answer] of the decisions that left the window

vars == <<setting, ops, ended, sets, track_to_set, open_streams, epoch, decisions,
          chan, abr, gates, feed, streams, forwarded, pruned>>
manager == <<sets, track_to_set, open_streams, epoch>>

NoSet == [algorithm |-> None]
Groups == UNION {{setting.feed[r][i] : i \in DOMAIN setting.feed[r]} : r \in Requests}
TrackOf(r) == setting.track[r]

Init ==
    /\ setting \in Settings
    /\ ops = setting.ops
    /\ ended = {}
    /\ sets = [s \in SetIds |-> NoSet]
    /\ track_to_set = [t \in Tracks |-> None]
    /\ open_streams = [s \in SetIds |-> 0]
    /\ epoch = 0
    /\ decisions = <<>>
    /\ chan = <<>>
    /\ abr = [pc |-> "idle", group |-> 0, answer |-> <<>>, last |-> NoGroup, largest |-> 0,
              timeouts |-> 0, tier |-> TierStart]
    /\ gates = [r \in Requests |->
                  [pc |-> "idle", epoch |-> 0, set |-> None, notified |-> FALSE,
                   cache |-> [group |-> NoGroup, epoch |-> 0, forward |-> FALSE]]]
    /\ feed = setting.feed
    /\ streams = [r \in Requests |-> [g \in Groups |-> "none"]]
    /\ forwarded = {}
    /\ pruned = {}

-----------------------------------------------------------------------------
(* The switching sets. *)

InUse(s) == sets[s] # NoSet

is_active(set) == set.activate > 0 /\ Len(set.members) >= set.activate

\* The members at the places at, by key, and in the order they had where keys are equal.
Arranged(members, at, key) ==
    LET place(i) == Cardinality({j \in at : key[j] < key[i] \/ (key[j] = key[i] /\ j <= i)})
    IN  [k \in 1..Cardinality(at) |-> members[CHOOSE i \in at : place(i) = k]]

\* Sorting by threshold is stable.
SortedByThreshold(members) ==
    Arranged(members, DOMAIN members, [i \in DOMAIN members |-> members[i].threshold])

Without(members, t) ==
    LET kept == {i \in DOMAIN members : members[i].track # t}
    IN  Arranged(members, kept, [i \in kept |-> 0])

MemberAt(set, t) == {i \in DOMAIN set.members : set.members[i].track = t}

validate_assignment(algorithm) == algorithm \in setting.negotiated

\* Set properties are those of the most recent message; a member keeps its holders.
Assigned(set, op) ==
    LET at == MemberAt(set, op.track)
        joined == IF at = {}
                  THEN Append(set.members, [track |-> op.track, threshold |-> op.threshold,
                                            holders |-> {op.request}])
                  ELSE [i \in DOMAIN set.members |->
                          IF i \in at THEN [track |-> op.track, threshold |-> op.threshold,
                                            holders |-> set.members[i].holders \cup {op.request}]
                          ELSE set.members[i]]
    IN  [algorithm |-> op.algorithm, weight |-> op.weight, activate |-> op.activate,
         rank |-> op.rank, members |-> SortedByThreshold(joined)]

assign(op) ==
    /\ sets' = [sets EXCEPT ![op.set] =
                  Assigned(IF InUse(op.set) THEN sets[op.set] ELSE [members |-> <<>>], op)]
    /\ track_to_set' = [track_to_set EXCEPT ![op.track] = op.set]
    /\ epoch' = epoch + 1
    /\ UNCHANGED open_streams

\* Mutant: a set whose last member left stays.
remove_leaves_set(t) ==
    LET s == track_to_set[t]
        left == Without(sets[s].members, t)
    IN  IF s = None THEN UNCHANGED manager
        ELSE /\ track_to_set' = [track_to_set EXCEPT ![t] = None]
             /\ epoch' = epoch + 1
             /\ sets' = [sets EXCEPT ![s].members = left]
             /\ UNCHANGED open_streams

\* Mutant: the count outlives the set.
remove_keeps_count(t) ==
    LET s == track_to_set[t]
        left == Without(sets[s].members, t)
    IN  IF s = None THEN UNCHANGED manager
        ELSE /\ track_to_set' = [track_to_set EXCEPT ![t] = None]
             /\ epoch' = epoch + 1
             /\ sets' = [sets EXCEPT ![s] = IF left = <<>> THEN NoSet ELSE [@ EXCEPT !.members = left]]
             /\ UNCHANGED open_streams

\* The last member takes the set, and its stream count, with it.
remove(t) ==
    LET s == track_to_set[t]
        left == Without(sets[s].members, t)
    IN  IF s = None THEN UNCHANGED manager
        ELSE /\ track_to_set' = [track_to_set EXCEPT ![t] = None]
             /\ epoch' = epoch + 1
             /\ sets' = [sets EXCEPT ![s] = IF left = <<>> THEN NoSet ELSE [@ EXCEPT !.members = left]]
             /\ open_streams' = [open_streams EXCEPT ![s] = IF left = <<>> THEN 0 ELSE @]

release(t, r) ==
    LET s == track_to_set[t]
        i == CHOOSE x \in MemberAt(sets[s], t) : TRUE
        held == sets[s].members[i].holders
        freed == [sets[s].members[i] EXCEPT !.holders = held \ {r}]
    IN  IF s = None \/ r \notin held THEN UNCHANGED manager
        ELSE IF held = {r} THEN remove(t)
        ELSE /\ sets' = [sets EXCEPT ![s] = [@ EXCEPT !.members = [sets[s].members EXCEPT ![i] = freed]]]
             /\ UNCHANGED <<track_to_set, open_streams, epoch>>

\* The algorithm of a set is not changed by an update.
update_assignment(op) ==
    LET s == track_to_set[op.track]
        moved == [i \in DOMAIN sets[s].members |->
                    IF sets[s].members[i].track = op.track
                    THEN [sets[s].members[i] EXCEPT !.threshold = op.threshold]
                    ELSE sets[s].members[i]]
    IN  IF s = None THEN UNCHANGED manager
        ELSE /\ sets' = [sets EXCEPT ![s] = [@ EXCEPT !.weight = op.weight, !.activate = op.activate,
                                               !.rank = op.rank, !.members = SortedByThreshold(moved)]]
             /\ epoch' = epoch + 1
             /\ UNCHANGED <<track_to_set, open_streams>>

Opened(t) ==
    IF track_to_set[t] = None THEN open_streams
    ELSE [open_streams EXCEPT ![track_to_set[t]] = @ + 1]

note_stream_closed(t) ==
    IF track_to_set[t] = None THEN open_streams
    ELSE [open_streams EXCEPT ![track_to_set[t]] = saturating_sub(@, 1)]

-----------------------------------------------------------------------------
(* The requests that change the sets. *)

Takes(op) == op \in ops /\ ops' = ops \ {op}
Elsewhere == UNCHANGED <<setting, decisions, chan, abr, gates, feed, streams, forwarded, pruned>>

\* SUBSCRIBE with a SWITCHING_SET_ASSIGNMENT: an algorithm that was not negotiated,
\* or a track of another set, rejects the subscription.
AssignOnSubscribe(op) ==
    /\ op.op = "subscribe" /\ Takes(op) /\ op.request \notin ended
    /\ IF validate_assignment(op.algorithm) /\ track_to_set[op.track] \in {None, op.set}
       THEN assign(op) /\ UNCHANGED ended
       ELSE ended' = ended \cup {op.request} /\ UNCHANGED manager
    /\ Elsewhere

\* The same in the PUBLISH_OK of a pushed track: ignored when it is not valid.
register_ssts_assignment_from_publish_ok(op) ==
    /\ op.op = "publish_ok" /\ Takes(op) /\ op.request \notin ended
    /\ IF validate_assignment(op.algorithm) /\ track_to_set[op.track] \in {None, op.set}
       THEN assign(op) ELSE UNCHANGED manager
    /\ UNCHANGED ended
    /\ Elsewhere

RequestUpdate(op) ==
    /\ op.op = "update" /\ Takes(op)
    /\ update_assignment(op)
    /\ UNCHANGED ended
    /\ Elsewhere

\* The subscription is cancelled by its subscriber, or a pushed one ends.
ReleaseOnCancel(op) ==
    /\ op.op = "cancel" /\ Takes(op)
    /\ release(op.track, op.request)
    /\ ended' = ended \cup {op.request}
    /\ Elsewhere

\* The track's publisher is done or gone. Objects already queued are still handled.
remove_from_subscriber_switching_sets(op) ==
    /\ op.op = "remove" /\ Takes(op)
    /\ remove(op.track)
    /\ UNCHANGED ended
    /\ Elsewhere

-----------------------------------------------------------------------------
(* The controller. *)

Snapshots ==
    {[id |-> s, algorithm |-> sets[s].algorithm, rank |-> sets[s].rank, weight |-> sets[s].weight,
      active |-> is_active(sets[s]),
      members |-> [i \in DOMAIN sets[s].members |->
                     [threshold |-> sets[s].members[i].threshold, track |-> sets[s].members[i].track]]]
       : s \in {x \in SetIds : InUse(x)}}

\* Every set shown gets an answer that names one of its tracks, or Nothing.
validate(selection, shown) ==
    [i \in {s.id : s \in shown} |->
        LET s == CHOOSE x \in shown : x.id = i
        IN  IF i \in DOMAIN selection /\ has_track(s, selection[i]) THEN selection[i] ELSE Nothing]

notify_waiters(gs) == [r \in Requests |-> [gs[r] EXCEPT !.notified = TRUE]]

Idle == abr.pc = "idle"

\* What the loop remembers of a group that starts, and of a stream that timed out.
Seen(g) == [abr EXCEPT !.last = IF @ = NoGroup THEN g ELSE Max({@, g}), !.largest = Max({@, g})]
TimedOut(g) == [abr EXCEPT !.largest = Max({@, g}), !.timeouts = @ + 1]

\* Mutant: a group that has its answer wakes nobody.
NewGroupSilently ==
    /\ Idle /\ chan # <<>> /\ Head(chan).kind = "NewGroup"
    /\ LET g == Head(chan).group
       IN  abr' = IF g \in DOMAIN decisions THEN Seen(g) ELSE [Seen(g) EXCEPT !.pc = "decide", !.group = g]
    /\ chan' = Tail(chan)
    /\ UNCHANGED <<setting, ops, ended, manager, decisions, gates, feed, streams, forwarded, pruned>>

\* One boundary per group: a group that has its answer only wakes those waiting.
NewGroup ==
    /\ Idle /\ chan # <<>> /\ Head(chan).kind = "NewGroup"
    /\ LET g == Head(chan).group
       IN  IF g \in DOMAIN decisions
           THEN abr' = Seen(g) /\ gates' = notify_waiters(gates)
           ELSE abr' = [Seen(g) EXCEPT !.pc = "decide", !.group = g] /\ UNCHANGED gates
    /\ chan' = Tail(chan)
    /\ UNCHANGED <<setting, ops, ended, manager, decisions, feed, streams, forwarded, pruned>>

StreamTimeout ==
    /\ Idle /\ chan # <<>> /\ Head(chan).kind = "StreamTimeout"
    /\ LET known == TimedOut(Head(chan).group)
       IN  abr' = IF abr.last = NoGroup THEN known
                  ELSE [known EXCEPT !.pc = "decide", !.group = abr.last]
    /\ chan' = Tail(chan)
    /\ UNCHANGED <<setting, ops, ended, manager, decisions, gates, feed, streams, forwarded, pruned>>

Tick ==
    /\ setting.ticks /\ Idle /\ abr.last # NoGroup
    /\ abr' = [abr EXCEPT !.pc = "decide", !.group = abr.last]
    /\ UNCHANGED <<setting, ops, ended, manager, decisions, chan, gates, feed, streams, forwarded, pruned>>

\* The sets and their depths are read at once; the algorithms run without a lock.
\* A set no algorithm owns is given Nothing.
decide(estimate) ==
    LET mine(a) == {s \in Snapshots : s.algorithm = a /\ a \in setting.negotiated}
        tier == IF mine("backpressure") = {} THEN abr.tier
                ELSE Observed(abr.tier, mine("backpressure"), open_streams, abr.timeouts)
        none == [i \in {s.id : s \in Snapshots} |-> Nothing]
    IN  /\ abr.pc = "decide"
        /\ abr' = IF Snapshots = {} THEN [abr EXCEPT !.pc = "idle"]
                  ELSE [abr EXCEPT !.pc = "record", !.timeouts = 0, !.tier = tier,
                          !.answer = validate(decide_default(estimate, setting.cap, mine("default")),
                                              mine("default"))
                                     @@ validate(decide_backpressure(tier, mine("backpressure")),
                                                 mine("backpressure"))
                                     @@ none]
        /\ UNCHANGED <<setting, ops, ended, manager, decisions, chan, gates, feed, streams,
                       forwarded, pruned>>

\* A group keeps the answer it has. Recording drops what is behind the window.
record_group_decision ==
    LET oldest_kept == saturating_sub(abr.largest, DECISION_WINDOW)
        kept == {g \in DOMAIN decisions : g >= oldest_kept} \cup {abr.group}
    IN  /\ abr.pc = "record"
        /\ abr' = [abr EXCEPT !.pc = "idle", !.answer = <<>>, !.group = 0]
        /\ IF abr.group \in DOMAIN decisions THEN UNCHANGED <<decisions, gates, pruned>>
           ELSE /\ decisions' = [g \in kept |-> IF g = abr.group THEN abr.answer ELSE decisions[g]]
                /\ pruned' = pruned \cup {[group |-> g, answer |-> decisions[g]]
                                            : g \in DOMAIN decisions \ kept}
                /\ gates' = notify_waiters(gates)
        /\ UNCHANGED <<setting, ops, ended, manager, chan, feed, streams, forwarded>>

-----------------------------------------------------------------------------
(* The gate, in the task of the subscription of request r. *)

Object(r) == Head(feed[r])

\* The Object is handled: forwarded, opening the group's stream if it has none, or dropped.
Handled(r, forward, on) ==
    LET opens == forward /\ streams[r][Object(r)] = "none"
    IN  /\ feed' = [feed EXCEPT ![r] = Tail(@)]
        /\ streams' = IF opens THEN [streams EXCEPT ![r][Object(r)] = "open"] ELSE streams
        /\ open_streams' = IF opens THEN Opened(TrackOf(r)) ELSE open_streams
        /\ forwarded' = IF forward /\ on # None
                        THEN forwarded \cup {[request |-> r, group |-> Object(r), set |-> on]}
                        ELSE forwarded

\* The first half of resolving: the notification is armed, then the epoch sampled.
Sampled(g) == [g EXCEPT !.pc = "sampled", !.notified = FALSE, !.epoch = epoch, !.set = None]

\* Mutant: a cached verdict is used for its group whatever the epoch.
ssts_gate_allows_stale(r) ==
    /\ gates[r].pc = "idle" /\ feed[r] # <<>> /\ r \notin ended
    /\ LET c == gates[r].cache
       IN  IF c.group = Object(r)
           THEN Handled(r, c.forward, track_to_set[TrackOf(r)]) /\ UNCHANGED gates
           ELSE /\ gates' = [gates EXCEPT ![r] = Sampled(@)]
                /\ UNCHANGED <<feed, streams, open_streams, forwarded>>
    /\ UNCHANGED <<setting, ops, ended, sets, track_to_set, epoch, decisions, chan, abr, pruned>>

ssts_gate_allows(r) ==
    /\ gates[r].pc = "idle" /\ feed[r] # <<>> /\ r \notin ended
    /\ LET c == gates[r].cache
       IN  IF c.group = Object(r) /\ c.epoch = epoch
           THEN Handled(r, c.forward, track_to_set[TrackOf(r)]) /\ UNCHANGED gates
           ELSE /\ gates' = [gates EXCEPT ![r] = Sampled(@)]
                /\ UNCHANGED <<feed, streams, open_streams, forwarded>>
    /\ UNCHANGED <<setting, ops, ended, sets, track_to_set, epoch, decisions, chan, abr, pruned>>

\* Mutant: the verdict is stamped with the epoch of now.
ResolveStampedNow(r, forward) ==
    /\ gates' = [gates EXCEPT ![r] = [@ EXCEPT !.pc = "idle", !.set = None, !.notified = FALSE,
                    !.cache = [group |-> Object(r), epoch |-> epoch, forward |-> forward],
                    !.epoch = 0]]
    /\ Handled(r, forward, gates[r].set)

\* The verdict is cached under the epoch sampled before the reads.
Resolve(r, forward) ==
    /\ gates' = [gates EXCEPT ![r] = [@ EXCEPT !.pc = "idle", !.set = None, !.notified = FALSE,
                    !.cache = [group |-> Object(r), epoch |-> gates[r].epoch, forward |-> forward],
                    !.epoch = 0]]
    /\ Handled(r, forward, gates[r].set)

\* A track in no switching set is forwarded.
ReadSet(r) ==
    LET s == track_to_set[TrackOf(r)]
    IN  /\ gates[r].pc = "sampled"
        /\ IF s = None THEN Resolve(r, TRUE)
           ELSE /\ gates' = [gates EXCEPT ![r] = [@ EXCEPT !.pc = "set", !.set = s]]
                /\ UNCHANGED <<feed, streams, open_streams, forwarded>>
        /\ UNCHANGED <<setting, ops, ended, sets, track_to_set, epoch, decisions, chan, abr, pruned>>

Answered(g, s) == g \in DOMAIN decisions /\ s \in DOMAIN decisions[g]

ReadDecision(r) ==
    LET g == Object(r)
        s == gates[r].set
    IN  /\ gates[r].pc = "set"
        /\ IF Answered(g, s) THEN Resolve(r, decisions[g][s] = TrackOf(r))
           ELSE /\ gates' = [gates EXCEPT ![r].pc = "ask"]
                /\ UNCHANGED <<feed, streams, open_streams, forwarded>>
        /\ UNCHANGED <<setting, ops, ended, sets, track_to_set, epoch, decisions, chan, abr, pruned>>

\* Sending waits for room in the channel.
Ask(r) ==
    /\ gates[r].pc = "ask" /\ Len(chan) < ABR_CHANNEL
    /\ chan' = Append(chan, [kind |-> "NewGroup", group |-> Object(r)])
    /\ gates' = [gates EXCEPT ![r].pc = "waiting"]
    /\ UNCHANGED <<setting, ops, ended, manager, decisions, abr, feed, streams, forwarded, pruned>>

Wake(r) ==
    /\ gates[r].pc = "waiting" /\ gates[r].notified
    /\ gates' = [gates EXCEPT ![r] = Sampled(@)]
    /\ UNCHANGED <<setting, ops, ended, manager, decisions, chan, abr, feed, streams, forwarded, pruned>>

-----------------------------------------------------------------------------
(* Forwarding streams are closed in a task of their own. *)

Finished(r, g) ==
    \/ r \in ended
    \/ \A i \in DOMAIN feed[r] : feed[r][i] # g

\* The stream is out of the map and still counted against its set.
take_stream(r, g) ==
    /\ r \in setting.closes /\ streams[r][g] = "open" /\ Finished(r, g)
    /\ streams' = [streams EXCEPT ![r][g] = "closing"]
    /\ UNCHANGED <<setting, ops, ended, manager, decisions, chan, abr, gates, feed, forwarded, pruned>>

\* The stream is finished. Where no timeout is configured, one that cannot be finished
\* any more returns early and stays counted.
close_stream(r, g) ==
    /\ streams[r][g] = "closing"
    /\ streams' = [streams EXCEPT ![r][g] = "closed"]
    /\ \/ open_streams' = note_stream_closed(TrackOf(r))
       \/ ~setting.discard /\ UNCHANGED open_streams
    /\ UNCHANGED <<setting, ops, ended, sets, track_to_set, epoch, decisions, chan, abr, gates,
                   feed, forwarded, pruned>>

\* The peer did not take the stream in time. The controller is told if there is room.
DiscardStream(r, g) ==
    /\ setting.discard /\ streams[r][g] = "closing"
    /\ streams' = [streams EXCEPT ![r][g] = "closed"]
    /\ open_streams' = note_stream_closed(TrackOf(r))
    /\ chan' = IF Len(chan) < ABR_CHANNEL
               THEN Append(chan, [kind |-> "StreamTimeout", group |-> g]) ELSE chan
    /\ UNCHANGED <<setting, ops, ended, sets, track_to_set, epoch, decisions, abr, gates, feed,
                   forwarded, pruned>>

-----------------------------------------------------------------------------
Next ==
    \/ \E op \in ops :
         \/ AssignOnSubscribe(op) \/ register_ssts_assignment_from_publish_ok(op)
         \/ RequestUpdate(op) \/ ReleaseOnCancel(op) \/ remove_from_subscriber_switching_sets(op)
    \/ NewGroup \/ StreamTimeout \/ Tick \/ record_group_decision
    \/ \E e \in setting.estimates : decide(e)
    \/ \E r \in Requests :
         ssts_gate_allows(r) \/ ReadSet(r) \/ ReadDecision(r) \/ Ask(r) \/ Wake(r)
    \/ \E r \in Requests, g \in Groups : take_stream(r, g) \/ close_stream(r, g) \/ DiscardStream(r, g)

Spec == Init /\ [][Next]_vars

-----------------------------------------------------------------------------
\* An answer of the group left the window of decisions.
Left(g) == \E p \in pruned : p.group = g

\* A group is carried by one track of a switching set at most: whatever order Objects
\* of the members arrive in, however the sets and the bandwidth change between them,
\* and whether the verdict came from the cache. Only a decision that left the window,
\* and was made afresh for an Object arriving that late, may differ.
OneTrackPerGroup ==
    \A x, y \in forwarded :
        x.group = y.group /\ x.set = y.set /\ ~Left(x.group)
            => TrackOf(x.request) = TrackOf(y.request)

\* What the answer of a group says of a track of a set: the answer it has now, or one
\* it had that left the window.
Verdict(g, s, t, forward) ==
    \/ Answered(g, s) /\ forward = (decisions[g][s] = t)
    \/ \E p \in pruned : /\ p.group = g /\ s \in DOMAIN p.answer
                          /\ forward = (p.answer[s] = t)

\* A verdict the gate would use from its cache is the one of the set its track is in
\* now: a change of membership while the verdict was being reached, or since, shows in
\* the epoch it is stamped with. It is what asking again would give, as long as the
\* answer is in the window; a group whose answer left it is decided again without
\* moving the epoch, and then the cache may still hold what the earlier answer said.
CacheIsCurrent ==
    \A r \in Requests :
        LET c == gates[r].cache
            s == track_to_set[TrackOf(r)]
        IN  c.group # NoGroup /\ c.epoch = epoch =>
              IF s = None THEN c.forward ELSE Verdict(c.group, s, TrackOf(r), c.forward)

\* The answer cannot change while the epoch matches, which moves on every recorded
\* decision (subscription.rs:474-476): what is cached is what asking again would give.
AnswerCannotChange ==
    \A r \in Requests :
        LET c == gates[r].cache
            s == track_to_set[TrackOf(r)]
        IN  (c.group # NoGroup /\ c.epoch = epoch /\ s # None /\ Answered(c.group, s)) =>
              c.forward = (decisions[c.group][s] = TrackOf(r))

\* No wake-up is lost: a subscription waiting for a decision on sets that have not
\* changed since it looked has its question in the channel, or with the controller.
WaitingIsAsked ==
    \A r \in Requests :
        gates[r].pc = "waiting" /\ ~gates[r].notified /\ gates[r].epoch = epoch =>
            \/ \E i \in DOMAIN chan : chan[i] = [kind |-> "NewGroup", group |-> Object(r)]
            \/ abr.pc # "idle" /\ abr.group = Object(r) /\ Object(r) \notin DOMAIN decisions

\* The three views of membership agree, whatever request handlers, ends of subscriptions
\* and closing streams do: a set in use has members, in the order of their thresholds,
\* each held by a request; a track leads to the set it is a member of; and a set that is
\* torn down takes its count of streams with it, so that its id starts again from zero.
SetsAgree ==
    /\ \A s \in SetIds : InUse(s) =>
         /\ sets[s].members # <<>>
         /\ \A i, j \in DOMAIN sets[s].members :
              /\ sets[s].members[i].holders \in (SUBSET Requests) \ {{}}
              /\ i < j => /\ sets[s].members[i].track # sets[s].members[j].track
                         /\ sets[s].members[i].threshold <= sets[s].members[j].threshold
    /\ \A t \in Tracks, s \in SetIds :
         track_to_set[t] = s <=> InUse(s) /\ MemberAt(sets[s], t) # {}
    /\ \A s \in SetIds : open_streams[s] > 0 => InUse(s)

\* The depth of a set comes back down: it counts no stream when none of its tracks has
\* one (ssts/mod.rs:213-215).
DepthComesDown ==
    \A s \in SetIds : open_streams[s] > 0 =>
        \E r \in Requests, g \in Groups :
            track_to_set[TrackOf(r)] = s /\ streams[r][g] \in {"open", "closing"}

DefaultSets == {s \in Snapshots : s.algorithm = "default"}
Budgets == {Min({budget_kbps(e, setting.cap), UNLIMITED_KBPS}) : e \in setting.estimates}
Spent(places, of) == MapThenSumSet(LAMBDA s : ThresholdAt(s, places[s]), of)

\* The default algorithm never spends more than the budget, saturation of the
\* arithmetic at the top of u64 included.
WithinBudget == abr.pc = "decide" =>
    \A b \in Budgets : Spent(Places(b, DefaultSets), DefaultSets) <= b

\* Rank is a strict priority: a set is given what it would be given if the sets of
\* higher rank numbers did not exist.
RankIsStrict == abr.pc = "decide" =>
    \A b \in Budgets : \A s \in DefaultSets :
        Places(b, DefaultSets)[s] = Places(b, {x \in DefaultSets : x.rank <= s.rank})[s]

\* Inside a rank, the sets that did not reach their top track share, by weight, all
\* that the ranks before them and the sets that did reach it left over.
SharesGivenBack == abr.pc = "decide" =>
    \A b \in Budgets : \A places \in {Places(b, DefaultSets)} : \A s \in DefaultSets :
        LET before == {x \in DefaultSets : x.rank < s.rank}
            tier == {x \in DefaultSets : x.rank = s.rank /\ x.active}
            top == {x \in tier : places[x] # 0
                        /\ ThresholdAt(x, places[x]) = ThresholdAt(x, Len(x.members))}
        IN  s \in tier \ top =>
              places[s] = Fit(s, Share(b - Spent(places, before \cup top), tier \ top, s))

\* What the default algorithm gives the sets is within the budget, by rank, and all of it.
AllocationIsSound == WithinBudget /\ RankIsStrict /\ SharesGivenBack

\* No subscription is left waiting for a decision that will never arrive: when nothing
\* is left to do, no live one waits, the tear-down of its set included.
NothingLeft ==
    /\ ops = {} /\ chan = <<>> /\ Idle
    /\ abr.last = NoGroup \/ abr.last \in DOMAIN decisions \/ Snapshots = {}
    /\ \A r \in Requests : \/ gates[r].pc = "idle" /\ (feed[r] = <<>> \/ r \in ended)
                           \/ gates[r].pc = "waiting" /\ ~gates[r].notified
NoneLeftWaiting == NothingLeft => \A r \in Requests \ ended : gates[r].pc # "waiting"
=============================================================================
