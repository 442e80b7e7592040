# A TLA+ model of the MOQtail relay and its wire library

MOQtail is a set of libraries and a relay for Media over QUIC Transport
(MOQT). This directory holds a formal model of the relay and of the parts of
`moqtail-rs` and `moqtail-ssts` under it whose correctness depends on
interleavings, boundaries and orders of events that tests hardly reach: TLA+
modules translated from the Rust source, TLC configurations that check them on
small instances, and TLAPS proofs of central invariants for every instance.

`PROJECT.json` maps every definition to the lines it models, lists the runs, a
mutant of the code for every property, the hazards the properties are aimed at,
and what is not modelled.

## 1. The system

The relay sits between publishers and subscribers. A *track* has a full name
(namespace and name); publishers send its *Objects*, each at a *Location*
(group, Object id), over unidirectional streams or datagrams labelled with a
*track alias*; the relay forwards them to the subscribers and caches them.
Every request (SUBSCRIBE, PUBLISH, FETCH, ...) has a bidirectional stream of
its own, which lives as long as the request does. The relay is asynchronous
Rust: every request stream, upstream exchange, data stream and subscription is
a task, and tasks interleave at every `.await`, in particular at every lock.

| Component | Source | Modules |
|---|---|---|
| Duplicate detection | `seen_objects.rs` | `SeenObjects` |
| Tracks and subscribing | `track.rs`, `track_manager.rs`, `subscribe_handler.rs` | `TrackLifecycle`, `TrackLocks` |
| Subscriptions: filtering, delivery, switching | `subscription.rs`, `client.rs`, `client/switch_context.rs` | `Delivery`, `FilteredStream` |
| Fetch, fill and cache | `fetch_handler.rs`, `fill.rs`, `track_cache.rs` | `FetchRange`, `Fetch` |
| Publishing and namespaces | `publish_handler.rs`, `*namespace*`, `*tracks*`, `prefix_subscription.rs` | `Prefixes` |
| Sender-side track switching | `ssts/*`, `libs/moqtail-ssts` | `Abr`, `Ssts` |
| Sessions, request streams | `session.rs`, `request_stream.rs` | `ControlStream`, `Prefixes`, `TrackLifecycle` |
| Stream handlers | `libs/moqtail-rs/src/transport` | `ControlStream`, `DataStream`, both over `Channel` |
| Messages, parameters, properties, Objects | `libs/moqtail-rs/src/model` | `Wire`, `Parameters`, `MessageParameters`, `ControlMessages`, `Objects`, `Filters` |

What makes it hard:

* *Tracks are found by name.* An upstream exchange looks its track up again at
  every message. Between two looks the track may have been removed, or removed
  and created anew, while tasks still hold the old one.
* *The last subscriber to leave races everyone.* It cancels the upstream
  requests; an exchange may be about to register one, a SUBSCRIBE about to join.
* *One SUBSCRIBE, several publishers.* Answers come in any order and number, to
  a subscriber owed exactly one.
* *Everything on a stream is a difference.* Object ids, Types and group ids are
  encoded against the one before; filters, pauses and streams opened in the
  middle of a subgroup all change what that is.
* *Three tasks work on a subscription*: its own, that of its request stream and
  that of the subscription that takes over from it.
* *What is absent is for ever*, so a FETCH answer that stops short, is refused
  or comes from a publisher that is behind must not be taken for the whole.
* *Registering and catching up cross.* Announcements meet namespace
  subscriptions, PUBLISHes meet SUBSCRIBE_TRACKS, each from its own task.
* *A decision is per group and asynchronous.* Objects wait at a gate for an
  answer over a bounded channel while the sets it is about change.
* *Bytes arrive in any pieces*, or stop arriving.
* *Sessions close at any point* of all this.

## 2. Modules

A step of a module is what one task does between two points at which another
may run; where the code holds a lock, the step is the lock's scope. Behaviours
that the peers choose are gathered in a constant `Settings`: a behaviour picks
one in `Init`, and the setting limits what the peers, the transport and the
clock may do in it. That keeps one specification per component and lets a run
cover many scenarios.

### SeenObjects

A slot is a record: which group it describes, and a bitmap kept as the set of
its set positions, either inline or as a circular window ending at `high`.
`is_duplicate` is one step, because the code tests and records under the slot's
lock; it is split into the five arms of the code's `match`. Three history
variables (what arrived, what was reported new, what was reported new again)
let the properties speak about Objects instead of bits. The code's constants
(inline bits, window bits, retained groups) are parameters.

### TrackLifecycle

One full track name. `current` is the name's entry in `TrackManager::tracks`;
a Track lives on while tasks hold its `Arc`, so Tracks have ids. Three kinds of
process, each with a program counter:

* a *request*: `handle_subscribe_message` (`Subscribe`, `Join`, `Count`,
  `Forward`, or `ReadStatus`, `AnswerJoiner`), then its stream until it is
  cancelled (`Cancel`, `Leave`, `LeaveCleansUp`) or its session closes
  (`Disconnect`);
* an *exchange*, one per request and publisher asked:
  `upstream_subscribe_exchange` with `handle_subscribe_ok_message`,
  `end_upstream_subscription`, `handle_subscribe_error_message`,
  `retire_track`;
* a *closing* publisher session: `handle_connection_close`.

`TrackReadHeld` is the one lock whose scope spans steps: a joiner holds the
track's read lock from reading the status to being put on the waiting list, and
a SUBSCRIBE_OK waits for it. What peers do is limited by the constant
`Behaviours` (cancel, disconnect, close, end, unsupported, refuse, cache) and by
`Reliable`, the publishers that accept.

Abstractions: a peer sends at most one SUBSCRIBE_OK per request stream; the
alias a publisher uses for the track does not change; `become_cache_only` and
each fan-out loop are one step; a cache holds something or nothing. Tracks
created by FETCH and malformed tracks are not in this module; those created by
PUBLISH are in `Prefixes`.

### TrackLocks

A handler is its *lock programs*: the sequences of guards one run of it takes
and drops, built with `Read`, `Write`, `Then`, `Maybe` along the code's blocks.
Guards live as long as the Rust values do, temporaries in an `if let` included.
Twenty-two handlers run on any number of tasks against six locks (`tracks`, a
track, `handover`, `publisher_aliases`, `track_aliases`, `publishes`). The locks
are tokio's: first come, first served, so a reader waits behind a waiting
writer. The read that a fill makes of the track lock (`fill.rs`) has a mode of
its own, "fill", so that the properties can name it. Consecutive reads of one
lock are merged, a loop is one turn, and locks that are only ever leaves are
left out.

### Delivery

One subscriber with subscriptions to several tracks. Per subscription: the queue
of track events; `sub`, the fields of `Subscription` (start and end Location,
Forward State, suspension, pending switch, `last_ids`, the count of opened
streams); `ev`, where its event task is; `rq`, where the task of its request
stream is; `streams`, the client's map of send streams; `wire`, what has been
written to each stream as encoded; `got`, what the subscriber decoded, beside
what was sent. The event task receives an event, decides (`Verdict`), opens a
stream or finds one, writes the header and the Object, and after the first
delivery of a switch stops the other subscription; the request task applies
REQUEST_UPDATEs, flushes a header put aside, begins switches and cancels.
Shedding of a subscription that lags, PUBLISH_DONE and the five-second timer
around an event (`GiveUp`) are actions too.

Abstractions: one subgroup per group, so a group id names a stream; the last id
of a stream is read in the step of the write; the Range Filters are the set
`blocked` of the setting (what they compute is in `Filters`); a datagram send
does not fail; no wait for an unknown alias; fills are in `Fetch`.

### FetchRange and Fetch

`FetchRange` has the arithmetic: Location Filters, the range a FETCH is for, the
order of a response, and `on_object`, `on_marker` and `on_end`, by which a response
that is being read tells which Locations hold nothing. A range is the set of its
Locations; `Huge` stands for the Object id `u64::MAX`, which no Object has.

`Fetch` is one track with its cache, absent ranges, fill claims (`claims`,
`waits`) and several FETCHes, each with a program counter (`req`), its stream
downstream (`out`), its upstream FETCH (`up`) and its cancellation token. A
FETCH computes its range, answers FETCH_OK, and goes group by group: from the
cache, by waiting for another's fill, or by claiming the gap and asking the
publisher. The live feed, eviction, refusals, timeouts, aborted and malformed
answers and cancellation interleave. A live Object tells of what is absent too
(`note_absent`): by its status, by ending its group, and by the Prior Group and
Prior Object ID Gaps, as does the FIN of a stream that holds the end of its group
(`GroupEnds`). What the publisher says of its own track is true (`Truthful`);
whether the relay draws the right ranges from it is what is checked. A fill of a
subscription is a FETCH without the FETCH_OK.

Abstractions: the scan for a gap is one step; a fill ends in one step with its
last event; a live Object and what it tells of are recorded in one step; the
publisher publishes in order; the oldest absent range is never
forgotten (`MAX_ABSENT_RANGES`); an answer is found malformed only when no FETCH
is yet to begin.

### Prefixes

Announcements (`announcements`, one owner per namespace), the registry of prefix
subscriptions (`subscribers`), the channels to their streams, PUBLISHed tracks
and the subscriptions pushed for them. Requests of the four kinds run their
handlers lock by lock: register, catch up, push; overlap checks; REQUEST_UPDATE
that moves a prefix or changes FORWARD; cancellation; `ensure_upstream_forwarding`, which raises the
publisher's Forward State once. Sessions close at any point, the relay sheds load
(`active`), runs out of streams and drains. A REQUEST_UPDATE writes the stored
request, then the entry of the registry, then the prefix (`WriteParameters`,
`update_namespace_subscription_parameters`, `apply_subscription_update`); the
second finds the entry by prefix and client, whatever its kind. `params` has who
asked for FORWARD, whose entry has it, and who updated beside a subscription of
the other kind. `echoed` has the namespaces of which a catch-up told a client
although nobody else announces them: its own, and those of published tracks.

Abstractions: a namespace has one track, with nothing cached, and is not
published again; the removal of a publisher and the retirement of its track are
one step, as is `ensure_upstream_forwarding`; aliases, and parameters other than
filters and FORWARD, are left out, and an update changes only the latter.

### Abr and Ssts

`Abr` has the algorithms as functions: `Places`, the default allocation by rank,
weight and rounds with its saturating arithmetic, and the tier selector of the
backpressure algorithm. `Ssts` is one connection: request handlers change the
sets and raise `epoch`; the controller takes messages from a bounded channel,
decides and records; each subscription's gate reads the epoch, the set and the
decision in separate steps, asks, waits on a Notify, and caches its verdict.
Streams open and close per set, a stream that cannot be finished is not counted
down, and the ticks that time streams out are modelled where a setting has them.
`pruned` keeps the answers that left the window of decisions, for the properties.

Abstractions: a relay track id is the track's name; receiving a message with
`has_group_decision`, and recording with notifying, are one step each.

### Wire, Parameters, MessageParameters, ControlMessages

How every control message, parameter, property, Tuple and Location is written
and read. An encoded piece is a sequence of *units*: each varint and each byte is
one, and lengths count units; nothing that reads a varint depends on how many
bytes it takes. Writers and readers are separate definitions from the separate
functions of the code: that they agree is checked, not assumed. Errors are
reduced to those that callers tell apart. Constants stand for the code's limits
(`MAX_VALUE_LENGTH`, `U16_MAX`, ...), scaled down.

### ControlStream

`ControlStreamHandler` under its three users: the control stream with SETUP, a
request stream of a peer, and the answers to a request of the relay's own. The
transport hands over what was written in pieces of any size, with silence, FIN,
reset or loss after it; a wait for more is dropped by the `select!` of the loops
and started over; the deadline of a partial message passes.

Of the handlers behind a request stream the module has what they make of the
stream and the session (`RequestOutcomes`, `UpdateOutcomes`): a message is
answered or not, and stream and session go on or end. `kept` is what the relay
keeps of the request; other tasks take it away meanwhile (`TakenAway`): its track
goes, its subscription is dropped, a FETCH has been served. What the setting calls
`relay` are states of the relay a request may meet: draining, shedding load,
retiring the track, an alias in use. Messages of an unknown type, which stay in
the buffer without a deadline (`control_stream_handler.rs`), are in no setting.

### Objects, DataStream

`Objects`: subgroup headers and Objects, FETCH headers, Objects and End of Range
markers, datagrams, and the conversions between them. `DataStream`: the sender
(`SendDataStream`), the transport, and the receiver as its two tasks: the read
task parses and pushes, the caller of `next_item` takes. Every access to the
queue, to `is_closed`, `read_outcome`, the header and the Notify is a step of its
own. Datagrams travel beside it, lost and reordered.

Abstractions: chunks of the MTU are an arbitrary split; both sides know the
FETCH a stream belongs to; writes do not fail; `next_object`, which is
`next_item` without the markers, and padding streams are left out.

### Filters, FilteredStream

`Filters`: `CombinedFilter`, what Range Filters add up to, and the relay's
`filter_constructor.rs`, which checks, combines and updates them.
`FilteredStream` composes it with `DataStream`: a subscription, or a pushed track,
whose filters change by REQUEST_UPDATE while Objects pass.

### Channel

What a stream promises: items come out in the order they went in, once, and an
end that is called clean comes after all of them. `ControlStream` and
`DataStream` are shown to implement it (`IsChannel`, a refinement mapping for
each): for the control stream `sent` and `taken` are the messages written and
returned, and any session or stream error is a broken end; for the data stream
the end is clean when `next_item` has returned None and `was_aborted` is false.

## 3. What TLC checks

| Run | Instance | Shows |
|---|---|---|
| `seen_objects` | ring of 0 to 2 slots, 3 groups, ids to past the window twice | `NoObjectLost`, `ExactWithinBounds`, `NeverBackToOlderGroup` |
| `lifecycle_answered` | 2 requests, 2 publishers, one of them reliable | `OneResponse`, `AliasServes`, `RefusalIsUnanimous`, `EveryoneAnswered` |
| `lifecycle_handover` | 2 requests, 1 publisher, 2 Tracks; cancellation, caching, ends | `UpstreamReleased` |
| `lifecycle_leaving` | 2 requests, 1 publisher, 2 Tracks; sessions close at any point, a publisher's while it accepts | `TypeOK`, `NoWaiterForgotten`, `ClosedPublisherLeaves` |
| `locks` | 2 tasks, all 22 handlers (0.1 million states) | `LocksInOrder` |
| `delivery` | 2 tracks of 2 groups of up to 3 Objects, 15 settings (0.5 million) | `DecodedAsSent`, `NoHole`, `DoneCountsEveryStream`, `StreamsFollowSubgroups`, `SwitchLeavesOne`, `EndedIsSilent` |
| `fetch` | 2 FETCHes, 2 groups of up to 2 Objects, 9 settings (0.5 million) | `AbsentIsTrue`, `NoObjectDenied`, `InOrder`, `WaitedForIsAtWork` |
| `prefixes` | 3 clients, 3 requests, 3 nested prefixes and one apart, 14 settings (0.8 million) | `HearsWhatIsAnnounced`, `TracksReached`, `ForwardRaised`, `RegisteredIsServed` |
| `ssts` | 3 subscriptions, 2 sets, 3 tracks, 7 settings (0.6 million) | `OneTrackPerGroup`, `CacheIsCurrent`, `WaitingIsAsked`, `SetsAgree`, `AllocationIsSound` |
| `control_stream` | every message kind, followed by another, in every cut, the request taken away at any point | `NoFalseAlarm`, `WaitsOnlyForMore`, `IsChannel` |
| `data_stream` | 50 streams and sequences of datagrams, every cut and interleaving (0.2 million) | `TakerIsNotAhead`, `AbortedForAReason`, `DatagramsAsSent`, `SameAfterAnotherHop`, `FiltersMeanWhatWasAsked`, `IsChannel` |
| `data_stream_wakeup` | one Object and a FIN | a counterexample to `EndIsSeen`, below |

*Bounds.* Two requests are enough for every race between a creator and a
joiner, or between one that leaves and one that comes. Two Tracks let a
stale exchange meet the track that replaced its own. Lock order is a property
of one task, and two that keep it are all it takes to wait for each other over
two locks. The ring has two slots for three
groups, so two groups compete for one and a third does not; ids reach further
than the window, so it slides by less than, exactly, and more than its width.
A switch is between two tracks, and needs a group before and one after its
boundary. Two FETCHes suffice to claim, wait, overlap and wait for each other;
two groups of two Objects have gaps inside and across groups, in both orders.
Three nested prefixes give a match, a longer and a shorter one, and a fourth
overlaps only the root; three requests are two that offer and one that asks, or
one that offers and two that overlap. Two sets of one rank or of two share and yield; a decision window of one and a
channel of one are at their limit at once. A message is followed by another,
because what a reader takes too much or too little of the first shows in the
second. Deadlock checking is off where every request may have run its course, and
in `locks`, where `LocksInOrder` says which deadlock there is.

*Exceptions stated in the properties.* Where the code does not keep what a
property asks, the property names the case, as narrowly as the state allows; most
are counterexamples to a comment of the source, listed in the table below.

* `ExactWithinBounds` has the bound of the code: an id exactly `WINDOW_BITS`
  behind is forgotten (`seen_objects.rs:276`), where lines 67-70 document "more than".
* `LocksInOrder` excepts the second read of a track's lock by a fill whose caller
  holds the first (`subscribe_handler.rs:922-954` and `1607-1618`, `fill.rs:118`):
  no other guard is out of order, and every deadlock has such a fill in it.
* `DecodedAsSent`: Object ids decode wrong after the subscriber stops a stream
  (`client.rs` reports the failed write as done and the last id moves on), after a
  pause whose header outlives its stream, when a hard switch or a cancellation has
  drained the ids an Object in its handler is encoded against, and after the
  five-second timer drops a handler between write and bookkeeping. `EndedIsSilent`, too, leaves out the timer.
* `NoHole` leaves out a subscription that was cancelled, shed, updated, stopped by
  the subscriber or subject to the timer. It leaves out one that a hard switch cut
  off, and, where groups overlap, one whose drain is over: the first Object past
  the boundary ends the drain, and what is still to come of the group before it is
  dropped.
* `DoneCountsEveryStream` is exact except for a hard switch, whose PUBLISH_DONE
  comes from another task while a stream is being opened (one too few), and after a
  pause, where the request and the event task may count one stream twice or
  PUBLISH_DONE may overtake a header (one either way).
* `StreamsFollowSubgroups` lets one stream be left open: by a cancellation or a hard
  switch, the one being opened; after a pause, the one opened for a header whose
  subgroup has closed. It leaves out streams that the subscriber stopped, and the
  Object whose stream header was held back while the Forward State was 0
  (`pending_header`). The comment at `subscription.rs:1319` keeps that header "so we
  can open the stream immediately if forward transitions to true mid-group
  (sub-update-forward method)". A REQUEST_UPDATE does so, but `begin_switch` (line
  885) sets the Forward State without it, the next Object clears the header
  (1428-1432), and if its subgroup has closed upstream by then the Object is
  dropped. The setting `Within` of `MCDelivery` reaches this state.
* `SwitchLeavesOne`: in a soft switch the old track stops at its boundary whether
  or not the new one has delivered, since the wait is commented out
  (`subscription.rs:1295`); and a soft switch at group 0 stops nothing. Subscribers
  that change the Forward State themselves are left out.
* `HearsWhatIsAnnounced` leaves out namespaces that two clients announce and what a
  handler that could not write its answer leaves behind. A subscriber may also
  believe what its catch-up told it: `send_namespace_catchup`
  (`subscribe_namespace_handler.rs:140-151`) does not leave out the client's own
  namespaces, as the fan-out does (`publish_namespace_handler.rs:61-63`), and adds
  those of published tracks, which no NAMESPACE_DONE takes back.
* `RegisteredIsServed` leaves out a client two of whose requests passed the overlap
  check at once (the field `late` of a request, which the code does not have). Of
  FORWARD it leaves out a client that updated a subscription beside one of the other
  kind at the same prefix.
* `OneTrackPerGroup` and `CacheIsCurrent`: a group whose answer left the window of
  decisions is decided again, with another answer perhaps, and the epoch does not
  move (`controller.rs:206`). Until then a cached verdict is that of the answer
  recorded; afterwards it may be that of the one before. `SetsAgree` says that the
  count of a set's streams goes with the set, not that it is exact: a stream that
  cannot be finished, or whose track leaves first, is never counted down.
* `NoFalseAlarm`: a REQUEST_UPDATE to a SUBSCRIBE or PUBLISH whose track has just
  gone closes the session, and one on a FETCH may get no answer.
* `SameAfterAnotherHop` leaves out the zero-length Object, which is decoded without
  a payload and cannot be encoded again.

*Fairness.* `FairSpec` of `TrackLifecycle`: every task of the relay that can run
does, which is what tokio gives; the answer deadline, a timer, passes; a
publisher in `Reliable` answers, which is its definition; a stream of a closed
session fails. `FairSpec` of `DataStream`: the sender goes on, the transport
delivers or fails, and both tasks of the receiver run when they can. Nothing
else that a peer may do is assumed to happen.

### Where code and documentation disagree

`data_stream_wakeup` checks what the documentation of `next_item` promises,
"`None` once the stream has ended". `next_item` loads `is_closed` and only then
makes the future of `notify.notified()`; a read task that stores the flag and
calls `notify_waiters` in between wakes nobody, and the taker waits for ever.

Nine more configurations state what a comment of the source promises and lead to
a counterexample in the model of what the code does. They are kept to be run by
hand; those with several cases list at their head the constants and the property
of each.

| Configuration (module) | Property | What happens |
|---|---|---|
| `MCSeenObjectsBound` (`MCSeenObjects`) | `ExactAsDocumented` | An Object comes again exactly `WINDOW_BITS` behind the largest of its group, within the documented bound, and is forwarded again. |
| `MCLifecycleBroken` (`MCTrackLifecycle`) | `OneResponse` | The publisher that accepted closes, the track goes; the other's refusal finds no track and answers the creator a second time. |
| | `NotLeftBehind` | A SUBSCRIBE looks the track up, the last subscriber leaves and the track is removed, then the SUBSCRIBE joins the removed track. |
| | `AcceptedIsServed` | After the last publisher's PUBLISH_DONE the track stays Confirmed; the next SUBSCRIBE is told OK and is served by nobody. |
| `MCLifecycleForgotten` (`MCTrackLifecycle`) | `EveryoneAnswered` | A joiner that read Pending is put on the waiting list after the refusal emptied it: it is never answered. |
| | `UpstreamEnds` | The last subscriber leaves by losing its session: the upstream subscription is not cancelled. |
| `MCTrackLocksFill` (`MCTrackLocks`) | `NoDeadlock` | A SUBSCRIBE that asks for a fill reads the track's lock twice; with a SUBSCRIBE_OK waiting to write in between, both wait for ever. |
| `MCDeliverySwitch` (`MCDelivery`) | `TracksMeet` | The old track delivers on "so the two tracks meet without a hole" (`subscription.rs:914`), but with groups that overlap an Object past the boundary ends the drain of the group before it. |
| | `SoftWaitsToo` | The old track is to stop once the new one has delivered, "so a switch to a track that never publishes does not cut delivery off" (line 102), but a soft switch does not wait. |
| | `ZeroCuts` | "[A] boundary of 0 leaves nothing to drain and cuts as well" (line 919), but both tracks go on. |
| `MCFetchShort` (`MCFetch`) | `EndNotShort` | The last group asked for is partly back in the cache; FETCH_OK ends at its last cached Object, short of Objects that were published. |
| | `NoObjectDenied` | The gap is asked of a publisher that has less than another had; what it does not have is taken for absent. |
| `MCPrefixesDone` (`MCPrefixes`) | `NoDoneWhileServed` | Two clients announce a namespace; one withdraws, and its subscribers are told NAMESPACE_DONE while the other serves. |
| | `KindsDoNotShare` | "Two of the same kind may not" share a prefix (`track_manager.rs`, `SubscribeKind`), but two SUBSCRIBE_NAMESPACEs at once both pass the check before either is registered, and both are answered OK. A later move of one takes the entry of the other along. |
| | `NeverToldItsOwn` | The catch-up tells a client of the namespace it announces itself, against `publish_namespace_handler.rs:31-33`. |
| | `UpdateTakesEffect` | The FORWARD of an updated SUBSCRIBE_TRACKS goes to the entry of a SUBSCRIBE_NAMESPACE of the client at the same prefix, and tracks are pushed with the old one. |
| `MCSstsTornDown` (`MCSsts`) | `NoneLeftWaiting` | The last set is torn down while an Object of it waits for a decision; the controller returns without waking it. |
| | `AnswerCannotChange` | The answer of a group "cannot change while the epoch matches" (`subscription.rs:474-476`), but one that left the window is decided again without moving the epoch. |
| | `DepthComesDown` | A stream is not finished, or its track leaves the set before it is: the count of the set stays up (`ssts/mod.rs:213-215`). |
| `MCControlStreamUpdate` (`MCControlStream`) | `UpdateIsAnswered` | "A REQUEST_UPDATE must be answered with exactly one REQUEST_OK or REQUEST_ERROR" (`message_handlers/mod.rs:235`): on a FETCH it is not, and on a request whose track has just gone it closes the session. |

## 4. What is proved

For every value of the constants, by TLAPS:

* `SeenObjects_proofs!DetectionCorrect`: `TypeOK`, `NoObjectLost`,
  `ExactWithinBounds` (with the bound of the code) and `SlotsExact` always hold. None of the first three is
  inductive; `SlotsExact` is the strengthening: every bitmap tells exactly which
  ids of its slot's group arrived (all of them while inline, those in the window
  afterwards), and no newer group has come to the slot. The crux is that `%
  WINDOW_BITS` is injective on a window, which the lemmas on the window
  establish. `NewObjectsPass` states `NoObjectLost` by itself.
* `SeenObjects_proofs!SlotsAdvance`: `NeverBackToOlderGroup`, from the same
  invariant.
* `TrackLifecycleSafety_proofs!TypeCorrect`: `TypeOK`, with the fact that a task that
  uses a Track has one, though the name it looked up may lead nowhere.
* `TrackLifecycleSafety_proofs!WaitersAnswered`: `NoWaiterForgotten`. The
  strengthening: a joiner about to be put on the list that read Pending is on a
  track that is still Pending or being answered, because it holds the read lock.
* `TrackLifecycleSafety_proofs!UpstreamIsReleased`: `UpstreamReleased`, when
  subscribers leave by cancelling (no "disconnect" or "refuse" in
  `Behaviours`). `MCLifecycleForgotten` shows why the assumption is needed.
* `TrackLifecycleSafety_proofs!AnsweredOnce`, `RefusedByAll` and
  `ReachedByAlias`: `OneResponse`, `RefusalIsUnanimous` and `AliasServes`, for
  any number of requests, publishers and Tracks, under `Steady`: no "cancel",
  "disconnect", "close" or "unsupported" in `Behaviours`. The assumption is
  exact: with any one of the four TLC finds each of the three violated
  (`MCLifecycleBroken` records one case). The strengthening is
  `SteadyInv` (`TrackLifecycle_proofs`), kept by the steps of the exchanges
  (`TrackLifecycleUpstream_proofs`) and of the requests
  (`TrackLifecycleAnswers_proofs`). `AtHome`: an exchange under way
  belongs to the creator of the Track in the map, so a lookup by name finds the
  Track the exchange was opened for. `Counting`: `unanswered` is never less than
  the number of publishers that still owe an answer, so the exchange that counts
  to zero is the last (`Agreed`) and nobody can be accepted after it.
  `Answering`: at most one exchange is about to tell the creator, and who is on
  the waiting list has no answer yet. `Reached`: aliases and Objects exist only
  for a track that is served.
* `Fetch_proofs!FillsAtWork`: `WaitedForIsAtWork`, for any number of FETCHes and
  any track. The strengthening (`ClaimsHeld`): a claim is held only from the
  question upstream to the end of its answer, in no step of which the task
  waits, and whoever waits does so for a claim that is held, since releasing one
  wakes all who wait for it.
* `Prefixes_proofs!RegistryServes`: `RegisteredIsServed`, for any clients,
  requests and prefixes. The strengthening (`Registry`): a request that has been
  registered and not cancelled has its own entry, and there is one entry for a
  prefix, a client and a kind. The entry that a move or a cancellation finds by
  those three is therefore its own. It rests on the overlap check still being
  true when it is acted on (`InTime`). FORWARD is found by prefix and client alone:
  unless there is an entry of the other kind beside it, that too is its own
  (`Parameters`). The cases `Twins` and `Beside` of `MCPrefixesDone` show why both
  exceptions are needed.
* `Ssts_proofs`: `OneTrack` (`OneTrackPerGroup`), `CacheCurrent`
  (`CacheIsCurrent`), `QuestionsKept` (`WaitingIsAsked`) and `ViewsAgree`
  (`SetsAgree`), for any subscriptions, tracks, sets, operations on them, window
  of decisions and channel capacity. `IInv` has three parts. `Membership`: the
  sets, the index of tracks and the counts of streams agree; it rests on lemmas
  about the stable sort of a ladder and about dropping a member. `Stamped` and
  `Cached`: what a gate has read, and the verdict it cached, belong to the epoch
  sampled before reading, so a later change of membership shows in the epoch; the
  verdict is that of an answer recorded, or of one that left the window since.
  `Carried` and `Awaited`: what was forwarded agrees with a decision that still
  stands, and who waits has asked. What the algorithms answer is not used, so
  the theorems hold for any algorithm.

The constants are assumed to be what the code makes them: a window at least as
wide as the inline bitmap, which is not empty; natural ids; finitely many
publishers; a subscription has one track, and an operation on a switching set
names a known request, track and set and a natural threshold (`SstsConstants`).

Only model-checked: the liveness properties (`EveryoneAnswered`,
`ClosedPublisherLeaves`), which need fairness and are beyond TLAPS; the codecs
and what is built on them (`Wire` to `FilteredStream`), whose operators are
recursive over data of any length, with the refinements of `Channel`;
`AllocationIsSound`, a statement about the recursive allocation over any number
of sets; and the other properties of section 3.

## 5. Not modelled, and why

* The gate that holds PUBLISH_DONE until the streams it counts have arrived
  (`track.rs`), and the wait of a data stream for its alias
  (`track_manager.rs`). `Delivery` starts where a track passes
  PUBLISH_DONE on, and with a known track.
* What TRACK_STATUS answers: a read of a track, or forwarded. (`TrackLocks` has the
  locks it takes, `ControlStream` its stream.)
* Joining FETCHes and the choice among several publishers of a FETCH.
* Several subgroups per group in `Delivery`; the forgetting of absent ranges.
* The bytes of a varint and UTF-8: pure functions that a unit test covers.
* QUIC and WebTransport connections, configuration, logging, start-up: calls
  handed on, input and output.
* The TypeScript library (`moqtail-ts`): the same protocol from the other side,
  in a single-threaded runtime. It is the largest part left out.
* The demo applications: media and user interface.
