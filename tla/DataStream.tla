----------------------------- MODULE DataStream -----------------------------
(***************************************************************************)
(* A data stream between two endpoints, and the datagrams beside it:       *)
(* SendDataStream and RecvDataStream of                                    *)
(* libs/moqtail-rs/src/transport/data_stream_handler.rs, and the datagram  *)
(* branch of the relay's Session::wait_for_streams.                        *)
(*                                                                         *)
(* The receiver is two tasks: a read task that parses what arrives, and    *)
(* the caller of next_item, which takes what was parsed.  They share the   *)
(* queue `items`, the flag `is_closed`, `read_outcome` and a Notify, which *)
(* wakes only who is already waiting; every access to one of them is a     *)
(* step of its own.                                                        *)
(***************************************************************************)
EXTENDS Objects

CONSTANTS
    Settings    \* the streams considered: see Streams of module MCDataStream

VARIABLES
    setting,
    sender,         \* what is still to be written, and what the next is encoded against
    wire,           \* what is in flight, and how the stream will end
    reader,         \* the read task: its place, buffer, header and decoding context
    header_info,    \* the header, once it is known (an Option)
    items,          \* parsed and not yet taken
    is_closed,
    malformed_track,
    read_outcome,   \* "running", "finished" or "aborted"
    taker,          \* where the caller of next_item is
    sent,           \* history: what was written, as the other side should read it
    taken           \* history: what next_item has returned

vars == <<setting, sender, wire, reader, header_info, items, is_closed, malformed_track,
          read_outcome, taker, sent, taken>>

receiving == <<reader, header_info, items, is_closed, malformed_track, read_outcome, taker>>

IsFetch == setting.kind = "fetch"
IsDatagrams == setting.kind = "datagram"

Init ==
    /\ setting \in Settings
    /\ sender = [todo |-> setting.items, begun |-> FALSE, previous |-> <<>>]
    /\ wire = [units |-> <<>>, tail |-> "open"]
    /\ reader = [at |-> "unstarted", buffer |-> <<>>, header |-> <<>>, previous |-> <<>>,
                 priorities |-> [group |-> <<>>, of |-> {}], parsed |-> <<>>, result |-> "none"]
    /\ header_info = <<>>
    /\ items = <<>>
    /\ is_closed = FALSE
    /\ malformed_track = FALSE
    /\ read_outcome = "running"
    /\ taker = "call"
    /\ sent = <<>>
    /\ taken = <<>>

(***************************************************************************)
(* SendDataStream                                                          *)
(***************************************************************************)

\* The order the writer encodes with is that of its FETCH, and Ascending without one.
fetch_group_order(fetch) == IF fetch = <<>> THEN "Ascending" ELSE fetch[1]

\* SendDataStream::new writes the header.
SendHeader ==
    /\ ~IsDatagrams /\ ~sender.begun
    /\ LET header == IF IsFetch THEN Encoded(SerializeFetchHeader(setting.header.request_id))
                     ELSE SerializeSubgroupHeader(setting.header)
       IN  wire' = [wire EXCEPT !.units = header.v]
    /\ sender' = [sender EXCEPT !.begun = TRUE]
    /\ UNCHANGED <<setting, receiving, sent, taken>>

EncodeItem(item) ==
    CASE IsFetch /\ IsMarker(item) -> SerializeFetchObject(item, sender.previous, "Ascending")
      [] IsFetch /\ ~IsMarker(item) ->
             Then(try_into_fetch(item), LAMBDA f, rest :
                 SerializeFetchObject(f, sender.previous, fetch_group_order(setting.fetch)))
      [] ~IsFetch -> Then(try_into_subgroup(item), LAMBDA o, rest :
                         SerializeSubgroupObject(o, sender.previous, Has(setting.header.header_type, 1)))

\* What the item after this one is encoded against
PreviousAfter(item) ==
    CASE IsFetch /\ IsMarker(item) -> <<next_context(item, sender.previous)>>
      [] IsFetch /\ ~IsMarker(item) -> <<next_context(try_into_fetch(item).v, sender.previous)>>
      [] ~IsFetch -> <<item.location.object>>

\* What a reader should make of an item: the properties sorted, an empty list of them
\* kept only under a header that says there are some, no payload for an empty one.
AsRead(item) ==
    IF IsMarker(item) THEN item
    ELSE LET properties == SortByType(unwrap_or(item.properties, <<>>))
             kept == properties # <<>>
                     \/ (setting.kind = "subgroup" /\ Has(setting.header.header_type, 1))
         IN  [item EXCEPT !.track_alias = IF IsFetch THEN 0 ELSE @,
                          !.properties = IF kept THEN <<properties>> ELSE <<>>,
                          !.payload = IF ~IsDatagrams /\ @ = <<<<>>>> THEN <<>> ELSE @]

\* send_object, send_end_of_range: an item that cannot be encoded is reported to the
\* caller and not written.  In a setting that cuts the stream or stalls, the last one is
\* written only in part.
SendItem ==
    /\ ~IsDatagrams /\ sender.begun /\ wire.tail = "open" /\ sender.todo # <<>>
    /\ LET item == Head(sender.todo)
           encoded == EncodeItem(item)
           cut == setting.tail \in {"cut", "stall"} /\ Len(sender.todo) = 1
           written == IF cut THEN Front(encoded.v) ELSE encoded.v
       IN  IF Ok(encoded)
           THEN /\ wire' = [wire EXCEPT !.units = @ \o written]
                /\ sent' = Append(sent, AsRead(item))
                /\ sender' = [sender EXCEPT !.todo = Tail(@), !.previous = PreviousAfter(item)]
           ELSE /\ sender' = [sender EXCEPT !.todo = Tail(@)]
                /\ UNCHANGED <<wire, sent>>
    /\ UNCHANGED <<setting, receiving, taken>>

\* finish, or what else ends a stream: a reset, the connection lost, nothing any more
EndStream ==
    /\ ~IsDatagrams /\ sender.begun /\ wire.tail = "open"
    /\ setting.tail \in {"fin", "cut", "stall"} => sender.todo = <<>>
    /\ wire' = [units |-> IF setting.tail \in {"reset", "lost"} THEN <<>> ELSE wire.units,
                tail |-> CASE setting.tail = "cut" -> "fin"
                           [] setting.tail = "stall" -> "silence"
                           [] OTHER -> setting.tail]
    /\ UNCHANGED <<setting, sender, receiving, sent, taken>>

(***************************************************************************)
(* RecvDataStream::read                                                    *)
(***************************************************************************)

\* notify_waiters wakes a caller that already waits, and nobody else.
notify_waiters == taker' = IF taker = "waiting" THEN "look" ELSE taker

sending == <<setting, sender, sent, taken>>

\* The read task gives up: is_closed first, then the error goes up to the task's end.
Fails(r) == /\ is_closed' = TRUE
            /\ reader' = [r EXCEPT !.at = "return", !.result = "aborted"]

read_header(units) ==
    IF Head(units) = FETCH_HEADER_TYPE
    THEN Then(DeserializeFetchHeader(units), LAMBDA h, rest :
             Got([request_id |-> h.request_id, fetch |-> setting.fetch], rest))
    ELSE DeserializeSubgroupHeader(units)

ReadHeader ==
    /\ reader.at = "header"
    /\ LET r == IF reader.buffer = <<>> \/ reader.header # <<>> THEN Fail("NotEnoughBytes")
                ELSE read_header(reader.buffer)
       IN  \/ /\ r.err = "NotEnoughBytes"
              /\ reader' = [reader EXCEPT !.at = "objects"]
              /\ UNCHANGED <<header_info, is_closed>>
           \/ /\ Ok(r)
              /\ reader' = [reader EXCEPT !.at = "objects", !.buffer = r.rest, !.header = <<r.v>>]
              /\ header_info' = <<r.v>>
              /\ UNCHANGED is_closed
           \/ /\ ~Ok(r) /\ r.err # "NotEnoughBytes"
              /\ Fails(reader)
              /\ UNCHANGED header_info
    /\ UNCHANGED <<sending, wire, items, malformed_track, read_outcome, taker>>

\* Mutant: the priorities of one group are held against the next.
validate_across_groups(priorities, f) ==
    LET mine == <<f.subgroup_id, f.publisher_priority>>
    IN  IF f.forwarding_preference # "Subgroup" THEN Got(priorities, <<>>)
        ELSE IF \E p \in priorities.of : p[1] = mine[1] /\ p[2] # mine[2]
        THEN Fail("MalformedTrack")
        ELSE Got([group |-> <<f.group_id>>, of |-> priorities.of \cup {mine}], <<>>)

\* FetchSubgroupPriorityState::validate: within a group a subgroup keeps its priority.
validate(priorities, f) ==
    LET of == IF priorities.group = <<f.group_id>> THEN priorities.of ELSE {}
        mine == <<f.subgroup_id, f.publisher_priority>>
    IN  IF f.forwarding_preference # "Subgroup"
        THEN Got([group |-> <<f.group_id>>, of |-> of], <<>>)
        ELSE IF \E p \in of : p[1] = mine[1] /\ p[2] # mine[2] THEN Fail("MalformedTrack")
        ELSE Got([group |-> <<f.group_id>>, of |-> of \cup {mine}], <<>>)

Parsed(item, header, previous, priorities) ==
    [item |-> item, header |-> header, previous |-> <<previous>>, priorities |-> priorities]

ParseFetch(header) ==
    Then(DeserializeFetchObject(reader.buffer, reader.previous, fetch_group_order(header.fetch)),
         LAMBDA f, rest :
        LET context == next_context(f, reader.previous) IN
        IF IsMarker(f) THEN Got(Parsed(f, header, context, reader.priorities), rest)
        ELSE Then(validate(reader.priorities, f), LAMBDA priorities, none :
             IF ~validate_prior_gaps(f.group_id, f.object_id, unwrap_or(f.properties, <<>>))
             THEN Fail("MalformedTrack")
             ELSE Got(Parsed(try_from_fetch(f), header, context, priorities), rest)))

AwaitsSubgroupId(header) ==
    header.subgroup_id = <<>> /\ subgroup_id_mode(header.header_type) = FirstObjectId

\* The first Object names the subgroup when the header leaves that to it.
ParseSubgroup(header) ==
    Then(DeserializeSubgroupObject(reader.buffer, reader.previous, Has(header.header_type, 1)),
         LAMBDA o, rest :
        LET named == IF AwaitsSubgroupId(header)
                     THEN [header EXCEPT !.subgroup_id = <<o.object_id>>] ELSE header
        IN  Got(Parsed(try_from_subgroup(o, named), named, o.object_id, reader.priorities), rest))

\* Mutant: the header that the first Object completed is published with the next read.
ReadObjectPublishesLate ==
    /\ reader.at = "objects"
    /\ LET header == reader.header[1]
           r == IF reader.buffer = <<>> \/ reader.header = <<>> THEN Fail("NotEnoughBytes")
                ELSE IF IsFetch THEN ParseFetch(header) ELSE ParseSubgroup(header)
       IN  \/ /\ r.err = "NotEnoughBytes"
              /\ reader' = [reader EXCEPT !.at = "check"]
              /\ header_info' = reader.header
              /\ UNCHANGED <<is_closed, malformed_track>>
           \/ /\ Ok(r)
              /\ reader' = [reader EXCEPT !.at = "push", !.buffer = r.rest, !.parsed = <<r.v>>]
              /\ UNCHANGED <<header_info, is_closed, malformed_track>>
           \/ /\ ~Ok(r) /\ r.err # "NotEnoughBytes"
              /\ Fails(reader)
              /\ malformed_track' = (malformed_track \/ r.err = "MalformedTrack")
              /\ UNCHANGED header_info
    /\ UNCHANGED <<sending, wire, items, read_outcome, taker>>

\* read_object, up to the point where the item is queued: a header that the item
\* completed is published first.
ReadObject ==
    /\ reader.at = "objects"
    /\ LET header == reader.header[1]
           r == IF reader.buffer = <<>> \/ reader.header = <<>> THEN Fail("NotEnoughBytes")
                ELSE IF IsFetch THEN ParseFetch(header) ELSE ParseSubgroup(header)
       IN  \/ /\ r.err = "NotEnoughBytes"
              /\ reader' = [reader EXCEPT !.at = "check"]
              /\ UNCHANGED <<header_info, is_closed, malformed_track>>
           \/ /\ Ok(r)
              /\ reader' = [reader EXCEPT !.at = "push", !.buffer = r.rest, !.parsed = <<r.v>>]
              /\ header_info' = <<r.v.header>>
              /\ UNCHANGED <<is_closed, malformed_track>>
           \/ /\ ~Ok(r) /\ r.err # "NotEnoughBytes"
              /\ Fails(reader)
              /\ malformed_track' = (malformed_track \/ r.err = "MalformedTrack")
              /\ UNCHANGED header_info
    /\ UNCHANGED <<sending, wire, items, read_outcome, taker>>

PushItem ==
    /\ reader.at = "push"
    /\ items' = Append(items, reader.parsed[1].item)
    /\ reader' = [reader EXCEPT !.at = "notify"]
    /\ UNCHANGED <<sending, wire, header_info, is_closed, malformed_track, read_outcome, taker>>

\* The context moves on past the item, the caller is woken, and the next is tried.
NotifyItem ==
    /\ reader.at = "notify"
    /\ LET p == reader.parsed[1]
       IN  reader' = [reader EXCEPT !.at = "objects", !.header = <<p.header>>,
                                    !.previous = p.previous, !.priorities = p.priorities,
                                    !.parsed = <<>>]
    /\ notify_waiters
    /\ UNCHANGED <<sending, wire, header_info, items, is_closed, malformed_track, read_outcome>>

\* After the FIN: what is left of the bytes is an Object that never arrived whole.
CheckClosed ==
    /\ reader.at = "check"
    /\ IF is_closed
       THEN /\ notify_waiters
            /\ reader' = [reader EXCEPT !.at = "return",
                              !.result = IF reader.buffer = <<>> THEN "finished" ELSE "aborted"]
       ELSE reader' = [reader EXCEPT !.at = "read"] /\ UNCHANGED taker
    /\ UNCHANGED <<sending, wire, header_info, items, is_closed, malformed_track, read_outcome>>

\* The read itself: some of the bytes in flight
ReadUnits ==
    /\ reader.at = "read"
    /\ \E n \in 1 .. Len(wire.units) :
           /\ reader' = [reader EXCEPT !.at = "header",
                                       !.buffer = @ \o SubSeq(wire.units, 1, n)]
           /\ wire' = [wire EXCEPT !.units = SubSeq(@, n + 1, Len(@))]
    /\ UNCHANGED <<sending, header_info, items, is_closed, malformed_track, read_outcome, taker>>

\* The FIN after all of them: the loop goes round once more.
ReadFin ==
    /\ reader.at = "read" /\ wire.units = <<>> /\ wire.tail = "fin"
    /\ is_closed' = TRUE
    /\ reader' = [reader EXCEPT !.at = "header"]
    /\ UNCHANGED <<sending, wire, header_info, items, malformed_track, read_outcome, taker>>

\* A reset or lost connection, or DATA_STREAM_TIMEOUT without a byte
ReadError ==
    /\ reader.at = "read"
    /\ \/ wire.tail \in {"reset", "lost"}
       \/ wire.tail = "silence" /\ wire.units = <<>>
    /\ Fails(reader)
    /\ UNCHANGED <<sending, wire, header_info, items, malformed_track, read_outcome, taker>>

\* The task's end: the outcome is stored, and after an error the callers woken.
EndRead ==
    /\ reader.at = "return"
    /\ read_outcome' = reader.result
    /\ reader' = [reader EXCEPT !.at = IF reader.result = "aborted" THEN "wake" ELSE "ended"]
    /\ UNCHANGED <<sending, wire, header_info, items, is_closed, malformed_track, taker>>

WakeAfterError ==
    /\ reader.at = "wake"
    /\ notify_waiters
    /\ reader' = [reader EXCEPT !.at = "ended"]
    /\ UNCHANGED <<sending, wire, header_info, items, is_closed, malformed_track, read_outcome>>

(***************************************************************************)
(* RecvDataStream::next_item, called again and again until it returns None *)
(***************************************************************************)

producing == <<setting, sender, wire, header_info, is_closed, malformed_track, read_outcome, sent>>

\* The first call starts the read task.
CallNextItem ==
    /\ taker = "call" /\ ~IsDatagrams
    /\ taker' = "look"
    /\ reader' = IF reader.at = "unstarted" THEN [reader EXCEPT !.at = "header"] ELSE reader
    /\ UNCHANGED <<producing, items, taken>>

LookForItem ==
    /\ taker = "look"
    /\ IF items # <<>>
       THEN /\ taken' = Append(taken, Head(items))
            /\ items' = Tail(items)
            /\ taker' = "call"
       ELSE taker' = "closed?" /\ UNCHANGED <<items, taken>>
    /\ UNCHANGED <<producing, reader>>

LookClosed ==
    /\ taker = "closed?"
    /\ taker' = IF is_closed THEN "empty?" ELSE "wait"
    /\ UNCHANGED <<producing, reader, items, taken>>

LookEmpty ==
    /\ taker = "empty?"
    /\ taker' = IF items = <<>> THEN "outcome?" ELSE "look"
    /\ UNCHANGED <<producing, reader, items, taken>>

\* Mutant: the end is reported without waiting for the task to say how it ended.
LookOutcomeAtOnce ==
    /\ taker = "outcome?"
    /\ taker' = "none"
    /\ UNCHANGED <<producing, reader, items, taken>>

LookOutcome ==
    /\ taker = "outcome?"
    /\ taker' = IF read_outcome = "running" THEN "look" ELSE "none"
    /\ UNCHANGED <<producing, reader, items, taken>>

\* notify.notified(): from here on, and not before, a notification is received.
WaitNotified ==
    /\ taker = "wait"
    /\ taker' = "waiting"
    /\ UNCHANGED <<producing, reader, items, taken>>

(***************************************************************************)
(* Datagrams: one Object each; any of them may be lost or overtaken        *)
(***************************************************************************)

SendDatagram ==
    /\ IsDatagrams /\ sender.todo # <<>>
    /\ LET o == Head(sender.todo)
           encoded == Then(try_into_datagram(o, o.track_alias, setting.end_of_group,
                                             setting.default_priority),
                           LAMBDA d, rest : SerializeDatagram(d))
       IN  IF Ok(encoded)
           THEN /\ wire' = [wire EXCEPT !.units = Append(@, encoded.v)]
                /\ sent' = Append(sent, AsRead(o))
           ELSE UNCHANGED <<wire, sent>>
    /\ sender' = [sender EXCEPT !.todo = Tail(@)]
    /\ UNCHANGED <<setting, receiving, taken>>

\* One that cannot be parsed is dropped.
ReceiveDatagram ==
    /\ IsDatagrams
    /\ \E i \in DOMAIN wire.units :
           LET d == DeserializeDatagram(wire.units[i]) IN
           /\ wire' = [wire EXCEPT !.units = RemoveAt(@, i)]
           /\ taken' = IF Ok(d)
                       THEN Append(taken, try_from_datagram(d.v,
                                              unwrap_or(setting.default_priority,
                                                        DEFAULT_PUBLISHER_PRIORITY)))
                       ELSE taken
    /\ UNCHANGED <<setting, sender, receiving, sent>>

LoseDatagram ==
    /\ IsDatagrams
    /\ \E i \in DOMAIN wire.units : wire' = [wire EXCEPT !.units = RemoveAt(@, i)]
    /\ UNCHANGED <<setting, sender, receiving, sent, taken>>

Sending == SendHeader \/ SendItem \/ EndStream \/ SendDatagram
ReadTask ==
    \/ ReadHeader \/ ReadObject \/ PushItem \/ NotifyItem \/ CheckClosed
    \/ ReadUnits \/ ReadFin \/ ReadError \/ EndRead \/ WakeAfterError
Taking ==
    CallNextItem \/ LookForItem \/ LookClosed \/ LookEmpty \/ LookOutcome \/ WaitNotified

Next == Sending \/ ReadTask \/ Taking \/ ReceiveDatagram \/ LoseDatagram

Spec == Init /\ [][Next]_vars

\* The sender goes on to the end of its stream, the transport delivers or fails, and
\* the executor runs a task that is ready.
FairSpec == Spec /\ WF_vars(Sending) /\ WF_vars(ReadTask) /\ WF_vars(Taking)

(***************************************************************************)
(* Properties                                                              *)
(***************************************************************************)

Stream == INSTANCE Channel WITH
    sent <- IF IsDatagrams THEN <<>> ELSE sent,
    taken <- IF IsDatagrams THEN <<>> ELSE taken,
    ended <- IF taker # "none" THEN "open"
             ELSE IF read_outcome = "finished" THEN "clean" ELSE "broken"

\* What next_item returns to its caller is the channel's end of the stream: the items
\* as they were written, in order, none lost or twice, and a clean end only after all
\* of them (datagrams are not part of the stream).
IsChannel == Stream!Spec

\* Two Objects of one subgroup that differ in priority, or a gap that reaches back past
\* id 0, on a fetch stream
MalformedContent ==
    IsFetch /\ \E i \in DOMAIN sent : ~IsMarker(sent[i]) /\
        \/ \E j \in 1 .. i - 1 :
               /\ ~IsMarker(sent[j])
               /\ sent[i].forwarding_preference = "Subgroup"
               /\ sent[i].subgroup_id = sent[j].subgroup_id
               /\ sent[i].location.group = sent[j].location.group
               /\ sent[i].publisher_priority # sent[j].publisher_priority
        \/ ~validate_prior_gaps(sent[i].location.group, sent[i].location.object,
                                unwrap_or(sent[i].properties, <<>>))

\* The end is reported as aborted exactly when it is not a FIN after whole items, or the
\* content is malformed; a peer's orderly stream is never taken for a broken one.
AbortedForAReason ==
    taker = "none" =>
        (read_outcome = "aborted" <=> setting.tail # "fin" \/ MalformedContent)

\* What the taker sees of the reader is settled when it sees it.  With an Object in hand
\* it finds a header that names the subgroup, by which the relay routes the Object; and
\* when next_item returns None the read task has stored how it ended, for was_aborted,
\* and left nothing in the queue.
TakerIsNotAhead ==
    /\ items # <<>> \/ (taken # <<>> /\ ~IsDatagrams) =>
        /\ header_info # <<>>
        /\ setting.kind = "subgroup" =>
               header_info[1].subgroup_id = setting.items[1].subgroup_id
    /\ taker = "none" => read_outcome # "running" /\ items = <<>>

\* What arrives in datagrams is among what was sent in them, each Object as it was sent.
DatagramsAsSent == IsDatagrams => \A i \in DOMAIN taken : taken[i] \in ToSet(sent)

\* An Object of a subgroup stream, as the next hop would read it from a stream that a
\* relay opens in the middle of the subgroup
ReadAtNextHop(o, header) ==
    Then(SerializeSubgroupHeader(for_mid_subgroup_stream(header)), LAMBDA units, none :
    Then(DeserializeSubgroupHeader(units), LAMBDA h, empty :
    Then(try_into_subgroup(o), LAMBDA w, r1 :
    Then(SerializeSubgroupObject(w, <<>>, Has(h.header_type, 1)), LAMBDA written, r2 :
    Then(DeserializeSubgroupObject(written, <<>>, Has(h.header_type, 1)), LAMBDA read, r3 :
        Got(try_from_subgroup(read, IF AwaitsSubgroupId(h)
                                    THEN [h EXCEPT !.subgroup_id = <<read.object_id>>] ELSE h),
            <<>>))))))

\* A zero-length Normal Object comes without a payload, and cannot be written again.
IsZeroLength(o) == o.status = NormalStatus /\ o.payload = <<>>

\* An Object that was received on a subgroup stream is the same after one more hop, on a
\* stream opened at that Object.
SameAfterAnotherHop ==
    setting.kind = "subgroup" /\ taken # <<>> =>
        LET o == Last(taken)
        IN  IsZeroLength(o) \/ ReadAtNextHop(o, header_info[1]) = Got(o, <<>>)

\* `None` once the stream has ended: the caller of next_item gets to see the end.
EndIsSeen == reader.at = "ended" ~> taker = "none"
=============================================================================
