---------------------------- MODULE ControlStream ----------------------------
(***************************************************************************)
(* The relay's end of a stream of control messages: ControlStreamHandler,  *)
(* which turns whatever pieces the transport delivers back into messages   *)
(* (libs/moqtail-rs/src/transport/control_stream_handler.rs), and what     *)
(* reads from it.  The setting says which stream it is:                    *)
(*   "control"  the control stream, under Session::negotiate and the       *)
(*              message loop of handle_control_messages (session.rs);      *)
(*   "request"  a request stream the peer opened (request_stream.rs);      *)
(*   "answer"   a request stream the relay opened, on which it takes what  *)
(*              the peer answers.                                          *)
(*                                                                         *)
(* The peer writes the messages of the setting one after the other.  The   *)
(* transport hands them over in pieces of any size; they may be followed   *)
(* by silence, a FIN, a reset or the loss of the connection.               *)
(***************************************************************************)
EXTENDS ControlMessages

CONSTANTS
    Settings   \* [role, messages, tail, transport, relay]; relay says what meets a request:
               \*   "serving"   it is served or refused
               \*   "retiring"  as well, and what it is about may be taken away later
               \*   "aliased"   the session has given its Track Alias to another track
               \*   "draining", "busy"

VARIABLES
    setting,
    written,    \* how many of the messages the peer has been through
    sent,       \* those it could encode, as a reader should get them (history)
    flight,     \* written units that no read has returned yet
    recv_bytes, \* the handler's buffer
    deadline,   \* partial_message_deadline: "none", "armed" or "passed"
    pc,         \* "parse", "read" or, with a message in hand, "handle"
    held,       \* the message next_message has just returned
    taken,      \* the messages it has returned, in order
    replies,    \* the messages written to the peer
    kept,       \* what the relay holds of the request of this stream:
                \*   "none"          nothing yet
                \*   "served"        all of it
                \*   "unsubscribed"  a SUBSCRIBE whose subscription is off its track
                \*   "torn"          the request, but not the track or record it needs
                \*   "stopped"       a FETCH whose delivery was stopped
                \*   "gone"          nothing any more (inbound_requests)
    code        \* what the session or, for a request stream, the request ended with

vars == <<setting, written, sent, flight, recv_bytes, deadline, pc, held, taken, replies, kept,
          code>>

NoMessage == [msg |-> "none"]

Init ==
    /\ setting \in Settings
    /\ written = 0
    /\ sent = <<>>
    /\ flight = <<>>
    /\ recv_bytes = <<>>
    /\ deadline = "none"
    /\ pc = "parse"
    /\ held = NoMessage
    /\ taken = <<>>
    /\ replies = <<>>
    /\ kept = "none"
    /\ code = "open"

(***************************************************************************)
(* The peer and the transport                                              *)
(***************************************************************************)

\* A message as its reader gets it: the lists in it are sorted by Type.
AsRead(m) ==
    LET Inner(p) ==
            IF p.type \in {FillParameters, ImmutableProperties} /\ m.msg # "Setup"
            THEN [p EXCEPT !.value = SortByType(@)] ELSE p
        List(f) == LET sorted == SortByType(m[f])
                   IN  [i \in DOMAIN sorted |-> Inner(sorted[i])]
    IN  [f \in DOMAIN m |->
            IF f \in {"parameters", "track_properties", "setup_options"} THEN List(f) ELSE m[f]]

\* send, send_impl: a message that cannot be encoded is not written at all
send ==
    /\ written < Len(setting.messages)
    /\ written' = written + 1
    /\ LET m == setting.messages[written + 1]
           bytes == Serialize(m)
       IN  IF Ok(bytes)
           THEN flight' = flight \o bytes.v /\ sent' = Append(sent, AsRead(m))
           ELSE UNCHANGED <<flight, sent>>
    /\ UNCHANGED <<setting, recv_bytes, deadline, pc, held, taken, replies, kept, code>>

\* CONTROL_MESSAGE_TIMEOUT goes by; only a peer that stalls lets it.
Passes ==
    /\ deadline = "armed"
    /\ setting.tail = "silence"
    /\ deadline' = "passed"
    /\ UNCHANGED <<setting, written, sent, flight, recv_bytes, pc, held, taken, replies, kept, code>>

(***************************************************************************)
(* next_message: parse what is there, or wait for more                     *)
(***************************************************************************)

\* What a failure of next_message ends: the control loop gives it up with the session;
\* a request stream is dropped before its first message, and cancelled after it.
Ended(why) ==
    CASE setting.role \in {"control", "answer"} -> why
      [] setting.role = "request" /\ taken = <<>> -> "dropped"
      [] setting.role = "request" /\ taken # <<>> -> "cancelled"

Terminate(why) ==
    /\ code' = Ended(why)
    /\ UNCHANGED <<setting, written, sent, flight, pc, held, taken, replies, kept>>

\* Mutant: the buffer is cleared with the message that was parsed.
next_message_clears ==
    /\ code = "open"
    /\ pc = "parse"
    /\ LET r == Deserialize(recv_bytes) IN
       CASE recv_bytes = <<>> ->
                /\ pc' = "read"
                /\ UNCHANGED <<recv_bytes, deadline, held, taken, code>>
         [] recv_bytes # <<>> /\ Ok(r) ->
                /\ recv_bytes' = <<>>
                /\ deadline' = "none"
                /\ held' = r.v
                /\ taken' = Append(taken, r.v)
                /\ pc' = "handle"
                /\ code' = code
         [] recv_bytes # <<>> /\ r.err = "ProtocolViolation" ->
                /\ code' = Ended("ProtocolViolation")
                /\ UNCHANGED <<recv_bytes, deadline, held, taken, pc>>
         [] recv_bytes # <<>> /\ r.err \notin {"none", "ProtocolViolation"} ->
                /\ deadline' = IF r.err = "NotEnoughBytes" /\ deadline = "none"
                               THEN "armed" ELSE deadline
                /\ pc' = "read"
                /\ UNCHANGED <<recv_bytes, held, taken, code>>
    /\ UNCHANGED <<setting, written, sent, flight, replies, kept>>

\* Mutant: a message that is complete leaves the deadline running.
next_message_keeps_deadline ==
    /\ code = "open"
    /\ pc = "parse"
    /\ LET r == Deserialize(recv_bytes) IN
       CASE recv_bytes = <<>> ->
                /\ pc' = "read"
                /\ UNCHANGED <<recv_bytes, deadline, held, taken, code>>
         [] recv_bytes # <<>> /\ Ok(r) ->
                /\ recv_bytes' = r.rest
                /\ deadline' = deadline
                /\ held' = r.v
                /\ taken' = Append(taken, r.v)
                /\ pc' = "handle"
                /\ code' = code
         [] recv_bytes # <<>> /\ r.err = "ProtocolViolation" ->
                /\ code' = Ended("ProtocolViolation")
                /\ UNCHANGED <<recv_bytes, deadline, held, taken, pc>>
         [] recv_bytes # <<>> /\ r.err \notin {"none", "ProtocolViolation"} ->
                /\ deadline' = IF r.err = "NotEnoughBytes" /\ deadline = "none"
                               THEN "armed" ELSE deadline
                /\ pc' = "read"
                /\ UNCHANGED <<recv_bytes, held, taken, code>>
    /\ UNCHANGED <<setting, written, sent, flight, replies, kept>>

next_message ==
    /\ code = "open"
    /\ pc = "parse"
    /\ LET r == Deserialize(recv_bytes) IN
       CASE recv_bytes = <<>> ->
                /\ pc' = "read"
                /\ UNCHANGED <<recv_bytes, deadline, held, taken, code>>
         [] recv_bytes # <<>> /\ Ok(r) ->
                /\ recv_bytes' = r.rest
                /\ deadline' = "none"
                /\ held' = r.v
                /\ taken' = Append(taken, r.v)
                /\ pc' = "handle"
                /\ code' = code
         [] recv_bytes # <<>> /\ r.err = "ProtocolViolation" ->
                /\ code' = Ended("ProtocolViolation")
                /\ UNCHANGED <<recv_bytes, deadline, held, taken, pc>>
         [] recv_bytes # <<>> /\ r.err \notin {"none", "ProtocolViolation"} ->
                /\ deadline' = IF r.err = "NotEnoughBytes" /\ deadline = "none"
                               THEN "armed" ELSE deadline
                /\ pc' = "read"
                /\ UNCHANGED <<recv_bytes, held, taken, code>>
    /\ UNCHANGED <<setting, written, sent, flight, replies, kept>>

\* read_more_data, the read: it returns some of what has been written. The sleep
\* comes first in the select, so past the deadline nothing is read any more.
ReadSome(n) ==
    /\ code = "open"
    /\ pc = "read"
    /\ deadline # "passed"
    /\ recv_bytes' = recv_bytes \o SubSeq(flight, 1, n)
    /\ flight' = SubSeq(flight, n + 1, Len(flight))
    /\ pc' = "parse"
    /\ UNCHANGED <<setting, written, sent, deadline, held, taken, replies, kept, code>>

\* read_more_data, the sleep
ReadTimesOut ==
    /\ code = "open"
    /\ pc = "read"
    /\ deadline = "passed"
    /\ deadline' = "none"
    /\ recv_bytes' = <<>>
    /\ Terminate("ControlMessageTimeout")

\* handle_read_result when the stream ends: a reset may overtake what was written.
handle_read_result ==
    /\ code = "open"
    /\ pc = "read"
    /\ deadline # "passed"
    /\ \/ /\ setting.tail = "fin"
          /\ written = Len(setting.messages)
          /\ flight = <<>>
          /\ Terminate("ProtocolViolation")
       \/ setting.tail = "lost" /\ Terminate("NoError")
       \/ setting.tail = "reset" /\ Terminate("InternalError")
    /\ UNCHANGED <<recv_bytes, deadline>>

\* The select! of the message loops: a message for the peer is sent while next_message
\* waits, and the wait is dropped and started over.
Interrupted ==
    /\ code = "open"
    /\ pc = "read"
    /\ Len(taken) > 0
    /\ Len(replies) < 2
    /\ replies' = Append(replies, "queued")
    /\ pc' = "parse"
    /\ UNCHANGED <<setting, written, sent, flight, recv_bytes, deadline, held, taken, kept, code>>

(***************************************************************************)
(* What is done with a message                                             *)
(***************************************************************************)

\* What handling a message may lead to: how the stream stands, what is written to it and
\* what is kept of its request
Outcome(c, rs, k) == [code |-> c, replies |-> rs, kept |-> k]
Closes(c) == {Outcome(c, <<>>, kept)}
GoesOn == {Outcome("open", <<>>, kept)}

HandledWith(outcomes) ==
    /\ code = "open"
    /\ pc = "handle"
    /\ \E o \in outcomes :
          code' = o.code /\ replies' = replies \o o.replies /\ kept' = o.kept
    /\ pc' = "parse"
    /\ held' = NoMessage
    /\ UNCHANGED <<setting, written, sent, flight, recv_bytes, deadline, taken>>

\* read_setup and negotiate: SETUP comes first, its options are checked, and the
\* relay's own SETUP is written.
negotiate ==
    /\ setting.role = "control"
    /\ Len(taken) = 1
    /\ LET refused == IF held.msg # "Setup" THEN "ProtocolViolation"
                      ELSE validate_incoming(held.setup_options, "Client", setting.transport)
       IN  HandledWith(IF refused # "none" THEN Closes(refused)
                       ELSE {Outcome("open", <<"Setup">>, kept)})

\* MessageHandler::handle: what a message does to the session, on a request stream
\* or on none
HandlerRefuses(m, on_request_stream) ==
    \/ m.msg \in {"SubscribeNamespace", "SubscribeOk", "FetchOk"}
    \/ ~on_request_stream /\ m.msg \in {"RequestOk", "RequestError", "RequestUpdate",
                                        "PublishDone"}

\* handle_control_messages: requests have streams of their own.
handle_control_messages ==
    /\ setting.role = "control"
    /\ Len(taken) > 1
    /\ HandledWith(IF is_first(held.msg) \/ HandlerRefuses(held, FALSE)
                   THEN Closes("ProtocolViolation") ELSE GoesOn)

PrefixKinds == {"SubscribeNamespace", "SubscribeTracks"}

\* resolve_fetch_range: the range of a FETCH ends before it starts.
EndPrecedesStart(m) ==
    \E i \in DOMAIN m.parameters :
        LET p == m.parameters[i] IN
        /\ p.type = LocationFilter /\ p.value.filter = "AbsoluteRange"
        /\ \/ p.value.end.group < p.value.start.group
           \/ p.value.end.group = p.value.start.group /\ p.value.end.object < p.value.start.object

\* What the handler of a request makes of it. It answers at once or leaves the answer to
\* the channel of the stream; a prefix subscription it refuses closes that channel, and
\* the stream with it. Only what it accepts, and what can be updated, is kept.
RequestOutcomes(m) ==
    CASE m.msg = "Publish" /\ setting.relay = "aliased" -> Closes("DuplicateTrackAlias")
      [] m.msg = "Fetch" /\ EndPrecedesStart(m) -> Closes("ProtocolViolation")
      [] m.msg \in PrefixKinds -> {Outcome("refused", <<"answer">>, "gone"),
                                  Outcome("open", <<"answer">>, "served")}
      [] m.msg = "TrackStatus" -> {Outcome("open", <<"answer">>, "gone")}
      [] OTHER -> {Outcome("open", rs, k) : rs \in {<<"answer">>, <<>>}, k \in {"served", "gone"}}

\* request_stream::accept: the first message must be a request; while the relay drains
\* it is refused, and beyond the load it takes the stream is reset.
accept ==
    /\ setting.role = "request"
    /\ Len(taken) = 1
    /\ HandledWith(IF ~is_first(held.msg) THEN Closes("ProtocolViolation")
                   ELSE IF setting.relay = "draining" THEN {Outcome("GOING_AWAY", <<"answer">>, kept)}
                   ELSE IF setting.relay = "busy" THEN Closes("EXCESSIVE_LOAD")
                   ELSE RequestOutcomes(held))

\* What other tasks take away from a request while its stream is open: a track is retired
\* and its subscriptions detached, a subscription is dropped, a FETCH is done, the track
\* of a PUBLISH goes or passes to another PUBLISH of the session.
TakenAway ==
    [Subscribe |-> {<<"served", "unsubscribed">>, <<"served", "torn">>,
                    <<"unsubscribed", "torn">>, <<"torn", "gone">>},
     Fetch |-> {<<"served", "gone">>, <<"stopped", "gone">>},
     Publish |-> {<<"served", "torn">>}]

Withdrawn ==
    /\ code = "open"
    /\ setting.relay = "retiring"
    /\ kept # "none"
    /\ \E change \in TakenAway[taken[1].msg] : kept = change[1] /\ kept' = change[2]
    /\ UNCHANGED <<setting, written, sent, flight, recv_bytes, deadline, pc, held, taken,
                   replies, code>>

\* Only an update follows a prefix subscription, and never a TRACK_STATUS.
rejected_follow_up(kind, m) ==
    \/ kind \in PrefixKinds /\ m.msg # "RequestUpdate"
    \/ kind = "TrackStatus" /\ m.msg = "RequestUpdate"

\* Mutant: an update to a request the relay does not hold closes the session.
UpdateOutcomesNotFound(kind) ==
    CASE kept = "gone" -> Closes("ProtocolViolation")
      [] kept = "torn" -> Closes("ProtocolViolation")
      [] kept \in {"served", "stopped"} /\ kind = "Fetch" -> {Outcome("open", <<>>, "stopped")}
      [] OTHER -> {Outcome("open", <<"updated">>, kept)}

\* What a REQUEST_UPDATE does, by what is kept of the request it updates: REQUEST_OK or
\* REQUEST_ERROR answers it, and a SUBSCRIBE it fails for ends with PUBLISH_DONE. Where
\* the handler misses the track or the record it looks for, it closes the session. On a
\* FETCH it stops the delivery and is not answered. The resets of
\* publish_namespace_handler and prefix_subscription need a request that is gone by the
\* time its handler runs, and only the task of this stream takes those away.
UpdateOutcomes(kind) ==
    CASE kept = "gone" -> {Outcome("open", <<"updated">>, kept)}
      [] kept = "torn" -> Closes("ProtocolViolation")
                          \cup (IF kind = "Publish" THEN Closes("InternalError") ELSE {})
      [] kept \in {"served", "stopped"} /\ kind = "Fetch" -> {Outcome("open", <<>>, "stopped")}
      [] kept \in {"served", "unsubscribed"} /\ kind = "Subscribe" ->
             {Outcome("open", <<"updated">>, kept),
              Outcome("open", <<"updated", "PublishDone">>, "unsubscribed")}
      [] OTHER -> {Outcome("open", <<"updated">>, kept)}

\* A PUBLISH_DONE ends the request of its stream. No setting sends a second request on one.
handle_follow_up ==
    /\ setting.role = "request"
    /\ Len(taken) > 1
    /\ HandledWith(
          CASE rejected_follow_up(taken[1].msg, held) \/ HandlerRefuses(held, TRUE) ->
                   Closes("ProtocolViolation")
            [] OTHER ->
                   CASE held.msg = "RequestUpdate" -> UpdateOutcomes(taken[1].msg)
                     [] held.msg = "PublishDone" -> {Outcome("open", <<>>, "gone")}
                     [] OTHER -> GoesOn)

\* The relay reads the answers to a request of its own.
ReadAnswer ==
    /\ setting.role = "answer"
    /\ HandledWith(GoesOn)

Next ==
    \/ send
    \/ Passes
    \/ next_message
    \/ \E n \in 1 .. Len(flight) : ReadSome(n)
    \/ ReadTimesOut
    \/ handle_read_result
    \/ Interrupted
    \/ negotiate
    \/ handle_control_messages
    \/ accept
    \/ Withdrawn
    \/ handle_follow_up
    \/ ReadAnswer

Spec == Init /\ [][Next]_vars

(***************************************************************************)
(* Properties                                                              *)
(***************************************************************************)

Stream == INSTANCE Channel WITH
    sent <- sent,
    taken <- taken,
    ended <- IF code = "open" THEN "open" ELSE "broken"

\* However the transport cuts the stream into pieces and however often the wait for
\* the next one is interrupted, next_message returns what the peer sent, in order,
\* each message once and equal to the one that was encoded: the stream is a Channel.
IsChannel == Stream!Spec

\* A peer that keeps to the protocol: SETUP and then a GOAWAY at most, or a request with
\* parameters it may have, a Track Alias of its own and a range that ends after its
\* start, and then its updates, which a TRACK_STATUS has none of; PUBLISH_DONE comes last.
Behaves(messages) ==
    CASE setting.role = "control" ->
             /\ messages[1].msg = "Setup"
             /\ validate_incoming(messages[1].setup_options, "Client", setting.transport)
                    = "none"
             /\ \A i \in 2 .. Len(messages) : i = 2 /\ messages[i].msg = "GoAway"
      [] setting.role = "request" ->
             /\ is_first(messages[1].msg)
             /\ \A i \in DOMAIN messages[1].parameters :
                   is_valid_for(messages[1].parameters[i].type, messages[1].msg)
             /\ setting.relay # "aliased"
             /\ messages[1].msg = "Fetch" => ~EndPrecedesStart(messages[1])
             /\ \A i \in 2 .. Len(messages) :
                   \/ messages[1].msg # "TrackStatus" /\ messages[i].msg = "RequestUpdate"
                   \/ messages[1].msg = "Publish" /\ i = Len(messages)
                      /\ messages[i].msg = "PublishDone"
      [] setting.role = "answer" -> TRUE

\* The updates on a request stream that have been handled, and the answers to them
Updates == {i \in 2 .. (IF pc = "handle" THEN Len(taken) - 1 ELSE Len(taken)) :
               taken[i].msg = "RequestUpdate"}
Answers == {i \in DOMAIN replies : replies[i] = "updated"}

\* next_message, read_setup and the handlers: however awkward the pieces its messages
\* arrive in, a peer that keeps to the protocol keeps its session and its stream as long
\* as the stream stays open, unless the relay drains, sheds load or refuses the request;
\* what ends with the stream is not called a PROTOCOL_VIOLATION except for a control
\* stream that is closed; and each REQUEST_UPDATE gets one answer. The code makes two
\* exceptions: an update to a SUBSCRIBE or PUBLISH whose track has just gone closes the
\* session, and one on a FETCH may get no answer (UpdateIsAnswered).
NoFalseAlarm ==
    sent # <<>> /\ Behaves(sent) =>
        /\ code \notin {"open", "GOING_AWAY", "EXCESSIVE_LOAD", "refused"} =>
              setting.tail # "none" \/ kept = "torn"
        /\ code = "ProtocolViolation" =>
              kept = "torn" \/ (setting.role # "request" /\ setting.tail = "fin")
        /\ setting.role = "request" /\ code = "open" /\ taken # <<>> =>
              IF taken[1].msg = "Fetch" THEN Cardinality(Answers) <= Cardinality(Updates)
              ELSE Cardinality(Answers) = Cardinality(Updates)

\* "A REQUEST_UPDATE must be answered with exactly one REQUEST_OK or REQUEST_ERROR, so an
\* update naming a request the relay holds no updatable record of is rejected rather than
\* terminating" (message_handlers/mod.rs:235-237). It does not hold.
UpdateIsAnswered ==
    setting.role = "request" /\ sent # <<>> /\ Behaves(sent) /\ taken # <<>> =>
        Cardinality(Answers) = Cardinality(Updates)

\* next_message waits only for what has not arrived: nothing that has is left behind in
\* the buffer once all was written, and the wait for the rest of a message is always
\* limited by the deadline, while that for the start of one never is.
WaitsOnlyForMore ==
    code = "open" /\ pc = "read" =>
        /\ flight = <<>> /\ written = Len(setting.messages) => taken = sent
        /\ deadline # "none" <=> recv_bytes # <<>>
=============================================================================
