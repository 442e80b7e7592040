--------------------------- MODULE ControlMessages ---------------------------
(***************************************************************************)
(* Control messages as they go over a control or request stream: a type,   *)
(* a 16-bit length and a payload (libs/moqtail-rs/src/model/control).      *)
(*                                                                         *)
(* What each message writes is spelled out piece by piece; what it reads   *)
(* is a list of fields, each with the kind of thing that stands there.     *)
(* That the two agree is checked, not assumed.                             *)
(***************************************************************************)
EXTENDS MessageParameters

CONSTANTS
    U16_MAX,                  \* the largest payload (65535)
    MAX_NEW_SESSION_URI_LEN   \* the longest URI a GOAWAY may carry (8192)

\* ControlMessageType; PUBLISH_OK is another number for REQUEST_OK
MessageType ==
    [Setup |-> 12032, GoAway |-> 16, Subscribe |-> 3, SubscribeOk |-> 4, RequestError |-> 5,
     RequestUpdate |-> 2, Fetch |-> 22, FetchOk |-> 24, TrackStatus |-> 13,
     PublishNamespace |-> 6, RequestOk |-> 7, Namespace |-> 8, NamespaceDone |-> 14,
     SubscribeNamespace |-> 80, SubscribeTracks |-> 81, Publish |-> 29, PublishDone |-> 11,
     PublishOk |-> 30, PublishSkipped |-> 15]

\* The messages that may open a request stream
is_first(name) ==
    name \in {"Subscribe", "Fetch", "TrackStatus", "PublishNamespace", "SubscribeNamespace",
              "SubscribeTracks", "Publish"}

\* RequestErrorCode, PublishDoneStatusCode: an unknown code is read as InternalError
REDIRECT == 52
RequestErrorCodes == (0 .. 6) \cup {9} \cup (16 .. 18) \cup {32} \cup (48 .. 54)
PublishDoneStatusCodes == {0, 1, 2, 4, 5, 6, 8, 9, 18}
INTERNAL_ERROR == 0
from_wire(codes, raw) == IF raw \in codes THEN raw ELSE INTERNAL_ERROR

(***************************************************************************)
(* Pieces that several messages write                                      *)
(***************************************************************************)

vi(n) == Encoded(<<n>>)
FullTrackName(m) == Encoded(SerializeTuple(m.track_namespace) \o length_prefixed(m.track_name))
Params(m) == Join(<<vi(Len(m.parameters)), serialize_message_parameters(m.parameters)>>)
Properties(m) == serialize_properties(m.track_properties)

(***************************************************************************)
(* The messages: the record, the pieces written and, in order, the fields  *)
(* read with their kinds                                                   *)
(***************************************************************************)

Setup(options) == [msg |-> "Setup", setup_options |-> options]
SetupPayload(m) == serialize_kvp_list(m.setup_options)
SetupFields == <<<<"setup_options", "options">>>>

Subscribe(id, ns, name, params) ==
    [msg |-> "Subscribe", request_id |-> id, track_namespace |-> ns, track_name |-> name,
     parameters |-> params]
SubscribePayload(m) == Join(<<vi(m.request_id), FullTrackName(m), Params(m)>>)
SubscribeFields ==
    <<<<"request_id", "vi">>, <<"track_namespace", "tuple">>, <<"track_name", "bytes">>,
      <<"parameters", "parameters">>>>

Fetch(id, ns, name, params) ==
    [msg |-> "Fetch", request_id |-> id, track_namespace |-> ns, track_name |-> name,
     parameters |-> params]
FetchPayload(m) == Join(<<vi(m.request_id), FullTrackName(m), Params(m)>>)
FetchFields ==
    <<<<"request_id", "vi">>, <<"track_namespace", "tuple">>, <<"track_name", "bytes">>,
      <<"parameters", "parameters">>>>

TrackStatus(id, ns, name, params) ==
    [msg |-> "TrackStatus", request_id |-> id, track_namespace |-> ns, track_name |-> name,
     parameters |-> params]
TrackStatusPayload(m) == Join(<<vi(m.request_id), FullTrackName(m), Params(m)>>)
TrackStatusFields ==
    <<<<"request_id", "vi">>, <<"track_namespace", "tuple">>, <<"track_name", "bytes">>,
      <<"parameters", "parameters">>>>

SubscribeOk(alias, params, properties) ==
    [msg |-> "SubscribeOk", track_alias |-> alias, parameters |-> params,
     track_properties |-> properties]
SubscribeOkPayload(m) == Join(<<vi(m.track_alias), Params(m), Properties(m)>>)
SubscribeOkFields ==
    <<<<"track_alias", "vi">>, <<"parameters", "parameters">>,
      <<"track_properties", "properties">>>>

FetchOk(end_of_track, end, params, properties) ==
    [msg |-> "FetchOk", end_of_track |-> end_of_track, end_location |-> end,
     parameters |-> params, track_properties |-> properties]
FetchOkPayload(m) ==
    Join(<<vi(IF m.end_of_track THEN 1 ELSE 0), Encoded(SerializeLocation(m.end_location)),
           Params(m), Properties(m)>>)
FetchOkFields ==
    <<<<"end_of_track", "bool">>, <<"end_location", "location">>,
      <<"parameters", "parameters">>, <<"track_properties", "properties">>>>

RequestOk(params, properties) ==
    [msg |-> "RequestOk", parameters |-> params, track_properties |-> properties]
RequestOkPayload(m) == Join(<<Params(m), Properties(m)>>)
RequestOkFields ==
    <<<<"parameters", "parameters">>, <<"track_properties", "properties">>>>

\* new has no redirect, new_redirect the code REDIRECT and one
RequestError(code, retry, reason, redirect) ==
    [msg |-> "RequestError", error_code |-> IF redirect = <<>> THEN code ELSE REDIRECT,
     retry_interval |-> retry, reason_phrase |-> reason, redirect |-> redirect]
\* The writer goes by the Option, the reader by the code.
RequestErrorPayload(m) ==
    Join(<<vi(m.error_code), vi(m.retry_interval), SerializeReason(m.reason_phrase),
           Encoded(IF m.redirect = <<>> THEN <<>> ELSE SerializeRedirect(m.redirect[1]))>>)
RequestErrorFields ==
    <<<<"error_code", "error code">>, <<"retry_interval", "vi">>,
      <<"reason_phrase", "reason">>, <<"redirect", "redirect">>>>

RequestUpdate(id, params) ==
    [msg |-> "RequestUpdate", request_id |-> id, parameters |-> params]
RequestUpdatePayload(m) == Join(<<vi(m.request_id), Params(m)>>)
RequestUpdateFields == <<<<"request_id", "vi">>, <<"parameters", "parameters">>>>

Publish(id, ns, name, alias, params, properties) ==
    [msg |-> "Publish", request_id |-> id, track_namespace |-> ns, track_name |-> name,
     track_alias |-> alias, parameters |-> params, track_properties |-> properties]
PublishPayload(m) ==
    Join(<<vi(m.request_id), FullTrackName(m), vi(m.track_alias), Params(m), Properties(m)>>)
PublishFields ==
    <<<<"request_id", "vi">>, <<"track_namespace", "tuple">>, <<"track_name", "bytes">>,
      <<"track_alias", "vi">>, <<"parameters", "parameters">>,
      <<"track_properties", "properties">>>>

PublishDone(status, streams, reason) ==
    [msg |-> "PublishDone", status_code |-> status, stream_count |-> streams,
     reason_phrase |-> reason]
PublishDonePayload(m) ==
    Join(<<vi(m.status_code), vi(m.stream_count), SerializeReason(m.reason_phrase)>>)
PublishDoneFields ==
    <<<<"status_code", "status code">>, <<"stream_count", "vi">>,
      <<"reason_phrase", "reason">>>>

PublishSkipped(ns, name) ==
    [msg |-> "PublishSkipped", track_namespace |-> ns, track_name |-> name]
PublishSkippedPayload(m) == FullTrackName(m)
PublishSkippedFields == <<<<"track_namespace", "tuple">>, <<"track_name", "bytes">>>>

\* NAMESPACE and NAMESPACE_DONE hold what follows the prefix asked for.
Namespace(suffix) == [msg |-> "Namespace", track_namespace_suffix |-> suffix]
NamespacePayload(m) == Encoded(SerializeTuple(m.track_namespace_suffix))
NamespaceFields == <<<<"track_namespace_suffix", "tuple">>>>

NamespaceDone(suffix) == [msg |-> "NamespaceDone", track_namespace_suffix |-> suffix]
NamespaceDonePayload(m) == Encoded(SerializeTuple(m.track_namespace_suffix))
NamespaceDoneFields == <<<<"track_namespace_suffix", "tuple">>>>

PublishNamespace(id, ns, params) ==
    [msg |-> "PublishNamespace", request_id |-> id, track_namespace |-> ns,
     parameters |-> params]
PublishNamespacePayload(m) ==
    Join(<<vi(m.request_id), Encoded(SerializeTuple(m.track_namespace)), Params(m)>>)
PublishNamespaceFields ==
    <<<<"request_id", "vi">>, <<"track_namespace", "tuple">>, <<"parameters", "parameters">>>>

SubscribeNamespace(id, prefix, params) ==
    [msg |-> "SubscribeNamespace", request_id |-> id, track_namespace_prefix |-> prefix,
     parameters |-> params]
SubscribeNamespacePayload(m) ==
    Join(<<vi(m.request_id), Encoded(SerializeTuple(m.track_namespace_prefix)), Params(m)>>)
SubscribeNamespaceFields ==
    <<<<"request_id", "vi">>, <<"track_namespace_prefix", "tuple">>,
      <<"parameters", "parameters">>>>

SubscribeTracks(id, prefix, params) ==
    [msg |-> "SubscribeTracks", request_id |-> id, track_namespace_prefix |-> prefix,
     parameters |-> params]
SubscribeTracksPayload(m) ==
    Join(<<vi(m.request_id), Encoded(SerializeTuple(m.track_namespace_prefix)), Params(m)>>)
SubscribeTracksFields ==
    <<<<"request_id", "vi">>, <<"track_namespace_prefix", "tuple">>,
      <<"parameters", "parameters">>>>

\* An empty URI is no URI.
GoAway(uri, timeout) ==
    [msg |-> "GoAway", new_session_uri |-> IF uri = <<>> THEN <<>> ELSE <<uri>>,
     timeout |-> timeout]
GoAwayPayload(m) == Encoded(SerializeUri(m.new_session_uri) \o <<m.timeout>>)
GoAwayFields == <<<<"new_session_uri", "uri">>, <<"timeout", "vi">>>>

Payload(m) ==
    CASE m.msg = "Setup" -> SetupPayload(m)
      [] m.msg = "Subscribe" -> SubscribePayload(m)
      [] m.msg = "Fetch" -> FetchPayload(m)
      [] m.msg = "TrackStatus" -> TrackStatusPayload(m)
      [] m.msg = "SubscribeOk" -> SubscribeOkPayload(m)
      [] m.msg = "FetchOk" -> FetchOkPayload(m)
      [] m.msg = "RequestOk" -> RequestOkPayload(m)
      [] m.msg = "RequestError" -> RequestErrorPayload(m)
      [] m.msg = "RequestUpdate" -> RequestUpdatePayload(m)
      [] m.msg = "Publish" -> PublishPayload(m)
      [] m.msg = "PublishDone" -> PublishDonePayload(m)
      [] m.msg = "PublishSkipped" -> PublishSkippedPayload(m)
      [] m.msg = "Namespace" -> NamespacePayload(m)
      [] m.msg = "NamespaceDone" -> NamespaceDonePayload(m)
      [] m.msg = "PublishNamespace" -> PublishNamespacePayload(m)
      [] m.msg = "SubscribeNamespace" -> SubscribeNamespacePayload(m)
      [] m.msg = "SubscribeTracks" -> SubscribeTracksPayload(m)
      [] m.msg = "GoAway" -> GoAwayPayload(m)

Fields(name) ==
    CASE name = "Setup" -> SetupFields
      [] name = "Subscribe" -> SubscribeFields
      [] name = "Fetch" -> FetchFields
      [] name = "TrackStatus" -> TrackStatusFields
      [] name = "SubscribeOk" -> SubscribeOkFields
      [] name = "FetchOk" -> FetchOkFields
      [] name = "RequestOk" -> RequestOkFields
      [] name = "RequestError" -> RequestErrorFields
      [] name = "RequestUpdate" -> RequestUpdateFields
      [] name = "Publish" -> PublishFields
      [] name = "PublishDone" -> PublishDoneFields
      [] name = "PublishSkipped" -> PublishSkippedFields
      [] name = "Namespace" -> NamespaceFields
      [] name = "NamespaceDone" -> NamespaceDoneFields
      [] name = "PublishNamespace" -> PublishNamespaceFields
      [] name = "SubscribeNamespace" -> SubscribeNamespaceFields
      [] name = "SubscribeTracks" -> SubscribeTracksFields
      [] name = "GoAway" -> GoAwayFields

(***************************************************************************)
(* Reading a payload                                                       *)
(***************************************************************************)

\* One field; `m` holds the fields before it, which some depend on.
ReadField(kind, m, s) ==
    CASE kind = "vi" -> get_vi(s)
      [] kind = "bytes" -> read_length_prefixed(s)
      [] kind = "tuple" -> DeserializeTuple(s)
      [] kind = "location" -> DeserializeLocation(s)
      [] kind = "reason" -> DeserializeReason(s)
      [] kind = "bool" ->
             Then(get_vi(s), LAMBDA b, rest :
                 IF b \in {0, 1} THEN Got(b = 1, rest) ELSE Fail("ProtocolViolation"))
      [] kind = "error code" ->
             Then(get_vi(s), LAMBDA c, rest : Got(from_wire(RequestErrorCodes, c), rest))
      [] kind = "status code" ->
             Then(get_vi(s), LAMBDA c, rest : Got(from_wire(PublishDoneStatusCodes, c), rest))
      [] kind = "redirect" ->
             IF m.error_code # REDIRECT THEN Got(<<>>, s)
             ELSE Then(DeserializeRedirect(s), LAMBDA r, rest : Got(<<r>>, rest))
      [] kind = "uri" ->
             Then(DeserializeUri(s), LAMBDA u, rest :
                 IF u # <<>> /\ Len(u[1]) > MAX_NEW_SESSION_URI_LEN
                 THEN Fail("ProtocolViolation") ELSE Got(u, rest))
      [] kind = "parameters" ->
             Then(get_vi(s), LAMBDA n, rest : deserialize_message_parameters(n, m.msg, rest))
      [] kind = "properties" -> deserialize_track_properties(s)
      [] kind = "options" -> deserialize_kvp_list_until_empty(s)

\* A record with one field more
With(m, name, x) == [f \in DOMAIN m \cup {name} |-> IF f = name THEN x ELSE m[f]]

RECURSIVE ReadFields(_, _, _)
ReadFields(fields, m, s) ==
    IF fields = <<>> THEN Got(m, s)
    ELSE Then(ReadField(fields[1][2], m, s), LAMBDA x, rest :
             ReadFields(Tail(fields), With(m, fields[1][1], x), rest))

parse_payload(name, s) == ReadFields(Fields(name), [msg |-> name], s)

(***************************************************************************)
(* Whole messages                                                          *)
(***************************************************************************)

\* The 16-bit length counts for two units, as its two bytes do.
Serialize(m) ==
    Then(Payload(m), LAMBDA payload, rest :
        IF Len(payload) > U16_MAX THEN Fail("CastingError")
        ELSE Encoded(<<MessageType[m.msg], Len(payload) \div 256, Len(payload) % 256>>
                     \o payload))

\* Whatever is wrong inside a payload that is there is a PROTOCOL_VIOLATION.
Deserialize(s) ==
    Then(get_vi(s), LAMBDA t, s1 :
        LET names == {n \in DOMAIN MessageType : MessageType[n] = t} IN
        IF names = {} THEN Fail("InvalidType")
        ELSE Then(copy_to_bytes(2, s1), LAMBDA len, s2 :
             Then(copy_to_bytes(len[1] * 256 + len[2], s2), LAMBDA payload, rest :
                 LET name == CHOOSE n \in names : TRUE
                     m == parse_payload(IF name = "PublishOk" THEN "RequestOk" ELSE name, payload)
                 IN  IF ~Ok(m) \/ m.rest # <<>> THEN Fail("ProtocolViolation")
                     ELSE Got(m.v, rest))))

=============================================================================
