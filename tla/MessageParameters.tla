-------------------------- MODULE MessageParameters --------------------------
(***************************************************************************)
(* Lists of message parameters and setup options as they are written and   *)
(* read (libs/moqtail-rs/src/model/parameter/message_parameter.rs and      *)
(* setup_option.rs).                                                       *)
(***************************************************************************)
EXTENDS Parameters

SWITCH_FROM_PUBLISH_DONE == 128
SwitchModes == 0 .. 1

RECURSIVE ParameterUnits(_)
RECURSIVE serialize_message_parameters(_)

\* try_into a Key-Value-Pair: the value's own units
ParameterUnits(p) ==
    CASE p.type \in VarIntTypes -> Encoded(<<p.value>>)
      [] p.type = AuthorizationToken -> Encoded(SerializeToken(p.value))
      [] p.type = LargestObject -> Encoded(SerializeLocation(p.value))
      [] p.type = TrackNamespacePrefix -> Encoded(SerializeTuple(p.value))
      [] p.type = LocationFilter -> SerializeLocationFilter(p.value)
      [] p.type = SwitchFrom ->
             Encoded(<<p.value.request_id, p.value.mode,
                       IF p.value.publish_done THEN SWITCH_FROM_PUBLISH_DONE ELSE 0>>)
      [] p.type = SwitchingSetAssignment -> Encoded(p.value)
      [] p.type = FillParameters ->
             IF \E i \in DOMAIN p.value : ~is_valid_fill_parameter(p.value[i].type)
             THEN Fail("ProtocolViolation")
             ELSE Join(<<Encoded(<<Len(p.value)>>), serialize_message_parameters(p.value)>>)
      [] is_range_filter(p.type) ->
             IF p.value = <<>> THEN Encoded(<<>>)
             ELSE IF has_property_type(p.type) # (p.value[1].property_type # <<>>)
             THEN Fail("ProtocolViolation")
             ELSE SerializeRangeFilter(p.value[1])

\* The value as its shape lays it out
ShapedValue(p) ==
    LET shape == value_shape(p.type) IN
    Then(ParameterUnits(p), LAMBDA units, rest :
        CASE shape = "Uint8" ->
                 IF units[1] > 255 THEN Fail("ProtocolViolation") ELSE Encoded(units)
          [] shape \in {"VarInt", "BareLocation", "LocationFilter"} -> Encoded(units)
          [] shape = "LengthPrefixedBytes" ->
                 IF Len(units) > MAX_VALUE_LENGTH THEN Fail("LengthExceedsMax")
                 ELSE Encoded(length_prefixed(units)))

serialize_message_parameters(params) ==
    LET sorted == SortByType(params)
    IN  Join([i \in DOMAIN sorted |->
                 Join(<<Encoded(<<TypeDelta(sorted, i)>>), ShapedValue(sorted[i])>>)])

\* read_message_parameter_value: the units of a value whose Type is known
read_message_parameter_value(t, s) ==
    LET shape == value_shape(t) IN
    CASE shape \in {"Uint8", "VarInt"} -> copy_to_bytes(1, s)
      [] shape = "BareLocation" -> copy_to_bytes(2, s)
      [] shape = "LocationFilter" ->
             Then(DeserializeLocationFilter(s), LAMBDA f, rest :
                 Got(SerializeLocationFilter(f).v, rest))
      [] shape = "LengthPrefixedBytes" -> deserialize_bytes_value(s)

RECURSIVE DeserializeParameter(_, _)
RECURSIVE ReadParameters(_, _, _, _)

\* Everything that was read must have been used.
Whole(r) == IF Ok(r) /\ r.rest # <<>> THEN Fail("ProtocolViolation") ELSE r

\* MessageParameter::deserialize: the value the units stand for
ParameterValue(t, units) ==
    CASE t \in {Forward, IncludeProperties} ->
             IF units[1] \in {0, 1} THEN Encoded(units[1]) ELSE Fail("ProtocolViolation")
      [] t = GroupOrder ->
             IF units[1] \in {0, 1, 2} THEN Encoded(units[1]) ELSE Fail("ProtocolViolation")
      [] t = SubscriberPriority ->
             IF units[1] <= 255 THEN Encoded(units[1]) ELSE Fail("ProtocolViolation")
      [] t \in VarIntTypes \ {Forward, IncludeProperties, GroupOrder, SubscriberPriority} ->
             Encoded(units[1])
      [] t = AuthorizationToken -> DeserializeToken(units)
      [] t = LargestObject -> DeserializeLocation(units)
      [] t = TrackNamespacePrefix -> Whole(DeserializeTuple(units))
      [] t = LocationFilter -> Whole(DeserializeLocationFilter(units))
      [] t = SwitchFrom ->
             Whole(Then(copy_to_bytes(3, units), LAMBDA f, rest :
                 IF f[2] \notin SwitchModes THEN Fail("InvalidType")
                 ELSE IF f[3] \notin {0, SWITCH_FROM_PUBLISH_DONE} THEN Fail("ProtocolViolation")
                 ELSE Got([request_id |-> f[1], mode |-> f[2],
                           publish_done |-> f[3] # 0], rest)))
      [] t = SwitchingSetAssignment ->
             Whole(Then(copy_to_bytes(5, units), LAMBDA f, rest :
                 IF f[4] \notin 1 .. 10 THEN Fail("ProtocolViolation")
                 ELSE IF rest = <<>> THEN Got(Append(f, 0), rest)
                 ELSE Got(Append(f, Head(rest)), Tail(rest))))
      [] t = FillParameters ->
             Whole(Then(get_vi(units), LAMBDA n, rest : ReadParameters(n, 0, "Fill", rest)))
      [] is_range_filter(t) ->
             IF units = <<>> THEN Encoded(<<>>)
             ELSE Then(DeserializeRangeFilter(t, units), LAMBDA f, rest : Encoded(<<f>>))
      [] OTHER -> Fail("ProtocolViolation")

DeserializeParameter(t, units) ==
    Then(ParameterValue(t, units), LAMBDA x, rest : Encoded([type |-> t, value |-> x]))

\* n delta-encoded parameters, each one allowed where it stands: in the message
\* msg, or inside FILL_PARAMETERS
ReadParameters(n, prev, msg, s) ==
    IF n = 0 THEN Got(<<>>, s)
    ELSE Then(ReadType(prev, s), LAMBDA t, s1 :
         IF msg = "Fill" /\ ~is_valid_fill_parameter(t) THEN Fail("ProtocolViolation")
         ELSE Then(read_message_parameter_value(t, s1), LAMBDA units, s2 :
              Then(DeserializeParameter(t, units), LAMBDA p, used :
              IF msg # "Fill" /\ ~is_valid_for(t, msg) THEN Fail("ProtocolViolation")
              ELSE Then(ReadParameters(n - 1, t, msg, s2), LAMBDA ps, s3 :
                       Got(<<p>> \o ps, s3)))))

deserialize_message_parameters(n, msg, s) == ReadParameters(n, 0, msg, s)

(***************************************************************************)
(* Lists of parameters in memory                                           *)
(***************************************************************************)

\* REQUEST_UPDATE: a Type the update carries is replaced as a whole, and an empty
\* Range Filter replaces its kind with nothing.
apply_message_parameter_update(current, updates) ==
    SelectSeq(current, LAMBDA p : \A i \in DOMAIN updates : updates[i].type # p.type)
        \o SelectSeq(updates, LAMBDA u : ~(is_range_filter(u.type) /\ u.value = <<>>))

(***************************************************************************)
(* Setup options.  Only the peer that dials, and only over QUIC, names an  *)
(* authority or a path; options nobody knows are ignored.                  *)
(***************************************************************************)

Path == 1
Authority == 5
\* Setup::validate_incoming: the code the session is closed with, or "none"
validate_incoming(options, sender, transport) ==
    LET refused == SelectSeq(options, LAMBDA o : o.type \in {Authority, Path})
    IN  IF refused = <<>> \/ (sender = "Client" /\ transport # "WebTransport") THEN "none"
        ELSE IF refused[1].type = Authority THEN "InvalidAuthority" ELSE "InvalidPath"
=============================================================================
