------------------------------- MODULE Objects -------------------------------
(***************************************************************************)
(* Objects and the three ways they travel: on a subgroup stream, on a      *)
(* fetch stream and in a datagram (libs/moqtail-rs/src/model/data).        *)
(*                                                                         *)
(* Units, results and Options are those of module Wire.                    *)
(***************************************************************************)
EXTENDS Wire

\* Bit `bit` (a power of two) of the flags v
Has(v, bit) == (v \div bit) % 2 = 1
Bit(bit, set) == IF set THEN bit ELSE 0
unwrap_or(option, default) == IF option = <<>> THEN default ELSE option[1]

DEFAULT_PUBLISHER_PRIORITY == 128
NormalStatus == 0
ObjectStatus == {NormalStatus, 3, 4}

Object(alias, group, object, priority, preference, subgroup, status, properties, payload) ==
    [track_alias |-> alias, location |-> [group |-> group, object |-> object],
     publisher_priority |-> priority, forwarding_preference |-> preference,
     subgroup_id |-> subgroup, status |-> status, properties |-> properties,
     payload |-> payload]

ReadStatus(s) ==
    Then(get_vi(s), LAMBDA raw, rest :
        IF raw \in ObjectStatus THEN Got(raw, rest) ELSE Fail("InvalidType"))

\* A list of properties behind its length; what is wrong inside it is a violation.
ReadObjectProperties(s) ==
    Then(read_length_prefixed(s), LAMBDA units, rest :
        LET props == deserialize_object_properties(units)
        IN  IF Ok(props) THEN Got(props.v, rest) ELSE Fail("ProtocolViolation"))

(***************************************************************************)
(* Subgroup streams: a header and Objects whose ids go out as differences  *)
(***************************************************************************)

\* SubgroupIdMode, at its place in the type (bits 1 and 2)
ZeroId == 0
FirstObjectId == 2
ExplicitId == 4

SubgroupHeaderType(has_properties, mode, end_of_group, default_priority, first_object) ==
    16 + mode + Bit(1, has_properties) + Bit(8, end_of_group) + Bit(32, default_priority)
       + Bit(64, first_object)

subgroup_id_mode(type) == ((type \div 2) % 4) * 2

\* SubgroupHeaderType::try_new: bit 4 set, bit 7 clear and not the reserved mode
ValidHeaderType(v) == v < 128 /\ Has(v, 16) /\ subgroup_id_mode(v) # 6

SubgroupHeader(mode, alias, group, subgroup, priority, properties, end_of_group, first) ==
    [header_type |-> SubgroupHeaderType(properties, mode, end_of_group, priority = <<>>, first),
     track_alias |-> alias, group_id |-> group, subgroup_id |-> subgroup,
     publisher_priority |-> priority]

new_fixed_zero_id(alias, group, priority, properties, end, first) ==
    SubgroupHeader(ZeroId, alias, group, <<0>>, priority, properties, end, first)
new_first_object_id(alias, group, priority, properties, end, first) ==
    SubgroupHeader(FirstObjectId, alias, group, <<>>, priority, properties, end, first)
new_with_explicit_id(alias, group, subgroup, priority, properties, end, first) ==
    SubgroupHeader(ExplicitId, alias, group, <<subgroup>>, priority, properties, end, first)

\* Mutant: the mode stays, so that the stream's first Object names the subgroup anew.
for_mid_subgroup_stream_same_mode(h) ==
    LET t == h.header_type
    IN  [h EXCEPT !.header_type =
            SubgroupHeaderType(Has(t, 1), subgroup_id_mode(t), Has(t, 8), Has(t, 32), FALSE)]

\* A stream opened after the subgroup's first Object says so, and names the subgroup.
for_mid_subgroup_stream(h) ==
    LET t == h.header_type
        mode == IF subgroup_id_mode(t) = FirstObjectId /\ h.subgroup_id # <<>>
                THEN ExplicitId ELSE subgroup_id_mode(t)
    IN  [h EXCEPT !.header_type =
            SubgroupHeaderType(Has(t, 1), mode, Has(t, 8), Has(t, 32), FALSE)]

SerializeSubgroupHeader(h) ==
    LET explicit == subgroup_id_mode(h.header_type) = ExplicitId
        priority == ~Has(h.header_type, 32)
    IN  IF (explicit /\ h.subgroup_id = <<>>) \/ (priority /\ h.publisher_priority = <<>>)
        THEN Fail("ProtocolViolation")
        ELSE Encoded(<<h.header_type, h.track_alias, h.group_id>>
                     \o (IF explicit THEN h.subgroup_id ELSE <<>>)
                     \o (IF priority THEN h.publisher_priority ELSE <<>>))

DeserializeSubgroupHeader(s) ==
    Then(get_vi(s), LAMBDA type, s1 :
        IF ~ValidHeaderType(type) THEN Fail("InvalidType")
        ELSE Then(copy_to_bytes(2, s1), LAMBDA ids, s2 :
             Then(IF subgroup_id_mode(type) = ExplicitId THEN copy_to_bytes(1, s2)
                  ELSE Got(IF subgroup_id_mode(type) = ZeroId THEN <<0>> ELSE <<>>, s2),
                  LAMBDA subgroup, s3 :
             Then(IF Has(type, 32) THEN Got(<<>>, s3) ELSE copy_to_bytes(1, s3),
                  LAMBDA priority, s4 :
                 Got([header_type |-> type, track_alias |-> ids[1], group_id |-> ids[2],
                      subgroup_id |-> subgroup, publisher_priority |-> priority], s4)))))

\* previous is the Object before it on the stream, as an Option.
SerializeSubgroupObject(o, previous, has_properties) ==
    LET delta == IF previous = <<>> THEN o.object_id ELSE o.object_id - previous[1] - 1
        properties == unwrap_or(o.properties, <<>>)
        body == IF unwrap_or(o.payload, <<>>) # <<>> THEN length_prefixed(o.payload[1])
                ELSE <<0, unwrap_or(o.object_status, NormalStatus)>>
    IN  IF ~has_properties /\ properties # <<>> THEN Fail("ProtocolViolation")
        ELSE Then(serialize_properties(properties), LAMBDA units, rest :
                 Encoded(<<delta>> \o (IF has_properties THEN length_prefixed(units) ELSE <<>>)
                         \o body))

DeserializeSubgroupObject(s, previous, has_properties) ==
    Then(get_vi(s), LAMBDA delta, s1 :
    Then(IF ~has_properties THEN Got(<<>>, s1)
         ELSE Then(ReadObjectProperties(s1), LAMBDA ps, rest : Got(<<ps>>, rest)),
         LAMBDA properties, s2 :
    Then(get_vi(s2), LAMBDA len, s3 :
    Then(IF len = 0
         THEN Then(ReadStatus(s3), LAMBDA st, rest : Got([status |-> <<st>>, payload |-> <<>>], rest))
         ELSE Then(copy_to_bytes(len, s3), LAMBDA p, rest :
                  Got([status |-> <<>>, payload |-> <<p>>], rest)),
         LAMBDA body, s4 :
        Got([object_id |-> IF previous = <<>> THEN delta ELSE previous[1] + delta + 1,
             properties |-> properties, object_status |-> body.status,
             payload |-> body.payload], s4)))))

try_from_subgroup(o, h) ==
    Object(h.track_alias, h.group_id, o.object_id,
           unwrap_or(h.publisher_priority, DEFAULT_PUBLISHER_PRIORITY), "Subgroup",
           h.subgroup_id, unwrap_or(o.object_status, NormalStatus), o.properties, o.payload)

try_into_subgroup(o) ==
    IF \/ o.forwarding_preference # "Subgroup"
       \/ o.subgroup_id = <<>>
       \/ (o.status = NormalStatus) # (o.payload # <<>>)
    THEN Fail("CastingError")
    ELSE Encoded([object_id |-> o.location.object, properties |-> o.properties,
                  object_status |-> IF o.status = NormalStatus THEN <<>> ELSE <<o.status>>,
                  payload |-> o.payload])

(***************************************************************************)
(* Fetch streams: Objects and End of Range markers, each written as its    *)
(* difference from the one before it                                       *)
(***************************************************************************)

FETCH_HEADER_TYPE == 5
SerializeFetchHeader(request_id) == <<FETCH_HEADER_TYPE, request_id>>
DeserializeFetchHeader(s) ==
    Then(copy_to_bytes(2, s), LAMBDA h, rest : Got([request_id |-> h[2]], rest))

\* EndOfRangeKind, by its Serialization Flags
EndOfRangeKind == [NonExistent |-> 140, Unknown |-> 268, TimedOut |-> 524]

EndOfRange(kind, group, object) == [kind |-> kind, group_id |-> group, object_id |-> object]
IsMarker(f) == "kind" \in DOMAIN f

\* What the entry after f is encoded against; prev is what f was encoded against.
next_context(f, prev) ==
    [group_id |-> f.group_id, object_id |-> f.object_id,
     subgroup_id |-> IF ~IsMarker(f) THEN <<f.subgroup_id>>
                     ELSE IF prev = <<>> THEN <<>> ELSE prev[1].subgroup_id,
     publisher_priority |-> IF ~IsMarker(f) THEN <<f.publisher_priority>>
                            ELSE IF prev = <<>> THEN <<>> ELSE prev[1].publisher_priority]

\* The difference to the prior group, in the direction the groups go
group_delta(p, prev, order) ==
    CASE prev = <<>> -> <<p.group_id>>
      [] prev # <<>> /\ prev[1].group_id = p.group_id -> <<>>
      [] prev # <<>> /\ prev[1].group_id # p.group_id ->
             <<(IF order = "Descending" THEN prev[1].group_id - p.group_id
                ELSE p.group_id - prev[1].group_id) - 1>>

\* Mutant: the difference within a group is counted as that between groups is.
object_delta_less_one(p, prev, new_group) ==
    CASE prev = <<>> \/ new_group -> <<p.object_id>>
      [] prev # <<>> /\ ~new_group ->
             IF prev[1].object_id + 1 = p.object_id THEN <<>>
             ELSE <<p.object_id - prev[1].object_id - 1>>

object_delta(p, prev, new_group) ==
    CASE prev = <<>> \/ new_group -> <<p.object_id>>
      [] prev # <<>> /\ ~new_group ->
             IF prev[1].object_id + 1 = p.object_id THEN <<>>
             ELSE <<p.object_id - prev[1].object_id>>

subgroup_mode(p, prev) ==
    CASE p.forwarding_preference = "Datagram" \/ p.subgroup_id = 0 -> 0
      [] OTHER -> IF prev = <<>> THEN 3
                  ELSE IF prev[1].subgroup_id = <<p.subgroup_id>> THEN 1
                  ELSE IF prev[1].subgroup_id = <<p.subgroup_id - 1>> THEN 2 ELSE 3

serialize_payload(p, prev, order) ==
    LET group == group_delta(p, prev, order)
        object == object_delta(p, prev, group # <<>>)
        mode == subgroup_mode(p, prev)
        priority == prev = <<>> \/ prev[1].publisher_priority # <<p.publisher_priority>>
        properties == unwrap_or(p.properties, <<>>)
        datagram == p.forwarding_preference = "Datagram"
        flags == mode + Bit(4, object # <<>>) + Bit(8, group # <<>>) + Bit(16, priority)
                 + Bit(32, properties # <<>>) + Bit(64, datagram)
    IN  IF \E d \in ToSet(group \o object) : d < 0 THEN Fail("ProtocolViolation")
        ELSE Then(serialize_properties(properties), LAMBDA units, rest :
                 Encoded(<<flags>> \o group
                         \o (IF mode = 3 THEN <<p.subgroup_id>> ELSE <<>>) \o object
                         \o (IF priority THEN <<p.publisher_priority>> ELSE <<>>)
                         \o (IF properties # <<>> THEN length_prefixed(units) ELSE <<>>)
                         \o length_prefixed(p.payload)))

SerializeFetchObject(f, prev, order) ==
    IF IsMarker(f) THEN Encoded(<<EndOfRangeKind[f.kind], f.group_id, f.object_id>>)
    ELSE serialize_payload(f, prev, order)

DeserializeMarker(flags, s) ==
    IF flags \notin {EndOfRangeKind[k] : k \in DOMAIN EndOfRangeKind}
    THEN Fail("ProtocolViolation")
    ELSE Then(copy_to_bytes(2, s), LAMBDA ids, rest :
             Got(EndOfRange(CHOOSE k \in DOMAIN EndOfRangeKind : EndOfRangeKind[k] = flags,
                            ids[1], ids[2]), rest))

\* A field that is there when its flag is set
Field(present, s) == IF present THEN copy_to_bytes(1, s) ELSE Got(<<>>, s)

\* A value worked out from a difference must fit in 64 bits.
Checked(v, rest) == IF v \in 0 .. U64_MAX THEN Got(v, rest) ELSE Fail("ProtocolViolation")

\* What is taken over from the entry before must be there.
Inherited(option, rest) ==
    IF option = <<>> THEN Fail("ProtocolViolation") ELSE Got(option[1], rest)

ReadGroup(present, prev, order, s) ==
    IF ~present THEN Got(prev[1].group_id, s)
    ELSE Then(get_vi(s), LAMBDA delta, rest :
             IF prev = <<>> THEN Got(delta, rest)
             ELSE IF order = "Descending" THEN Checked(prev[1].group_id - delta - 1, rest)
             ELSE Checked(prev[1].group_id + delta + 1, rest))

ReadSubgroup(mode, prev, s) ==
    CASE mode = 0 -> Got(0, s)
      [] mode = 1 -> Inherited(prev[1].subgroup_id, s)
      [] mode = 2 -> Then(Inherited(prev[1].subgroup_id, s), LAMBDA id, rest : Got(id + 1, rest))
      [] mode = 3 -> get_vi(s)

ReadObjectId(present, new_group, prev, s) ==
    IF ~present THEN Checked(prev[1].object_id + 1, s)
    ELSE Then(get_vi(s), LAMBDA delta, rest :
             IF prev = <<>> \/ new_group THEN Got(delta, rest)
             ELSE Checked(prev[1].object_id + delta, rest))

\* The first entry may not lean on one before it.
StandsAlone(flags) ==
    /\ Has(flags, 4) /\ Has(flags, 8) /\ Has(flags, 16)
    /\ Has(flags, 64) \/ flags % 4 \in {0, 3}

DeserializeFetchObject(s, prev, order) ==
    Then(get_vi(s), LAMBDA flags, s1 :
    IF flags >= 128 THEN DeserializeMarker(flags, s1)
    ELSE IF prev = <<>> /\ ~StandsAlone(flags) THEN Fail("ProtocolViolation")
    ELSE
        LET datagram == Has(flags, 64) IN
        Then(ReadGroup(Has(flags, 8), prev, order, s1), LAMBDA group, s2 :
        Then(ReadSubgroup(IF datagram THEN 0 ELSE flags % 4, prev, s2), LAMBDA subgroup, s3 :
        Then(ReadObjectId(Has(flags, 4), Has(flags, 8), prev, s3), LAMBDA object, s4 :
        Then(IF Has(flags, 16) THEN get_vi(s4) ELSE Inherited(prev[1].publisher_priority, s4),
             LAMBDA priority, s5 :
        Then(IF Has(flags, 32)
             THEN Then(ReadObjectProperties(s5), LAMBDA ps, rest : Got(<<ps>>, rest))
             ELSE Got(<<>>, s5), LAMBDA properties, s6 :
        Then(read_length_prefixed(s6), LAMBDA payload, s7 :
            Got([group_id |-> group, object_id |-> object,
                 subgroup_id |-> IF datagram THEN object ELSE subgroup,
                 publisher_priority |-> priority,
                 forwarding_preference |-> IF datagram THEN "Datagram" ELSE "Subgroup",
                 properties |-> properties, payload |-> payload], s7))))))))

\* A fetch stream names no Track Alias, so 0 stands in for it.
try_from_fetch(f) ==
    Object(0, f.group_id, f.object_id, f.publisher_priority, f.forwarding_preference,
           IF f.forwarding_preference = "Subgroup" THEN <<f.subgroup_id>> ELSE <<>>,
           NormalStatus, f.properties, IF f.payload = <<>> THEN <<>> ELSE <<f.payload>>)

try_into_fetch(o) ==
    IF o.status # NormalStatus
       \/ (o.forwarding_preference = "Subgroup") # (o.subgroup_id # <<>>)
    THEN Fail("CastingError")
    ELSE Encoded([group_id |-> o.location.group, object_id |-> o.location.object,
                  subgroup_id |-> unwrap_or(o.subgroup_id, o.location.object),
                  publisher_priority |-> o.publisher_priority,
                  forwarding_preference |-> o.forwarding_preference,
                  properties |-> o.properties, payload |-> unwrap_or(o.payload, <<>>)])

(***************************************************************************)
(* Datagrams: one Object each                                              *)
(***************************************************************************)

ObjectDatagramType(properties, end_of_group, zero_id, default_priority, status) ==
    Bit(1, properties) + Bit(2, end_of_group) + Bit(4, zero_id) + Bit(8, default_priority)
        + Bit(32, status)

\* ObjectDatagramType::try_new: bits 4, 6 and 7 clear, and a status ends no group
ValidDatagramType(v) ==
    v < 64 /\ ~Has(v, 16) /\ ~(Has(v, 32) /\ Has(v, 2))

\* Mutant: the priority is left out whenever the track has a default.
try_into_datagram_no_priority(o, alias, end_of_group, default_priority) ==
    LET is_status == o.status # NormalStatus IN
    IF o.forwarding_preference # "Datagram" \/ is_status = (o.payload # <<>>)
    THEN Fail("CastingError")
    ELSE Encoded([track_alias |-> alias, group_id |-> o.location.group,
                  object_id |-> o.location.object,
                  publisher_priority |-> IF default_priority # <<>> THEN <<>>
                                         ELSE <<o.publisher_priority>>,
                  properties |-> o.properties, payload |-> o.payload,
                  object_status |-> IF is_status THEN <<o.status>> ELSE <<>>,
                  end_of_group |-> ~is_status /\ end_of_group])

\* try_into_datagram: the priority is left out when the track's default says the same.
try_into_datagram(o, alias, end_of_group, default_priority) ==
    LET is_status == o.status # NormalStatus IN
    IF o.forwarding_preference # "Datagram" \/ is_status = (o.payload # <<>>)
    THEN Fail("CastingError")
    ELSE Encoded([track_alias |-> alias, group_id |-> o.location.group,
                  object_id |-> o.location.object,
                  publisher_priority |-> IF default_priority = <<o.publisher_priority>> THEN <<>>
                                         ELSE <<o.publisher_priority>>,
                  properties |-> o.properties, payload |-> o.payload,
                  object_status |-> IF is_status THEN <<o.status>> ELSE <<>>,
                  end_of_group |-> ~is_status /\ end_of_group])

SerializeDatagram(d) ==
    LET properties == unwrap_or(d.properties, <<>>)
        type == ObjectDatagramType(properties # <<>>, d.end_of_group, d.object_id = 0,
                                   d.publisher_priority = <<>>, d.object_status # <<>>)
    IN  IF ~ValidDatagramType(type) THEN Fail("ProtocolViolation")
        ELSE Then(serialize_properties(properties), LAMBDA units, rest :
                 Encoded(<<type, d.track_alias, d.group_id>>
                         \o (IF d.object_id = 0 THEN <<>> ELSE <<d.object_id>>)
                         \o d.publisher_priority
                         \o (IF properties = <<>> THEN <<>> ELSE length_prefixed(units))
                         \o (IF d.object_status # <<>> THEN d.object_status
                             ELSE unwrap_or(d.payload, <<>>))))

DeserializeDatagram(s) ==
    Then(get_vi(s), LAMBDA type, s1 :
    IF ~ValidDatagramType(type) THEN Fail("InvalidType")
    ELSE Then(copy_to_bytes(2, s1), LAMBDA ids, s2 :
         Then(Field(~Has(type, 4), s2), LAMBDA object, s3 :
         Then(Field(~Has(type, 8), s3), LAMBDA priority, s4 :
         Then(IF ~Has(type, 1) THEN Got(<<>>, s4)
              ELSE Then(ReadObjectProperties(s4), LAMBDA ps, rest : Got(<<ps>>, rest)),
              LAMBDA properties, s5 :
         Then(IF Has(type, 32) THEN ReadStatus(s5) ELSE Got(s5, <<>>), LAMBDA body, s6 :
            IF \/ Has(type, 1) /\ s4[1] = 0
               \/ Has(type, 1) /\ Has(type, 32) /\ body # NormalStatus
            THEN Fail("ProtocolViolation")
            ELSE Got([track_alias |-> ids[1], group_id |-> ids[2],
                      object_id |-> unwrap_or(object, 0), publisher_priority |-> priority,
                      properties |-> properties,
                      payload |-> IF Has(type, 32) THEN <<>> ELSE <<body>>,
                      object_status |-> IF Has(type, 32) THEN <<body>> ELSE <<>>,
                      end_of_group |-> Has(type, 2)], s6)))))))

try_from_datagram(d, default_priority) ==
    Object(d.track_alias, d.group_id, d.object_id,
           unwrap_or(d.publisher_priority, default_priority), "Datagram", <<>>,
           unwrap_or(d.object_status, NormalStatus), d.properties,
           IF d.object_status # <<>> THEN <<>> ELSE d.payload)
=============================================================================
