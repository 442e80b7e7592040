----------------------------- MODULE Parameters -----------------------------
(***************************************************************************)
(* Message parameters, the filters they carry and setup options            *)
(* (libs/moqtail-rs/src/model/parameter).                                  *)
(*                                                                         *)
(* A parameter is [type, value].  How its value goes on the wire depends   *)
(* on the Type alone, and a reader that takes a value for another shape    *)
(* misreads everything after it.                                           *)
(***************************************************************************)
EXTENDS Wire

\* MessageParameterType
ObjectDeliveryTimeout == 2
AuthorizationToken == 3
RendezvousTimeout == 4
SubgroupDeliveryTimeout == 6
Expires == 8
LargestObject == 9
FillTimeout == 10
Forward == 16
SubscriberPriority == 32
LocationFilter == 33
GroupOrder == 34
FillParameters == 35
SwitchFrom == 36
SubgroupFilter == 37
ObjectIdFilter == 38
PriorityFilter == 39
ObjectPropertyFilter == 40
TrackPropertyFilter == 41
NewGroupRequest == 50
TrackNamespacePrefix == 52
IncludeProperties == 53
SwitchingSetAssignment == 65

is_object_range_filter(t) ==
    t \in {SubgroupFilter, ObjectIdFilter, PriorityFilter, ObjectPropertyFilter}
is_range_filter(t) == is_object_range_filter(t) \/ t = TrackPropertyFilter
has_property_type(t) == t \in {ObjectPropertyFilter, TrackPropertyFilter}

\* The varint-valued Types; every other known Type carries bytes.
VarIntTypes ==
    {ObjectDeliveryTimeout, SubgroupDeliveryTimeout, RendezvousTimeout, FillTimeout,
     Expires, Forward, IncludeProperties, SubscriberPriority, GroupOrder, NewGroupRequest}

\* Mutant: SWITCH_FROM goes by the parity of its Type.
value_shape_by_parity(t) ==
    CASE t \in {Forward, SubscriberPriority, GroupOrder, IncludeProperties} -> "Uint8"
      [] t = LargestObject -> "BareLocation"
      [] t = LocationFilter -> "LocationFilter"
      [] t = TrackNamespacePrefix \/ is_range_filter(t) -> "LengthPrefixedBytes"
      [] OTHER -> IF Even(t) THEN "VarInt" ELSE "LengthPrefixedBytes"

value_shape(t) ==
    CASE t \in {Forward, SubscriberPriority, GroupOrder, IncludeProperties} -> "Uint8"
      [] t = LargestObject -> "BareLocation"
      [] t = LocationFilter -> "LocationFilter"
      [] t \in {TrackNamespacePrefix, SwitchFrom} \/ is_range_filter(t) -> "LengthPrefixedBytes"
      [] OTHER -> IF Even(t) THEN "VarInt" ELSE "LengthPrefixedBytes"

\* The only parameters that may override anything for the fill fetch stream.
is_valid_fill_parameter(t) ==
    t \in {FillTimeout, SubscriberPriority, LocationFilter, GroupOrder}
        \/ is_object_range_filter(t)

\* The messages a parameter may be part of
is_valid_for(t, msg) ==
    CASE t = AuthorizationToken ->
             msg \in {"Publish", "Subscribe", "RequestUpdate", "SubscribeNamespace",
                      "SubscribeTracks", "PublishNamespace", "TrackStatus", "Fetch"}
      [] t \in {ObjectDeliveryTimeout, SubgroupDeliveryTimeout} ->
             msg \in {"Subscribe", "Publish", "RequestUpdate"}
      [] t = RendezvousTimeout -> msg = "Subscribe"
      [] t = FillTimeout -> msg = "Fetch"
      [] t = SubscriberPriority -> msg \in {"Subscribe", "Publish", "Fetch", "RequestUpdate"}
      [] t = GroupOrder -> msg \in {"Subscribe", "SubscribeTracks", "Fetch", "Publish"}
      [] t = LocationFilter ->
             msg \in {"Subscribe", "Fetch", "Publish", "SubscribeTracks", "RequestUpdate"}
      [] t = FillParameters -> msg \in {"Subscribe", "SubscribeTracks", "RequestUpdate"}
      [] t \in {SwitchFrom, NewGroupRequest} -> msg \in {"Subscribe", "RequestUpdate"}
      [] t = Expires -> msg \in {"SubscribeOk", "Publish", "PublishOk", "RequestOk"}
      [] t = LargestObject -> msg \in {"SubscribeOk", "Publish", "FetchOk", "RequestOk"}
      [] t = Forward ->
             msg \in {"Subscribe", "RequestUpdate", "Publish", "SubscribeNamespace",
                      "SubscribeTracks"}
      [] t = IncludeProperties ->
             msg \in {"Subscribe", "TrackStatus", "Fetch", "SubscribeTracks"}
      [] t = TrackPropertyFilter -> msg \in {"SubscribeTracks", "RequestUpdate"}
      [] is_object_range_filter(t) ->
             msg \in {"Subscribe", "Fetch", "SubscribeTracks", "RequestUpdate"}
      [] t = TrackNamespacePrefix -> msg = "RequestUpdate"
      [] t = SwitchingSetAssignment ->
             msg \in {"PublishOk", "RequestOk", "Subscribe", "RequestUpdate"}

(***************************************************************************)
(* Location filters.  The end group goes out as a distance from the start. *)
(***************************************************************************)

FilterTypes ==
    <<"None", "RelativeStart", "AbsoluteStart", "AbsoluteStartGroupEnd", "AbsoluteRange",
      "NextObject">>

\* Mutant: the end group goes out as it is.
end_group_as_is(start, end_group) ==
    IF end_group < start.group THEN Fail("ProtocolViolation") ELSE Encoded(<<end_group>>)

end_group_delta(start, end_group) ==
    IF end_group < start.group THEN Fail("ProtocolViolation")
    ELSE Encoded(<<end_group - start.group>>)

SerializeLocationFilter(f) ==
    LET kind == CHOOSE i \in DOMAIN FilterTypes : FilterTypes[i] = f.filter
        fields ==
            CASE f.filter \in {"None", "NextObject"} -> Encoded(<<>>)
              [] f.filter = "RelativeStart" -> Encoded(<<f.start_group>>)
              [] f.filter = "AbsoluteStart" -> Encoded(SerializeLocation(f.start))
              [] f.filter = "AbsoluteStartGroupEnd" ->
                     Join(<<Encoded(SerializeLocation(f.start)),
                            end_group_delta(f.start, f.end_group)>>)
              [] f.filter = "AbsoluteRange" ->
                     Join(<<Encoded(SerializeLocation(f.start)),
                            end_group_delta(f.start, f.end.group), Encoded(<<f.end.object>>)>>)
    IN  Join(<<Encoded(<<kind - 1>>), fields>>)

ReadEndGroup(start, s) ==
    Then(get_vi(s), LAMBDA delta, rest :
        IF start.group + delta > U64_MAX THEN Fail("ProtocolViolation")
        ELSE Got(start.group + delta, rest))

DeserializeLocationFilter(s) ==
    Then(get_vi(s), LAMBDA raw, rest :
        IF raw + 1 \notin DOMAIN FilterTypes THEN Fail("ProtocolViolation")
        ELSE LET kind == FilterTypes[raw + 1] IN
             CASE kind \in {"None", "NextObject"} -> Got([filter |-> kind], rest)
               [] kind = "RelativeStart" ->
                      Then(get_vi(rest), LAMBDA g, s1 :
                          Got([filter |-> kind, start_group |-> g], s1))
               [] kind = "AbsoluteStart" ->
                      Then(DeserializeLocation(rest), LAMBDA l, s1 :
                          Got([filter |-> kind, start |-> l], s1))
               [] kind = "AbsoluteStartGroupEnd" ->
                      Then(DeserializeLocation(rest), LAMBDA l, s1 :
                      Then(ReadEndGroup(l, s1), LAMBDA g, s2 :
                          Got([filter |-> kind, start |-> l, end_group |-> g], s2)))
               [] kind = "AbsoluteRange" ->
                      Then(DeserializeLocation(rest), LAMBDA l, s1 :
                      Then(ReadEndGroup(l, s1), LAMBDA g, s2 :
                      Then(get_vi(s2), LAMBDA o, s3 :
                          Got([filter |-> kind, start |-> l,
                               end |-> [group |-> g, object |-> o]], s3)))))

(***************************************************************************)
(* Range filters: the set they belong to, the Property they read and the   *)
(* deltas of their Ranges, of which only the last may have no end.         *)
(***************************************************************************)

SerializeRangeFilter(f) ==
    IF \E i \in 1 .. (Len(f.deltas) - 1) : f.deltas[i].end = <<>>
    THEN Fail("ProtocolViolation")
    ELSE Encoded(<<f.set_id>> \o f.property_type
                 \o FlattenSeq([i \in DOMAIN f.deltas |->
                                    <<f.deltas[i].start>> \o f.deltas[i].end]))

\* The value ends with the last Range: a Start with nothing after it has no End.
RECURSIVE ReadDeltas(_)
ReadDeltas(s) ==
    CASE s = <<>> -> <<>>
      [] Len(s) = 1 -> <<[start |-> s[1], end |-> <<>>]>>
      [] OTHER -> <<[start |-> s[1], end |-> <<s[2]>>]>> \o ReadDeltas(Tail(Tail(s)))

DeserializeRangeFilter(kind, s) ==
    Then(get_vi(s), LAMBDA set, rest :
    Then(IF has_property_type(kind) THEN copy_to_bytes(1, rest) ELSE Got(<<>>, rest),
         LAMBDA property, after :
            Got([set_id |-> set, property_type |-> property, deltas |-> ReadDeltas(after)], <<>>)))

\* RangeFilter::new: ascending Ranges to deltas; <<>> when they are not ascending
RangesToDeltas(ranges) ==
    LET PriorEnd(i) == IF i = 1 THEN 0 ELSE ranges[i - 1].end[1]
        ordered == \A i \in DOMAIN ranges :
                      /\ i < Len(ranges) => ranges[i].end # <<>>
                      /\ ranges[i].start >= PriorEnd(i)
                      /\ ranges[i].end # <<>> => ranges[i].end[1] >= ranges[i].start
    IN  IF ~ordered THEN <<>>
        ELSE <<[i \in DOMAIN ranges |->
                   [start |-> ranges[i].start - PriorEnd(i),
                    end |-> IF ranges[i].end = <<>> THEN <<>>
                            ELSE <<ranges[i].end[1] - ranges[i].start>>]]>>

\* RangeFilter::ranges: the deltas added back; an End left out keeps the one before
RECURSIVE AddDeltas(_, _)
AddDeltas(prior_end, deltas) ==
    IF deltas = <<>> THEN Encoded(<<>>)
    ELSE LET start == prior_end + deltas[1].start
             end == IF deltas[1].end = <<>> THEN <<>> ELSE <<start + deltas[1].end[1]>>
             last == IF end = <<>> THEN prior_end ELSE end[1]
         IN  IF start > U64_MAX \/ last > U64_MAX THEN Fail("Overflow")
             ELSE Join(<<Encoded(<<[start |-> start, end |-> end]>>),
                         AddDeltas(last, Tail(deltas))>>)

filter_ranges(f) == AddDeltas(0, f.deltas)

validate_range_filter(kind, f) ==
    IF has_property_type(kind) # (f.property_type # <<>>) THEN Fail("PropertyTypeMismatch")
    ELSE IF f.property_type # <<>> /\ ~Even(f.property_type[1]) THEN Fail("OddPropertyType")
    ELSE Then(filter_ranges(f), LAMBDA ranges, rest :
             IF kind = PriorityFilter
                /\ \E i \in DOMAIN ranges :
                      ranges[i].start > 255
                      \/ (ranges[i].end # <<>> /\ ranges[i].end[1] > 255)
             THEN Fail("PriorityOutOfRange")
             ELSE Encoded(ranges))

(***************************************************************************)
(* Authorization tokens                                                    *)
(***************************************************************************)

TokenAliasType == <<"Delete", "Register", "UseAlias", "UseValue">>

SerializeToken(t) ==
    LET kind == CHOOSE i \in DOMAIN TokenAliasType : TokenAliasType[i] = t.alias_type
    IN  <<kind - 1>> \o t.token_alias \o t.token_type \o t.token_value

DeserializeToken(s) ==
    Then(get_vi(s), LAMBDA raw, rest :
        IF raw + 1 \notin DOMAIN TokenAliasType THEN Fail("InvalidType")
        ELSE LET kind == TokenAliasType[raw + 1]
                 Option(has, units) == IF has THEN copy_to_bytes(1, units) ELSE Got(<<>>, units)
             IN  Then(Option(kind # "UseValue", rest), LAMBDA alias, s1 :
                 Then(Option(kind \in {"Register", "UseValue"}, s1), LAMBDA type, s2 :
                     Got([alias_type |-> kind, token_alias |-> alias, token_type |-> type,
                          token_value |-> IF type = <<>> THEN <<>> ELSE s2], <<>>))))
=============================================================================
