------------------------------- MODULE Filters -------------------------------
(***************************************************************************)
(* What the Range Filters of a request add up to, and how the relay checks *)
(* and combines them (libs/moqtail-rs/src/model/parameter/                 *)
(* combined_filter.rs, range_filter.rs and the relay's                     *)
(* filter_constructor.rs).                                                 *)
(*                                                                         *)
(* A CombinedFilter maps each SetID to its criteria: [kind, property_type, *)
(* ranges].                                                                *)
(***************************************************************************)
EXTENDS MessageParameters, Objects

NoFilter == [s \in {} |-> {}]

within(ranges, value) ==
    \E i \in DOMAIN ranges :
        /\ ranges[i].start <= value
        /\ ranges[i].end = <<>> \/ value <= ranges[i].end[1]

\* The Range Filters among the parameters, without zero-length removals
RangeFiltersOf(params) ==
    SelectSeq(params, LAMBDA p : is_range_filter(p.type) /\ p.value # <<>>)

FilterKey(p) == <<p.type, p.value[1].set_id, p.value[1].property_type>>

\* CombinedFilter::new
combined_filter(params) ==
    LET filters == RangeFiltersOf(params)
        ranges == [i \in DOMAIN filters |-> validate_range_filter(filters[i].type, filters[i].value[1])]
        bad == SelectSeq(ranges, LAMBDA r : ~Ok(r))
        duplicate == \E i, j \in DOMAIN filters :
                         i # j /\ FilterKey(filters[i]) = FilterKey(filters[j])
        Criterion(i) == [kind |-> filters[i].type, ranges |-> ranges[i].v,
                         property_type |-> filters[i].value[1].property_type]
        In(s) == {i \in DOMAIN filters : filters[i].value[1].set_id = s}
    IN  IF duplicate THEN Fail("Duplicate")
        ELSE IF bad # <<>> THEN bad[1]
        ELSE Encoded([s \in {filters[i].value[1].set_id : i \in DOMAIN filters} |->
                          {Criterion(i) : i \in In(s)}])

has_track_filters(filter) ==
    \E s \in DOMAIN filter : \E c \in filter[s] : c.kind = TrackPropertyFilter

for_objects(params) ==
    Then(combined_filter(params), LAMBDA filter, rest :
        IF has_track_filters(filter) THEN Fail("TrackFilterOnObjects") ELSE Encoded(filter))

\* The properties' varint values, those inside IMMUTABLE_PROPERTIES included, in order
PropertyValues(properties) ==
    SelectSeq(FlattenSeq([i \in DOMAIN properties |->
                              IF properties[i].type = ImmutableProperties
                              THEN properties[i].value ELSE <<properties[i]>>]),
              LAMBDA kvp : Even(kvp.type))

\* The property is there, and the first of its Type has a value in the ranges.
property_passes(c, properties) ==
    LET found == SelectSeq(PropertyValues(properties), LAMBDA kvp : kvp.type = c.property_type[1])
    IN  found # <<>> /\ within(c.ranges, found[1].value)

narrow_for_track(filter, properties) ==
    LET passing == {s \in DOMAIN filter :
                       \A c \in filter[s] :
                           c.kind = TrackPropertyFilter => property_passes(c, properties)}
    IN  IF filter = NoFilter THEN <<NoFilter>>
        ELSE IF passing = {} THEN <<>>
        ELSE <<[s \in passing |-> {c \in filter[s] : c.kind # TrackPropertyFilter}]>>

CriterionPasses(c, fields) ==
    CASE c.kind = SubgroupFilter ->
             fields.subgroup_id # <<>> /\ within(c.ranges, fields.subgroup_id[1])
      [] c.kind = ObjectIdFilter -> within(c.ranges, fields.object_id)
      [] c.kind = PriorityFilter -> within(c.ranges, fields.publisher_priority)
      [] c.kind = ObjectPropertyFilter ->
             property_passes(c, unwrap_or(fields.properties, <<>>))
      [] c.kind = TrackPropertyFilter -> TRUE

\* Mutant: an Object must pass every SetID.
matches_every_set(filter, fields) ==
    \A s \in DOMAIN filter : \A c \in filter[s] : CriterionPasses(c, fields)

matches(filter, fields) ==
    filter = NoFilter
        \/ \E s \in DOMAIN filter : \A c \in filter[s] : CriterionPasses(c, fields)

\* ObjectFields::from
ObjectFields(o) ==
    [subgroup_id |-> o.subgroup_id, object_id |-> o.location.object,
     publisher_priority |-> o.publisher_priority, properties |-> o.properties]

(***************************************************************************)
(* The relay's checks                                                      *)
(***************************************************************************)

RangeCount(params) ==
    LET filters == RangeFiltersOf(params)
    IN  FoldLeft(LAMBDA n, p : n + Len(p.value[1].deltas), 0, filters)

FillsOf(params) == SelectSeq(params, LAMBDA p : p.type = FillParameters)

\* A limit of 0 allows no filter parameter at all; a fill has a limit of its own.
WithinRangeLimit(params, limit) ==
    LET any == \E i \in DOMAIN params : is_range_filter(params[i].type)
    IN  any => limit > 0 /\ RangeCount(params) <= limit

check_filter_range_limit(params, limit) ==
    /\ WithinRangeLimit(params, limit)
    /\ \A i \in DOMAIN FillsOf(params) : WithinRangeLimit(FillsOf(params)[i].value, limit)

\* What object_filter and tracks_filter have in common
CheckedFilter(params, limit, Combine(_)) ==
    LET fills == [i \in DOMAIN FillsOf(params) |-> for_objects(FillsOf(params)[i].value)]
        bad == SelectSeq(fills, LAMBDA r : ~Ok(r))
    IN  IF ~check_filter_range_limit(params, limit) THEN Fail("TooManyRanges")
        ELSE IF bad # <<>> THEN bad[1]
        ELSE Combine(params)

object_filter(params, limit) == CheckedFilter(params, limit, for_objects)
tracks_filter(params, limit) == CheckedFilter(params, limit, combined_filter)

\* Mutant: the update is checked on its own, and not for what it leaves.
updated_filter_alone(current, update, limit) == object_filter(update, limit)

updated_filter(current, update, limit) ==
    IF ~check_filter_range_limit(update, limit) THEN Fail("TooManyRanges")
    ELSE object_filter(apply_message_parameter_update(current, update), limit)

\* The Object filters of the SetIDs whose track filters the track passes; an Option,
\* and empty as soon as one of them has none
filters_for_track(params, track_properties) ==
    LET filters == RangeFiltersOf(params)
        sets == {filters[i].value[1].set_id : i \in DOMAIN filters}
        Of(s, track) == SelectSeq(filters, LAMBDA p : /\ p.value[1].set_id = s
                                                      /\ (p.type = TrackPropertyFilter) = track)
        Passes(s) == LET net == combined_filter(Of(s, TRUE))
                     IN  Ok(net) /\ narrow_for_track(net.v, track_properties) # <<>>
        passing == {s \in sets : Passes(s)}
    IN  IF sets = {} THEN <<<<>>>>
        ELSE IF passing = {} THEN <<>>
        ELSE IF \E s \in passing : Of(s, FALSE) = <<>> THEN <<<<>>>>
        ELSE <<SelectSeq(filters, LAMBDA p : /\ p.value[1].set_id \in passing
                                             /\ p.type # TrackPropertyFilter)>>

\* A kind that FILL_PARAMETERS carries replaces the subscription's filters of that kind.
fill_range_filter(subscription, fill) ==
    LET OnlyFilters(params) == SelectSeq(params, LAMBDA p : is_range_filter(p.type))
    IN  for_objects(apply_message_parameter_update(OnlyFilters(subscription), OnlyFilters(fill)))

\* unwrap_or_default: a filter that cannot be applied would be none at all.
unwrap_or_default(r) == IF Ok(r) THEN r.v ELSE NoFilter
=============================================================================
