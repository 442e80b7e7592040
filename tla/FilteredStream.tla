--------------------------- MODULE FilteredStream ---------------------------
(***************************************************************************)
(* A subscription whose Objects arrive as module DataStream has them, and  *)
(* whose Range Filters the subscriber sets with its SUBSCRIBE, or with the *)
(* SUBSCRIBE_TRACKS its track is pushed for, and changes with              *)
(* REQUEST_UPDATEs while they do (apps/relay/src/server/subscription.rs    *)
(* and message_handlers).                                                  *)
(*                                                                         *)
(* The subscriber asks in ranges of values; what the relay keeps are       *)
(* parameters, whose ranges are differences.                               *)
(***************************************************************************)
EXTENDS DataStream, Filters

VARIABLES
    parameters,   \* subscribe_parameters of the subscription
    filter,       \* its range_filter
    subscribed,   \* whether the request was accepted, and the track pushed
    updates,      \* the REQUEST_UPDATEs to come
    asked,        \* history: what the subscriber has asked for and was granted
    judged        \* history: each Object, whether it was passed on and what was asked then

filtering == <<parameters, filter, subscribed, updates, asked, judged>>

\* RangeFilter::new, and the parameter that carries it; a fill holds more of them.
ToParameter(ask) ==
    [type |-> ask.type,
     value |-> IF ask.filter = <<>> THEN <<>>
               ELSE <<[set_id |-> ask.filter[1].set_id,
                       property_type |-> ask.filter[1].property_type,
                       deltas |-> RangesToDeltas(ask.filter[1].ranges)[1]]>>]
ToParameters(asks) ==
    [i \in DOMAIN asks |->
        IF asks[i].type # FillParameters THEN ToParameter(asks[i])
        ELSE [type |-> FillParameters,
              value |-> [j \in DOMAIN asks[i].fill |-> ToParameter(asks[i].fill[j])]]]

IsPushed == setting.track # <<>>

\* The SUBSCRIBE handler checks the filters, and the subscription takes them; a track
\* pushed for a SUBSCRIBE_TRACKS starts with those that its properties leave.
FilteredInit ==
    /\ Init
    /\ LET params == ToParameters(setting.asks)
           accepted == IF IsPushed THEN Ok(tracks_filter(params, setting.limit))
                       ELSE Ok(object_filter(params, setting.limit))
           left == IF IsPushed THEN filters_for_track(params, setting.track[1]) ELSE <<params>>
           fill == IF IsPushed THEN FillsOf(params) ELSE <<>>
       IN  /\ subscribed = (accepted /\ left # <<>>)
           /\ parameters = IF subscribed THEN left[1] \o fill ELSE <<>>
           /\ filter = IF subscribed THEN unwrap_or_default(for_objects(left[1])) ELSE NoFilter
    /\ updates = setting.updates
    /\ asked = setting.asks
    /\ judged = <<>>

\* What a subscriber has asked for after an update: "an update that names a filter kind
\* states the whole of that kind", and a zero-length filter takes its kind away.
AskedAfter(asks, update) ==
    SelectSeq(asks, LAMBDA a : \A i \in DOMAIN update : update[i].type # a.type)
        \o SelectSeq(update, LAMBDA a : a.type = FillParameters \/ a.filter # <<>>)

\* handle_request_update: applied as a whole, or refused as a whole. A refusal ends the
\* subscription (fail_update), unless its track was pushed.
UpdateFilters ==
    /\ subscribed /\ updates # <<>>
    /\ LET update == ToParameters(Head(updates))
           resulting == apply_message_parameter_update(parameters, update)
       IN  IF Ok(updated_filter(parameters, update, setting.limit))
           THEN /\ parameters' = resulting
                /\ filter' = unwrap_or_default(for_objects(resulting))
                /\ asked' = AskedAfter(asked, Head(updates))
                /\ UNCHANGED subscribed
           ELSE /\ subscribed' = IsPushed
                /\ UNCHANGED <<parameters, filter, asked>>
    /\ updates' = Tail(updates)
    /\ UNCHANGED <<vars, judged>>

\* The next Object that was taken goes to the subscriber, or is filtered out.
JudgeObject ==
    /\ subscribed /\ ~IsFetch /\ Len(judged) < Len(taken)
    /\ LET o == taken[Len(judged) + 1]
       IN  judged' = Append(judged, [object |-> o, asked |-> asked,
                                     passed |-> matches(filter, ObjectFields(o))])
    /\ UNCHANGED <<vars, parameters, filter, subscribed, updates, asked>>

FilteredNext ==
    \/ Next /\ UNCHANGED filtering
    \/ UpdateFilters
    \/ JudgeObject

FilteredSpec == FilteredInit /\ [][FilteredNext]_<<vars, filtering>>

(***************************************************************************)
(* Properties                                                              *)
(***************************************************************************)

\* The values an Object of the track has for what an ask is about
Values(ask, o, track_properties) ==
    LET property == ask.filter[1].property_type
        properties == IF ask.type = TrackPropertyFilter THEN track_properties
                      ELSE unwrap_or(o.properties, <<>>)
        found == SelectSeq(PropertyValues(properties), LAMBDA kvp : kvp.type = property[1])
    IN  CASE ask.type = SubgroupFilter -> ToSet(o.subgroup_id)
          [] ask.type = ObjectIdFilter -> {o.location.object}
          [] ask.type = PriorityFilter -> {o.publisher_priority}
          [] OTHER -> IF found = <<>> THEN {} ELSE {found[1].value}

\* "Ranges within one filter are OR'd, filters sharing a SetID are AND'd, and the SetIDs
\* are OR'd with each other. No filter at all passes everything."
Passes(asks, o, track_properties) ==
    LET filters == {i \in DOMAIN asks : asks[i].type # FillParameters /\ asks[i].filter # <<>>}
        InRange(v, r) == r.start <= v /\ (r.end = <<>> \/ v <= r.end[1])
        Satisfied(i) == \E v \in Values(asks[i], o, track_properties) :
                            \E r \in ToSet(asks[i].filter[1].ranges) : InRange(v, r)
    IN  filters = {} \/ \E i \in filters : \A j \in filters :
                            asks[j].filter[1].set_id = asks[i].filter[1].set_id => Satisfied(j)

\* An Object is passed on exactly when what the subscriber had asked for, and was granted,
\* lets it through; so is an Object of a fill, under what the fill asked for itself.  The
\* parameters that a subscription is left with can always be applied, and stay within the
\* limit, so that `unwrap_or_default` never lifts a filter.
FiltersMeanWhatWasAsked ==
    /\ \A k \in DOMAIN judged :
           judged[k].passed <=> Passes(judged[k].asked, judged[k].object, unwrap_or(setting.track, <<>>))
    /\ ~IsPushed /\ subscribed => \A i \in DOMAIN asked : asked[i].type = FillParameters =>
           LET own == SelectSeq(asked, LAMBDA a : a.type # FillParameters)
               fill == unwrap_or_default(fill_range_filter(parameters, FillsOf(parameters)[1].value))
           IN  \A k \in DOMAIN taken :
                   matches(fill, ObjectFields(taken[k]))
                       <=> Passes(AskedAfter(own, asked[i].fill), taken[k], <<>>)
    /\ subscribed =>
        /\ Ok(for_objects(parameters))
        /\ RangeCount(parameters) <= setting.limit
        /\ \A i \in DOMAIN FillsOf(parameters) :
               Ok(fill_range_filter(parameters, FillsOf(parameters)[i].value))
=============================================================================
