---------------------------- MODULE MCDataStream ----------------------------
(***************************************************************************)
(* The streams and datagrams that the runs of DataStream send.             *)
(***************************************************************************)
EXTENDS FilteredStream

Text == <<<<7, 7>>>>
Empty == <<<<>>>>
Props == <<<<[type |-> 13, value |-> <<1>>], [type |-> 6, value |-> 2]>>>>
Gap(n) == <<<<[type |-> PriorObjectIdGap, value |-> n]>>>>

OnStream(kind, header, its, fetch, tail) ==
    [kind |-> kind, header |-> header, items |-> its, fetch |-> fetch, tail |-> tail,
     end_of_group |-> FALSE, default_priority |-> <<>>,
     asks |-> <<>>, updates |-> <<>>, limit |-> 3, track |-> <<>>]

\* An Object of subgroup s of group 2, under a header with the given priority
InSubgroup(s, object, priority, properties, status, payload) ==
    Object(3, 2, object, unwrap_or(priority, DEFAULT_PUBLISHER_PRIORITY), "Subgroup", <<s>>,
           status, properties, payload)

\* Ids with a gap, an Object without properties under a header that has them, a
\* zero-length Object (which cannot be written again once it is read), a status
Subgroups ==
    {OnStream("subgroup", new_first_object_id(3, 2, <<9>>, TRUE, FALSE, TRUE),
            <<InSubgroup(4, 4, <<9>>, Props, 0, Text), InSubgroup(4, 6, <<9>>, <<>>, 4, <<>>)>>,
            <<>>, tail) : tail \in {"fin", "cut", "stall", "reset"}}
    \cup
    {OnStream("subgroup", new_fixed_zero_id(3, 2, <<>>, FALSE, TRUE, FALSE),
            <<InSubgroup(0, 0, <<>>, <<>>, 0, Empty), InSubgroup(0, 1, <<>>, Props, 0, Text),
              InSubgroup(0, 3, <<>>, Empty, 0, Text)>>, <<>>, tail) : tail \in {"fin", "silence"}}
    \cup
    {OnStream("subgroup", new_with_explicit_id(3, 2, 1, <<0>>, FALSE, FALSE, TRUE),
            <<InSubgroup(1, 5, <<0>>, <<>>, 0, Text)>>, <<>>, tail) : tail \in {"fin", "lost"}}

InFetch(group, subgroup, object, priority, properties, payload) ==
    Object(3, group, object, priority, IF subgroup = <<>> THEN "Datagram" ELSE "Subgroup",
           subgroup, 0, properties, payload)

FetchHeader == [request_id |-> 6]

\* Up and down the groups; subgroups that stay, step by one and jump; a marker first, in
\* the middle and last; an Object that came in a datagram; a changed priority; a gap
\* that is too wide
Fetches ==
    {OnStream("fetch", FetchHeader,
            <<EndOfRange("Unknown", 1, 2), InFetch(1, <<1>>, 3, 5, <<>>, Text),
              InFetch(1, <<2>>, 7, 5, Gap(3), Empty), InFetch(3, <<2>>, 0, 6, <<>>, Text)>>,
            <<"Ascending">>, "fin"),
     OnStream("fetch", FetchHeader,
            <<InFetch(4, <<0>>, 1, 5, <<>>, Text), EndOfRange("NonExistent", 4, 3),
              InFetch(2, <<>>, 1, 5, Empty, Text), InFetch(2, <<1>>, 2, 7, <<>>, Empty)>>,
            <<"Descending">>, "fin"),
     OnStream("fetch", FetchHeader,
            <<InFetch(1, <<0>>, 1, 5, <<>>, Text), InFetch(1, <<0>>, 2, 6, <<>>, Text)>>, <<>>, "fin"),
     OnStream("fetch", FetchHeader,
            <<InFetch(1, <<0>>, 1, 5, Gap(2), Text), EndOfRange("TimedOut", 1, 2)>>, <<>>, "fin"),
     OnStream("fetch", FetchHeader,
            <<InFetch(2, <<3>>, 1, 5, <<>>, Text), InFetch(1, <<3>>, 1, 5, <<>>, Text),
              EndOfRange("Unknown", 2, 4)>>, <<"Ascending">>, "fin")}

Datagrams ==
    {[OnStream("datagram", FetchHeader,
             <<Object(3, 1, 0, 5, "Datagram", <<>>, 0, <<>>, Empty),
               Object(3, 1, 1, 128, "Datagram", <<>>, 0, Props, Text),
               Object(3, 1, 2, 5, "Datagram", <<>>, 3, Empty, <<>>),
               Object(3, 2, 0, 5, "Subgroup", <<0>>, 0, <<>>, Text)>>, <<>>, "fin")
      EXCEPT !.end_of_group = e, !.default_priority = p] : e \in BOOLEAN, p \in {<<>>, <<5>>}}

R(start, end) == [start |-> start, end |-> <<end>>]
From(start) == [start |-> start, end |-> <<>>]
Ask(type, set, property, ranges) ==
    [type |-> type, filter |-> <<[set_id |-> set, property_type |-> property, ranges |-> ranges]>>]
Removal(type) == [type |-> type, filter |-> <<>>]
Fill(asks) == [type |-> FillParameters, fill |-> asks]

\* Three Objects that filters tell apart, in subgroup 1: their property 6, if any, is in
\* the open or among the immutable ones
Filtered ==
    OnStream("subgroup", new_with_explicit_id(3, 2, 1, <<>>, TRUE, FALSE, TRUE),
             <<InSubgroup(1, 0, <<>>, Props, 0, Text), InSubgroup(1, 1, <<>>, <<>>, 0, Text),
               InSubgroup(1, 4, <<>>, <<<<[type |-> ImmutableProperties,
                                          value |-> <<[type |-> 6, value |-> 5]>>],
                                         [type |-> 6 + 8, value |-> 2]>>>>, 0, Text)>>,
             <<>>, "fin")

\* Two of them: with the property in the open and without, without and immutable
FirstTwo == [Filtered EXCEPT !.items = SubSeq(@, 1, 2)]
SecondTwo == [Filtered EXCEPT !.items = SubSeq(@, 2, 3)]

\* Ranges in a row and open-ended, two SetIDs, a property, a kind replaced and taken
\* away, a fill that has filters of its own
Ends == <<Ask(ObjectIdFilter, 0, <<>>, <<R(0, 0), From(4)>>)>>
Replaced ==
    <<<<Ask(ObjectPropertyFilter, 0, <<6>>, <<R(0, 1), R(1, 2)>>)>>,
      <<Ask(SubgroupFilter, 0, <<>>, <<R(1, 1)>>), Fill(<<Removal(ObjectIdFilter)>>)>>>>
ByUpdate ==
    {[Filtered EXCEPT !.asks = Ends, !.updates = Replaced]}
    \cup
    {[of EXCEPT !.updates = us] :
        of \in {SecondTwo, [FirstTwo EXCEPT !.asks = Ends]},
        us \in
            {<<<<Ask(ObjectPropertyFilter, 1, <<6>>, <<R(5, 9)>>)>>, <<Removal(ObjectIdFilter)>>>>,
             Replaced,
             <<<<Ask(PriorityFilter, 1, <<>>, <<From(128)>>),
                 Fill(<<Ask(ObjectIdFilter, 2, <<>>, <<R(1, 2)>>)>>)>>>>}}

\* Updates to refuse: the same filter twice, a priority over 255, an odd property, a
\* track filter, more ranges than the limit, alone and with what is there
Refused ==
    {<<Ask(PriorityFilter, 0, <<>>, <<R(128, 128)>>), Ask(PriorityFilter, 0, <<>>, <<R(0, 1)>>)>>,
     <<Ask(PriorityFilter, 1, <<>>, <<R(256, 256)>>)>>,
     <<Ask(ObjectPropertyFilter, 1, <<7>>, <<R(0, 9)>>)>>,
     <<Ask(TrackPropertyFilter, 1, <<6>>, <<R(0, 9)>>)>>,
     <<Ask(SubgroupFilter, 1, <<>>, <<R(0, 1), R(3, 4), R(6, 7), R(9, 9)>>)>>,
     <<Ask(SubgroupFilter, 1, <<>>, <<R(0, 1), R(3, 4), R(6, 7)>>)>>}

\* A pushed track that passes one SetID, both, or none
ByTrack ==
    {[SecondTwo EXCEPT !.asks = <<Ask(TrackPropertyFilter, 0, <<48>>, <<R(1, 1)>>),
                                  Ask(ObjectIdFilter, 0, <<>>, <<R(1, 3)>>)>> \o more,
                       !.track = <<track>>] :
        more \in {<<>>, <<Ask(ObjectIdFilter, 1, <<>>, <<From(2)>>)>>,
                  <<Ask(TrackPropertyFilter, 1, <<6>>, <<From(0)>>)>>},
        track \in {<<>>, <<[type |-> 48, value |-> 1]>>,
                   <<[type |-> 48, value |-> 0], [type |-> 6, value |-> 0]>>}}

\* A refused update leaves a pushed track as it was, and ends another subscription.
ByRefusal ==
    {[FirstTwo EXCEPT !.asks = <<Ask(ObjectIdFilter, 0, <<>>, <<R(1, 3)>>)>>,
                      !.updates = <<us>>, !.track = track] :
        us \in Refused, track \in {<<>>, <<<<>>>>}}

\* A limit of 0 takes no filter, and one without a subgroup passes no subgroup filter.
Limits ==
    {[Filtered EXCEPT !.limit = 0, !.updates = <<<<Removal(ObjectIdFilter)>>>>]}
    \cup {[d EXCEPT !.asks = <<Ask(SubgroupFilter, 0, <<>>, <<From(0)>>),
                              Ask(PriorityFilter, 1, <<>>, <<R(5, 5)>>)>>] : d \in Datagrams}

Streams == Limits \cup ByRefusal \cup ByUpdate \cup ByTrack \cup Subgroups \cup Fetches \cup Datagrams
=============================================================================
