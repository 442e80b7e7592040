------------------------------- MODULE MCFetch -------------------------------
(* Two FETCHes of a track of two groups of up to two Objects. *)
EXTENDS Fetch

CONSTANTS a, b

FromTo(start, end) == [type |-> "AbsoluteRange", start |-> start, end |-> end]
ToGroup(start, g) == [type |-> "AbsoluteStartGroupEnd", start |-> start, end |-> <<g, 0>>]
Open(start) == [type |-> "AbsoluteStart", start |-> start]
FromBack(n) == [type |-> "RelativeStart", back |-> n]

Of(fa, fb) == [f \in {a, b} |-> IF f = a THEN fa ELSE fb]

\* Overlapping FETCHes of a track that grows, whose groups are evicted.
Grows == [exists |-> {<<0, 0>>, <<0, 1>>, <<1, 1>>},
          filters |-> Of(ToGroup(<<0, 0>>, 1), FromTo(<<0, 1>>, <<1, 1>>)),
          down |-> {}, refused |-> {}, fills |-> {}, live |-> TRUE, tells |-> {}, unknown |-> {}, markers |-> {},
          blocked |-> {}, gaps |-> 2, faults |-> {"evict"}]

\* Descending, with markers among the Objects and responses that break off.
Breaks == [Grows EXCEPT !.filters = Of(ToGroup(<<0, 1>>, 1), FromTo(<<0, 0>>, <<1, 1>>)),
               !.down = {a, b}, !.unknown = {<<0, 1>>}, !.markers = {<<1, 0>>},
               !.faults = {"abort"}]

\* A relay without the live feed, and a publisher that refuses or is silent.
Alone == [Grows EXCEPT !.filters = Of(Open(<<0, 1>>), FromBack(2)), !.live = FALSE,
              !.faults = {"timeout", "refuse"}]

\* FETCHes that are given up, updated, or answered with a malformed track.
Stops == [Grows EXCEPT !.exists = {<<0, 1>>, <<1, 1>>}, !.live = FALSE, !.blocked = {<<0, 1>>},
              !.faults = {"malformed", "cancel"}]

\* A fill beside a FETCH, with one upstream FETCH at most for each.
Fills == [Grows EXCEPT !.exists = {<<0, 0>>, <<1, 1>>}, !.filters = Of(ToGroup(<<0, 0>>, 0), FromBack(2)),
              !.fills = {b}, !.gaps = 1]
NoGaps == [Fills EXCEPT !.gaps = 0]
Refused == [NoGaps EXCEPT !.refused = {a}]

\* Live Objects that tell of gaps before them, of the end of a group and, in a
\* track whose first group is skipped, of its end.
Tells == [Grows EXCEPT !.exists = {<<0, 0>>, <<1, 1>>}, !.tells = {"ends", "gaps", "statuses"},
              !.filters = Of(ToGroup(<<0, 0>>, 1), FromBack(2)), !.fills = {b}, !.faults = {}]
Skips == [Tells EXCEPT !.exists = {<<1, 0>>}]

All == {Grows, Breaks, Alone, Stops, Fills, NoGaps, Refused, Tells, Skips}

\* A FETCH of a whole group that is partly back in the cache.
Refilled == {[Fills EXCEPT !.exists = Grows.exists]}

\* A FETCH goes to one publisher, which may have less than another had.
Behind == {[Grows EXCEPT !.faults = {"behind", "evict"}]}
=============================================================================
