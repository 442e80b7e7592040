----------------------------- MODULE MCDelivery -----------------------------
EXTENDS Delivery

CONSTANTS old, new

\* The Objects of the groups 0 and 1 of each track
Sizes(o, n) == [s \in {old, new} |-> [g \in {0, 1} |-> IF s = old THEN o[g + 1] ELSE n[g + 1]]]

From1 == [type |-> "AbsoluteStart", start |-> <<1, 0>>]
NextObject == [type |-> "NextObject"]
LastTwo == [type |-> "RelativeStart", back |-> 1]
Between == [type |-> "AbsoluteRange", start |-> <<0, 1>>, end |-> <<1, 0>>]

\* A switch from the one track to the other: while the old one is within a group, while
\* the new one is, with a group of the new one before the boundary, while groups of the
\* old one overlap, and while the tracks end.
Soft == [does |-> {"switch"}, sizes |-> Sizes(<<2, 1>>, <<0, 1>>), datagrams |-> {},
         updated |-> {new}, requests |-> 1, filters |-> {From1},
         modes |-> {"Soft"}, blocked |-> {}, lag |-> 0, backlog |-> 0]
Within == [Soft EXCEPT !.sizes = Sizes(<<1, 1>>, <<0, 2>>)]
Before == [Soft EXCEPT !.sizes = Sizes(<<1, 0>>, <<1, 1>>)]
Meets == [Soft EXCEPT !.does = {"switch", "overlap"}, !.sizes = Sizes(<<2, 1>>, <<0, 0>>)]
SoftEnds == [Soft EXCEPT !.does = {"switch", "end"}, !.sizes = Sizes(<<1, 1>>, <<0, 0>>)]
Hard == [Soft EXCEPT !.modes = {"Hard"}, !.sizes = Sizes(<<1, 2>>, <<0, 1>>)]
HardEnds == [SoftEnds EXCEPT !.modes = {"Hard"}, !.sizes = Sizes(<<1, 0>>, <<0, 1>>)]
Datagrams == [Soft EXCEPT !.datagrams = {old, new}, !.sizes = Sizes(<<2, 2>>, <<1, 1>>)]

\* One track that ends, one whose subscription is paused and resumed, one whose
\* subscription is given other filters, one with an Object in the middle of a group that
\* the Range Filters drop, one whose streams the subscriber stops, one it falls behind on
\* and cancels, one whose event task its timer interrupts.
Ends == [Soft EXCEPT !.does = {"end", "overlap"}, !.sizes = Sizes(<<2, 2>>, <<0, 0>>)]
Paused == [Ends EXCEPT !.does = {"forward", "end"}, !.updated = {old}, !.requests = 2]
Filters == [Paused EXCEPT !.does = {"filter"}, !.filters = {NextObject, LastTwo, Between}]
Gaps == [Ends EXCEPT !.sizes = Sizes(<<3, 2>>, <<0, 0>>), !.blocked = {<<0, 1>>, <<1, 0>>}]
Stops == [Ends EXCEPT !.does = {"stop", "end"}]
Behind == [Ends EXCEPT !.does = {"overlap", "cancel"}, !.lag = 1, !.backlog = 2,
                        !.sizes = Sizes(<<2, 1>>, <<0, 0>>)]
Slow == [Ends EXCEPT !.does = {"slow"}]

All == {Soft, Within, Before, Meets, SoftEnds, Hard, HardEnds, Datagrams,
        Ends, Paused, Filters, Gaps, Stops, Behind, Slow}

\* What the code says of a switch and does not hold (MCDeliverySwitch.cfg)
Overlapping == {Meets}
SoftOnly == {Soft}
AtZero == {Before}
=============================================================================
