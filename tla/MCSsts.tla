------------------------------- MODULE MCSsts -------------------------------
EXTENDS Ssts

Op(op, r, t, s, th, act) ==
    [op |-> op, request |-> r, track |-> t, set |-> s, algorithm |-> "default",
     threshold |-> th, weight |-> 1, activate |-> act, rank |-> 0]

\* Two tracks of one set, with an update that makes the set dormant.
Pair ==
    [track |-> <<"low", "high", "other">>, feed |-> <<<<1, 1>>, <<1, 2>>, <<>>>>,
     ops |-> {Op("subscribe", 1, "low", "A", 1, 1), Op("subscribe", 2, "high", "A", 4, 2),
              Op("update", 2, "high", "A", 0, 0)},
     negotiated |-> {"default"}, estimates |-> {1, 5}, cap |-> 0, ticks |-> FALSE, closes |-> {}, discard |-> FALSE]

\* Tracks come to a set and leave it; one is held by two subscriptions.
Leaves ==
    [Pair EXCEPT !.track = <<"low", "high", "low">>, !.feed = <<<<1>>, <<1>>, <<>>>>, !.closes = {1},
        !.ops = {Op("subscribe", 1, "low", "A", 1, 1), Op("publish_ok", 2, "high", "A", 4, 1),
                 Op("subscribe", 3, "low", "A", 2, 1), Op("cancel", 1, "low", "A", 1, 1),
                 Op("remove", 2, "high", "A", 4, 1)}]

\* A group so late that its decision left the window.
Late == [Pair EXCEPT !.feed = <<<<1, 3>>, <<3, 1>>, <<>>>>,
            !.ops = {Op("subscribe", 1, "low", "A", 1, 1), Op("subscribe", 2, "high", "A", 4, 1)}]

\* Assignments that are refused or ignored.
Refused ==
    [Pair EXCEPT !.track = <<"low", "low", "high">>, !.feed = <<<<1>>, <<>>, <<1>>>>,
        !.ops = {Op("subscribe", 1, "low", "A", 1, 1), Op("subscribe", 2, "low", "B", 1, 1),
                 Op("publish_ok", 3, "high", "A", 4, 1),
                 [Op("publish_ok", 3, "high", "B", 4, 1) EXCEPT !.algorithm = "backpressure"]}]

\* Two sets of one rank and of two, at the edge of the arithmetic too.
Weighed(op, w, k) == [op EXCEPT !.weight = w, !.rank = k]
Ranks ==
    [Pair EXCEPT !.feed = <<<<1>>, <<>>, <<1>>>>, !.estimates = {0, 3, 5, 9}, !.cap = 0,
        !.ops = {Weighed(Op("subscribe", 1, "low", "A", 2, 1), 10, 0),
                 Weighed(Op("subscribe", 2, "high", "A", 5, 1), 3, 1),
                 Weighed(Op("subscribe", 3, "other", "B", 4, 1), 1, 1),
                 Weighed(Op("update", 3, "other", "B", 2, 1), 2, 0)}]
Capped == [Ranks EXCEPT !.cap = 7]

\* The tier selector, with streams that are discarded.
Pressure ==
    [Pair EXCEPT !.negotiated = {"default", "backpressure"}, !.discard = TRUE, !.ticks = TRUE, !.closes = {2},
        !.feed = <<<<1, 2>>, <<1>>, <<>>>>, !.estimates = {0},
        !.ops = {[Op("subscribe", 1, "low", "A", 1, 1) EXCEPT !.algorithm = "backpressure"],
                 [Op("subscribe", 2, "high", "A", 4, 1) EXCEPT !.algorithm = "backpressure"]}]

All == {Pair, Leaves, Late, Refused, Ranks, Capped, Pressure}

\* A track whose publisher is done while an Object of it waits for a decision.
TornDown == {[Pair EXCEPT !.feed = <<<<1>>, <<>>, <<>>>>,
                !.ops = {Op("subscribe", 1, "low", "A", 1, 1), Op("remove", 1, "low", "A", 1, 1)}]}

\* A group decided again after its answer left the window.
Again == {Late}

\* A stream that cannot be finished; a track that leaves while its stream is open.
Unfinished == {[Pair EXCEPT !.closes = {1}, !.feed = <<<<1>>, <<>>, <<>>>>,
                  !.ops = {Op("subscribe", 1, "low", "A", 1, 1)}]}
LeftOpen == {[Pair EXCEPT !.closes = {1}, !.discard = TRUE, !.feed = <<<<1>>, <<>>, <<>>>>,
                !.ops = {Op("subscribe", 1, "low", "A", 1, 1), Op("subscribe", 2, "high", "A", 4, 1),
                         Op("remove", 1, "low", "A", 1, 1)}]}
=============================================================================
