----------------------------- MODULE MCPrefixes -----------------------------
EXTENDS Prefixes

CONSTANTS a, b, c

root == <<>>
top == <<"meet">>
room == <<"meet", "room">>
side == <<"live">>
MCNamespaces == {root, top, room, side}

\* Requests 1, 2, 3 of the clients a, b, c: 1 and 2 offer, 3 asks.
Announce ==
    [by |-> <<a, b, c>>, at |-> <<room, top, top>>,
     kind |-> <<"PublishNamespace", "PublishNamespace", "SubscribeNamespace">>,
     refused |-> {}, mute |-> {}, moves |-> {}, turns |-> {}, cancels |-> {1, 3}, closes |-> {a, c}, unwanted |-> {},
     excludes |-> {}, streams |-> 0, active |-> 0, drains |-> FALSE, fields |-> 2]
Own == [Announce EXCEPT !.by = <<a, c, c>>, !.closes = {a}]

\* Two subscriptions of one client, one of which moves.
Moves == [Announce EXCEPT !.by = <<a, c, c>>, !.at = <<room, root, room>>,
            !.kind = <<"PublishNamespace", "SubscribeNamespace", "SubscribeNamespace">>,
            !.moves = {top}, !.closes = {a}, !.fields = 1]
Kinds2 == [Moves EXCEPT !.at = <<room, top, top>>, !.moves = {root},
            !.kind = <<"PublishNamespace", "SubscribeNamespace", "SubscribeTracks">>]

\* Two whose prefixes do not agree, whichever is first.
Crossing == [Moves EXCEPT !.moves = {root, top}, !.closes = {}, !.cancels = {2, 3}, !.fields = 2]
Apart == [Crossing EXCEPT !.at = <<room, top, side>>, !.moves = {side, root}]

\* Tracks.
Push == [Announce EXCEPT !.kind = <<"Publish", "Publish", "SubscribeTracks">>,
            !.at = <<room, top, top>>, !.mute = {1}, !.closes = {a},
            !.cancels = {1}]
Limit == [Push EXCEPT !.streams = 1, !.closes = {}, !.drains = TRUE]
Quietly == [Push EXCEPT !.mute = {1, 3}, !.closes = {}, !.active = 2,
                        !.unwanted = {<<c, room>>}]
Same == [Push EXCEPT !.at = <<room, room, top>>, !.mute = {}, !.closes = {c},
                     !.cancels = {3}, !.excludes = {<<3, top>>}]
Excluded == [Push EXCEPT !.excludes = {<<3, top>>}, !.closes = {}, !.refused = {2}]

\* A SUBSCRIBE_TRACKS that turns FORWARD on, as it moves or without, while tracks
\* come; then beside a SUBSCRIBE_NAMESPACE of its client.
Turns == [Push EXCEPT !.by = <<a, a, c>>, !.at = <<room, room, top>>, !.mute = {1, 3}, !.turns = {3},
            !.kind = <<"Publish", "PublishNamespace", "SubscribeTracks">>,
            !.moves = {root}, !.cancels = {3}, !.closes = {c}]
Turns2 == [Turns EXCEPT !.by = <<a, c, c>>, !.at = <<room, top, top>>, !.closes = {}, !.moves = {side},
            !.kind = <<"Publish", "SubscribeNamespace", "SubscribeTracks">>]
Mixed == [Announce EXCEPT !.kind = <<"Publish", "SubscribeTracks", "SubscribeNamespace">>,
            !.by = <<a, b, b>>, !.at = <<room, top, top>>, !.closes = {b}]

All == {Announce, Own, Moves, Kinds2, Crossing, Apart, Push, Limit, Quietly, Same, Excluded, Mixed,
        Turns, Turns2}

\* Two subscriptions of one kind at one prefix.
Twins == {[Moves EXCEPT !.at = <<room, top, top>>]}

\* A client that hears of what it announces; a SUBSCRIBE_TRACKS beside a
\* SUBSCRIBE_NAMESPACE.
Self == {Own}
Beside == {Turns2}

\* Two publishers of one namespace.
Shared == {[Announce EXCEPT !.at = <<room, room, top>>, !.closes = {}]}
=============================================================================
