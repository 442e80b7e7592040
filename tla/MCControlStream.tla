--------------------------- MODULE MCControlStream ---------------------------
(***************************************************************************)
(* Streams that carry one of the sample messages and another after it, so  *)
(* that a message read too short or too long damages the next one.         *)
(***************************************************************************)
EXTENDS ControlStream, TLC

P(type, value) == [type |-> type, value |-> value]
ns == <<<<1, 2>>, <<3>>>>
name == <<7>>
loc == [group |-> 4, object |-> 2]
Token(kind) ==
    [alias_type |-> kind,
     token_alias |-> IF kind = "UseValue" THEN <<>> ELSE <<9>>,
     token_type |-> IF kind \in {"Register", "UseValue"} THEN <<1>> ELSE <<>>,
     token_value |-> IF kind \in {"Register", "UseValue"} THEN <<5, 6>> ELSE <<>>]
AbsoluteRange ==
    P(LocationFilter, [filter |-> "AbsoluteRange", start |-> loc,
                       end |-> [group |-> 6, object |-> 0]])
Backwards == P(LocationFilter, [filter |-> "AbsoluteRange", start |-> loc,
                                end |-> [group |-> 4, object |-> 0]])
Filter(type, property, deltas) ==
    P(type, <<[set_id |-> 1, property_type |-> property, deltas |-> deltas]>>)
TwoRanges == <<[start |-> 1, end |-> <<2>>], [start |-> 3, end |-> <<>>]>>

\* One parameter, or a few that do not arrive in the order they are given
ParameterLists ==
    {<<P(AuthorizationToken, Token(k))>> : k \in {"Delete", "Register", "UseAlias", "UseValue"}}
    \cup {<<P(LocationFilter, f)>> :
              f \in {[filter |-> "None"], [filter |-> "NextObject"],
                     [filter |-> "RelativeStart", start_group |-> 3],
                     [filter |-> "AbsoluteStart", start |-> loc],
                     [filter |-> "AbsoluteStartGroupEnd", start |-> loc, end_group |-> 9]}}
    \cup {<<P(SubscriberPriority, 200), P(ObjectDeliveryTimeout, 0), P(Forward, 1)>>,
          <<Filter(ObjectIdFilter, <<>>, TwoRanges), Filter(ObjectIdFilter, <<>>, <<>>)>>,
          <<Filter(ObjectPropertyFilter, <<60>>, TwoRanges), P(SubgroupFilter, <<>>)>>,
          <<P(SwitchFrom, [request_id |-> 8, mode |-> 1, publish_done |-> TRUE]),
            P(SwitchingSetAssignment, <<1, 2, 300, 10, 1, 4>>)>>,
          <<P(FillParameters, <<P(GroupOrder, 2), AbsoluteRange, P(FillTimeout, 50)>>),
            P(NewGroupRequest, 3)>>}

Redirect == [connect_uri |-> <<>>, track_namespace |-> <<<<8>>>>, track_name |-> name]
Largest == P(LargestObject, loc)
TrackProperties ==
    <<P(DefaultPublisherGroupOrder, 2),
      P(ImmutableProperties, <<P(62, 1), P(7, <<5>>)>>), P(2, 100)>>

Requests ==
    {Subscribe(2, ns, name, ps) : ps \in ParameterLists}
    \cup {Subscribe(2, ns, name, <<>>),
          Fetch(4, <<>>, name, <<AbsoluteRange, P(GroupOrder, 1), P(IncludeProperties, 0)>>),
          Publish(6, ns, <<>>, 5, <<Largest, P(Expires, 60)>>, TrackProperties),
          PublishNamespace(8, ns, <<P(AuthorizationToken, Token("UseAlias"))>>),
          SubscribeNamespace(10, <<<<1>>>>, <<P(Forward, 0)>>),
          SubscribeTracks(12, <<>>, <<Filter(TrackPropertyFilter, <<2>>, TwoRanges)>>)}

Update == RequestUpdate(3, <<P(TrackNamespacePrefix, ns), P(SubscriberPriority, 1)>>)

Again == RequestUpdate(3, <<>>)
Taken == {Subscribe(2, <<>>, <<>>, <<>>), Fetch(4, <<>>, <<>>, <<>>),
          Publish(6, <<>>, <<>>, 5, <<>>, <<>>)}

Replies ==
    {SubscribeOk(5, <<Largest>>, TrackProperties),
     FetchOk(TRUE, loc, <<Largest>>, <<>>),
     RequestOk(<<P(SwitchingSetAssignment, <<1, 2, 300, 1, 0, 0>>)>>, <<P(2, 0)>>),
     RequestError(16, 50, <<6, 6>>, <<>>),
     RequestError(0, 0, <<>>, <<Redirect>>),
     RequestError(0, 0, <<>>, <<[Redirect EXCEPT !.connect_uri = <<<<4, 4>>>>]>>),
     PublishDone(8, 3, <<6>>), PublishSkipped(ns, name)}

Refused ==
    {\* cannot be encoded: too long a reason, a range that ends before it starts
     RequestError(1, 0, <<6, 6, 6, 6>>, <<>>),
     RequestUpdate(3, <<P(LocationFilter, [filter |-> "AbsoluteStartGroupEnd", start |-> loc,
                                           end_group |-> 3])>>)}

Setting(role, messages, tail) ==
    [role |-> role, messages |-> messages, tail |-> tail, transport |-> "WebTransport",
     relay |-> "serving"]
PlainSetup == Setup(<<P(6, 4), P(AuthorizationToken, SerializeToken(Token("Register")))>>)
OverQuic == Setup(<<P(7, <<1>>), P(Authority, <<3>>), P(Path, <<4>>)>>)

Tails == {"none", "silence", "fin", "reset", "lost"}

OnControl ==
    {Setting("control", <<PlainSetup, GoAway(uri, 9)>>, tail) :
        uri \in {<<>>, <<4, 4>>}, tail \in Tails}
    \cup {Setting("control", <<PlainSetup, Namespace(ns), NamespaceDone(ns)>>, "none")}
    \cup {Setting("control", <<Namespace(ns)>>, "none"),
          Setting("control", <<PlainSetup, RequestOk(<<>>, <<>>), PlainSetup>>, "none"),
          Setting("control", <<OverQuic, PlainSetup>>, "none"),
          [Setting("control", <<OverQuic, PublishSkipped(<<>>, name)>>, "none")
              EXCEPT !.transport = "Quic"]}

OnRequest ==
    {Setting("request", <<r, Update>>, "none") : r \in Requests}
    \cup {Setting("request", <<Subscribe(2, ns, name, <<>>)>>, tail) : tail \in Tails}
    \cup {Setting("request", <<TrackStatus(2, ns, name, <<P(IncludeProperties, 1)>>)>>
                                 \o follow, "none") : follow \in {<<>>, <<Update>>}}
    \cup {Setting("request", <<Namespace(ns)>>, "none"),
          Setting("request", <<Subscribe(2, ns, name, <<P(Expires, 3)>>), Update>>, "none"),
          Setting("request", <<Publish(2, ns, name, 5, <<>>, <<>>), PublishDone(2, 1, <<>>)>>,
                  "fin"),
          [Setting("request", <<Subscribe(2, ns, name, <<>>)>>, "none")
              EXCEPT !.relay = "draining"],
          [Setting("request", <<Subscribe(2, ns, name, <<>>)>>, "none")
              EXCEPT !.relay = "busy"],
          [Setting("request", <<Publish(2, ns, name, 5, <<>>, <<>>)>>, "none")
              EXCEPT !.relay = "aliased"],
          Setting("request", <<Fetch(4, <<>>, name, <<Backwards>>)>>, "none")}
    \cup {[Setting("request", <<r, Again, Again>>, "none") EXCEPT !.relay = "retiring"] :
              r \in Taken}
    \cup {Setting("request", <<Subscribe(2, ns, name, <<>>), r, Update>>, "none") :
              r \in Refused}

OnAnswer ==
    {Setting("answer", <<a, Namespace(ns)>>, "none") : a \in Replies}

All == OnControl \cup OnRequest \cup OnAnswer

\* An update on a FETCH, and one to a SUBSCRIBE or PUBLISH whose track goes
OfFetch == {Setting("request", <<Fetch(4, <<>>, <<>>, <<>>), Again>>, "none")}
OfTorn == {[Setting("request", <<r, Again>>, "none") EXCEPT !.relay = "retiring"] :
              r \in {t \in Taken : t.msg # "Fetch"}}
=============================================================================
