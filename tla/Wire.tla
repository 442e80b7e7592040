-------------------------------- MODULE Wire --------------------------------
(***************************************************************************)
(* The encodings that every MOQT message and stream is built from          *)
(* (libs/moqtail-rs/src/model/common and .../property).                    *)
(*                                                                         *)
(* Bytes are abstracted to UNITS: an encoded piece is a sequence of        *)
(* naturals in which every varint and every byte is one unit, so lengths   *)
(* count units.  How many bytes a varint takes is left out: nothing that   *)
(* reads one depends on it.                                                *)
(*                                                                         *)
(* A writer and a reader both answer with a result: err = "none" and the   *)
(* value v (a reader also gives the units it did not read), or one of the  *)
(* errors of ParseError that callers tell apart.  An Option is a sequence  *)
(* of at most one element.                                                 *)
(***************************************************************************)
EXTENDS Integers, Sequences, SequencesExt

CONSTANTS
    U64_MAX,                \* 2^64 - 1 in the code; checked additions stop here
    MAX_VALUE_LENGTH,       \* of a byte-string value (65535)
    MAX_REASON_PHRASE_LEN   \* (1024)

Got(v, rest) == [err |-> "none", v |-> v, rest |-> rest]
Encoded(units) == Got(units, <<>>)
Fail(err) == [err |-> err, v |-> <<>>, rest |-> <<>>]
Ok(r) == r.err = "none"

\* `?`: go on with the value and the rest, or give the error up.  Binding the result
\* to the element of a set has TLC evaluate it once.
Then(r, F(_, _)) ==
    CHOOSE out \in {IF Ok(x) THEN F(x.v, x.rest) ELSE x : x \in {r}} : TRUE

\* The pieces one after the other, or the first error among them
Join(pieces) ==
    FoldLeft(LAMBDA so_far, p :
                 Then(so_far, LAMBDA before, r1 :
                 Then(p, LAMBDA units, r2 : Encoded(before \o units))),
             Encoded(<<>>), pieces)

(***************************************************************************)
(* Varints, byte strings, tuples, locations, reason phrases, redirects     *)
(***************************************************************************)

get_vi(s) == IF s = <<>> THEN Fail("NotEnoughBytes") ELSE Got(Head(s), Tail(s))

copy_to_bytes(n, s) ==
    IF Len(s) < n THEN Fail("NotEnoughBytes")
    ELSE Got(SubSeq(s, 1, n), SubSeq(s, n + 1, Len(s)))

length_prefixed(data) == <<Len(data)>> \o data

read_length_prefixed(s) == Then(get_vi(s), LAMBDA n, rest : copy_to_bytes(n, rest))

\* n things in a row, each read by Read
RECURSIVE ReadMany(_, _, _)
ReadMany(n, Read(_), s) ==
    IF n = 0 THEN Got(<<>>, s)
    ELSE Then(Read(s), LAMBDA x, rest :
         Then(ReadMany(n - 1, Read, rest), LAMBDA xs, after : Got(<<x>> \o xs, after)))

SerializeTuple(fields) ==
    <<Len(fields)>> \o FlattenSeq([i \in DOMAIN fields |-> length_prefixed(fields[i])])

DeserializeTuple(s) ==
    Then(get_vi(s), LAMBDA n, rest : ReadMany(n, read_length_prefixed, rest))

SerializeLocation(l) == <<l.group, l.object>>

DeserializeLocation(s) ==
    Then(get_vi(s), LAMBDA g, rest :
    Then(get_vi(rest), LAMBDA o, after : Got([group |-> g, object |-> o], after)))

\* ReasonPhrase::try_new refuses what the reader would refuse
SerializeReason(phrase) ==
    IF Len(phrase) > MAX_REASON_PHRASE_LEN THEN Fail("LengthExceedsMax")
    ELSE Encoded(length_prefixed(phrase))

DeserializeReason(s) ==
    Then(get_vi(s), LAMBDA n, rest :
        IF n > MAX_REASON_PHRASE_LEN THEN Fail("LengthExceedsMax")
        ELSE copy_to_bytes(n, rest))

\* An optional URI: a zero length stands for none, so Some("") is not told apart.
SerializeUri(uri) == IF uri = <<>> THEN <<0>> ELSE length_prefixed(uri[1])

DeserializeUri(s) ==
    Then(read_length_prefixed(s), LAMBDA u, rest :
        Got(IF u = <<>> THEN <<>> ELSE <<u>>, rest))

SerializeRedirect(r) ==
    SerializeUri(r.connect_uri) \o SerializeTuple(r.track_namespace)
        \o length_prefixed(r.track_name)

DeserializeRedirect(s) ==
    Then(DeserializeUri(s), LAMBDA uri, s1 :
    Then(DeserializeTuple(s1), LAMBDA ns, s2 :
    Then(read_length_prefixed(s2), LAMBDA name, s3 :
        Got([connect_uri |-> uri, track_namespace |-> ns, track_name |-> name], s3))))

(***************************************************************************)
(* Key-Value-Pairs: a Type, and a varint when it is even, a byte string    *)
(* when it is odd.  A list is sorted by Type and the Types go out as       *)
(* differences.                                                            *)
(***************************************************************************)

Even(n) == n % 2 = 0

\* sort_by_key is stable: pairs of one Type stay in their order.
SortByType(list) ==
    LET Before(j, i) ==
            list[j].type < list[i].type \/ (list[j].type = list[i].type /\ j < i)
        Place(i) == 1 + Cardinality({j \in DOMAIN list : Before(j, i)})
    IN  [k \in DOMAIN list |-> list[CHOOSE i \in DOMAIN list : Place(i) = k]]

TypeDelta(list, i) == list[i].type - (IF i = 1 THEN 0 ELSE list[i - 1].type)

\* try_new_varint, try_new_bytes: the parity decides which value a Type may have
SerializeValue(kvp) ==
    IF Even(kvp.type) THEN Encoded(<<kvp.value>>)
    ELSE IF Len(kvp.value) > MAX_VALUE_LENGTH THEN Fail("LengthExceedsMax")
    ELSE Encoded(length_prefixed(kvp.value))

serialize_kvp_list(items) ==
    LET sorted == SortByType(items)
        serialize_delta(i) ==
            Join(<<Encoded(<<TypeDelta(sorted, i)>>), SerializeValue(sorted[i])>>)
    IN  Join([i \in DOMAIN sorted |-> serialize_delta(i)])

deserialize_bytes_value(s) ==
    Then(get_vi(s), LAMBDA n, rest :
        IF n > MAX_VALUE_LENGTH THEN Fail("LengthExceedsMax") ELSE copy_to_bytes(n, rest))

\* The next Type of a delta-encoded list; the sum must fit in 64 bits.
ReadType(prev, s) ==
    Then(get_vi(s), LAMBDA delta, rest :
        IF prev + delta > U64_MAX THEN Fail("ProtocolViolation") ELSE Got(prev + delta, rest))

deserialize_delta(prev, s) ==
    Then(ReadType(prev, s), LAMBDA t, rest :
    Then(IF Even(t) THEN get_vi(rest) ELSE deserialize_bytes_value(rest), LAMBDA x, after :
        Got([type |-> t, value |-> x], after)))

RECURSIVE ReadKvps(_, _)
ReadKvps(prev, s) ==
    IF s = <<>> THEN Got(<<>>, <<>>)
    ELSE Then(deserialize_delta(prev, s), LAMBDA kvp, rest :
         Then(ReadKvps(kvp.type, rest), LAMBDA kvps, after : Got(<<kvp>> \o kvps, after)))

deserialize_kvp_list_until_empty(s) == ReadKvps(0, s)

(***************************************************************************)
(* Properties of Tracks and Objects: Key-Value-Pairs some of whose Types   *)
(* are known.  IMMUTABLE_PROPERTIES holds a list of its own.               *)
(***************************************************************************)

ImmutableProperties == 11
DefaultPublisherPriority == 14
DefaultPublisherGroupOrder == 34
DynamicGroups == 48
PriorGroupIdGap == 60
PriorObjectIdGap == 62
\* The Key-Value-Pair of a property
PropertyToKvp(p) ==
    IF p.type # ImmutableProperties THEN Got(p, <<>>)
    ELSE Then(serialize_kvp_list(p.value), LAMBDA u, rest :
              Got([type |-> p.type, value |-> u], <<>>))

serialize_properties(props) ==
    LET kvps == [i \in DOMAIN props |-> PropertyToKvp(props[i])]
        bad == SelectSeq(kvps, LAMBDA k : ~Ok(k))
    IN  IF bad # <<>> THEN bad[1] ELSE serialize_kvp_list([i \in DOMAIN kvps |-> kvps[i].v])

Unnested(kvp) ==
    Then(deserialize_kvp_list_until_empty(kvp.value), LAMBDA inner, rest :
        IF \E i \in DOMAIN inner : inner[i].type = ImmutableProperties
        THEN Fail("ProtocolViolation")
        ELSE Got([type |-> kvp.type, value |-> inner], <<>>))

\* TrackProperty::deserialize: a known Type's value is checked, an unknown one kept
DeserializeTrackProperty(kvp) ==
    CASE kvp.type = ImmutableProperties -> Unnested(kvp)
      [] kvp.type = DefaultPublisherPriority /\ kvp.value > 255 -> Fail("ProtocolViolation")
      [] kvp.type = DefaultPublisherGroupOrder /\ kvp.value \notin {1, 2} ->
             Fail("ProtocolViolation")
      [] kvp.type = DynamicGroups /\ kvp.value \notin {0, 1} -> Fail("ProtocolViolation")
      [] OTHER -> Got(kvp, <<>>)

DeserializeObjectProperty(kvp) ==
    IF kvp.type = ImmutableProperties THEN Unnested(kvp) ELSE Got(kvp, <<>>)

ReadProperties(Deserialize(_), s) ==
    Then(deserialize_kvp_list_until_empty(s), LAMBDA kvps, rest :
        LET props == [i \in DOMAIN kvps |-> Deserialize(kvps[i])]
            bad == SelectSeq(props, LAMBDA p : ~Ok(p))
        IN  IF bad # <<>> THEN bad[1] ELSE Got([i \in DOMAIN props |-> props[i].v], <<>>))

deserialize_track_properties(s) == ReadProperties(DeserializeTrackProperty, s)
deserialize_object_properties(s) == ReadProperties(DeserializeObjectProperty, s)

\* A gap cannot reach back past id 0.
validate_prior_gaps(group, object, props) ==
    \A i \in DOMAIN props :
        /\ props[i].type = PriorGroupIdGap => props[i].value <= group
        /\ props[i].type = PriorObjectIdGap => props[i].value <= object
=============================================================================
