----------------------------- MODULE FetchRange -----------------------------
(***************************************************************************)
(* Ranges of Locations, Location Filters, and what a FETCH response says   *)
(* does not exist (libs/moqtail-rs/src/model/parameter/location_filter.rs, *)
(* model/common/location.rs, and the pure parts of apps/relay/src/server/  *)
(* message_handlers/fetch_handler.rs and track_cache.rs).                  *)
(*                                                                         *)
(* A range of Locations is the set of them.  The Object ids of a group are *)
(* 0..Huge, where Huge stands for u64::MAX: no Object has it, and it names *)
(* the end of a group.                                                     *)
(***************************************************************************)
EXTENDS Integers, Sequences

CONSTANTS
    LastGroup,   \* bound: the groups are 0..LastGroup
    LastObject   \* bound: the Objects of a group are 0..LastObject

Groups == 0..LastGroup
Huge == LastObject + 1
Locations == Groups \X (0..Huge)
NoLocation == <<-1, 0>>

Less(l, m) == l[1] < m[1] \/ (l[1] = m[1] /\ l[2] < m[2])
AtMost(l, m) == l = m \/ Less(l, m)
Later(l, m) == IF Less(l, m) THEN m ELSE l
Earlier(l, m) == IF Less(l, m) THEN l ELSE m

\* The Locations right after and right before one.
next(l) == IF l[2] < Huge THEN <<l[1], l[2] + 1>> ELSE <<l[1] + 1, 0>>
prev(l) == IF l[2] > 0 THEN <<l[1], l[2] - 1>>
           ELSE IF l[1] > 0 THEN <<l[1] - 1, Huge>> ELSE NoLocation

Span(from, to) == {l \in Locations : AtMost(from, l) /\ AtMost(l, to)}

\* The order a response comes in: by Location, or by group from the highest
\* down and by Object within each.
Before(l, m, descending) ==
    IF descending /\ l[1] # m[1] THEN l[1] > m[1] ELSE Less(l, m)

(***************************************************************************)
(* Location Filters                                                        *)
(***************************************************************************)

start_location(f, largest) ==
    CASE f.type = "None" -> NoLocation
      [] f.type = "RelativeStart" ->
            IF largest = NoLocation \/ largest[1] + 1 < f.back
            THEN <<0, 0>> ELSE <<largest[1] + 1 - f.back, 0>>
      [] f.type = "NextObject" ->
            IF largest = NoLocation THEN <<0, 0>> ELSE <<largest[1], largest[2] + 1>>
      [] OTHER -> f.start

end_location(f) ==
    CASE f.type = "AbsoluteStartGroupEnd" -> <<f.end[1], Huge>>
      [] f.type = "AbsoluteRange" -> f.end
      [] OTHER -> NoLocation

NoRange == <<NoLocation, NoLocation>>

\* What a filter selects of what is published: up to the Largest Object.
fetch_range(f, largest) ==
    LET start == Later(start_location(f, largest), <<0, 0>>)
        end == IF end_location(f) # NoLocation /\ Less(end_location(f), largest)
               THEN end_location(f) ELSE largest
    IN  IF largest # NoLocation /\ AtMost(start, end) THEN <<start, end>> ELSE NoRange

\* What is asked for as it stands, of a filter that has both ends.
unresolved_fetch_range(f) ==
    IF end_location(f) = NoLocation THEN NoRange ELSE <<f.start, end_location(f)>>

\* The filter that selects a range.
range_filter(start, end) ==
    IF end[2] = Huge THEN [type |-> "AbsoluteStartGroupEnd", start |-> start, end |-> end]
    ELSE [type |-> "AbsoluteRange", start |-> start, end |-> end]

\* An end of "all of the group" is replaced by the group's last Object: the
\* publisher's End Location, or else the last Object in the cache.
concrete_end_location(end, upstream_end, cached_last) ==
    IF end[2] # Huge THEN end
    ELSE IF upstream_end # NoLocation /\ Less(upstream_end, end) THEN upstream_end
    ELSE IF cached_last >= 0 THEN <<end[1], cached_last>> ELSE end

\* The relay knows the End Location when it has seen Objects that far.
local_state_answers(known, requested_end) ==
    known # NoLocation /\ AtMost(requested_end, known)

\* The groups to claim while learning the End Location; none without an end.
groups_to_claim(f) ==
    IF end_location(f) = NoLocation THEN <<>> ELSE <<f.start[1], end_location(f)[1]>>

(***************************************************************************)
(* Parts of a request                                                      *)
(***************************************************************************)

\* The part of the groups first..last within start..end.
requested_part(first, last, start, end) ==
    <<Later(<<first, 0>>, start), Earlier(<<last, Huge>>, end)>>

\* A descending response across groups carries each group whole.
delivered_start(start, end, descending) ==
    IF descending /\ start[1] # end[1] THEN <<start[1], 0>> ELSE start

\* The last Location of the groups first..last that is delivered.
last_delivered(first, last, start, end, descending) ==
    LET group == IF descending THEN first ELSE last
    IN  requested_part(group, group, start, end)[2]

(***************************************************************************)
(* ResponseAbsences: the Locations a response shows hold no Object         *)
(***************************************************************************)

NewAbsences(start, end, descending) ==
    [start |-> delivered_start(start, end, descending), end |-> end,
     descending |-> descending /\ start[1] # end[1],
     fetch_ok |-> FALSE, last |-> NoLocation]

on_fetch_ok(a, end_location_) ==
    [a EXCEPT !.end = Earlier(end_location_, @), !.fetch_ok = TRUE]

clip(a, locations) == locations \cap Span(a.start, a.end)

group_end(a, group) == IF group = a.end[1] THEN a.end[2] ELSE Huge

\* What is left of the group of the last entry.
rest_of_last(a) == Span(next(a.last), <<a.last[1], group_end(a, a.last[1])>>)

\* The Locations passed over between the last entry and the next one.
between(a, to) ==
    LET head_of_to == Span(<<to[1], 0>>, prev(to))
    IN  clip(a,
          CASE ~a.descending ->
                 Span(IF a.last = NoLocation THEN a.start ELSE next(a.last), prev(to))
            [] a.descending /\ a.last = NoLocation ->
                 Span(<<to[1] + 1, 0>>, a.end) \cup head_of_to
            [] a.descending /\ a.last # NoLocation /\ a.last[1] = to[1] ->
                 Span(next(a.last), prev(to))
            [] OTHER ->
                 rest_of_last(a) \cup Span(<<to[1] + 1, 0>>, <<a.last[1] - 1, Huge>>) \cup head_of_to)

\* An Object, and a marker: the state after it, and what it shows absent.
on_object(a, l) == [state |-> [a EXCEPT !.last = l], absent |-> between(a, l)]

on_marker(a, kind, l) ==
    [state |-> [a EXCEPT !.last = l],
     absent |-> IF kind = "nonexistent" THEN between(a, l) \cup clip(a, {l}) ELSE {}]

\* Mutant: a response that broke off counts as whole.
on_any_end(a, closed_cleanly) ==
    clip(a, IF a.last = NoLocation THEN Span(a.start, a.end) ELSE Span(next(a.last), a.end))

\* The Locations after the last entry, once the response is over.
on_end(a, closed_cleanly) ==
    IF ~(closed_cleanly /\ a.fetch_ok) THEN {}
    ELSE clip(a,
           CASE a.last = NoLocation -> Span(a.start, a.end)
             [] a.last # NoLocation /\ ~a.descending -> Span(next(a.last), a.end)
             [] OTHER ->
                  rest_of_last(a) \cup Span(a.start, <<a.last[1] - 1, Huge>>))
=============================================================================
