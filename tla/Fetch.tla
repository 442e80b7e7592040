-------------------------------- MODULE Fetch --------------------------------
(***************************************************************************)
(* How the relay answers FETCHes on one track: the range it promises in    *)
(* FETCH_OK, the Objects it takes from its cache and from the publisher,   *)
(* and what it learns about Locations that hold none (apps/relay/src/      *)
(* server/message_handlers/fetch_handler.rs, track_cache.rs, fill.rs, and  *)
(* the parts of track.rs and session.rs that feed the cache).              *)
(*                                                                         *)
(* Several FETCHes run at once and share the cache.  A FETCH that has to   *)
(* ask the publisher claims the groups it asks for; another one that wants *)
(* some of them waits for it first.  Meanwhile the live feed fills the     *)
(* cache, groups are evicted from it, and upstream answers come late, in   *)
(* part or not at all.                                                     *)
(***************************************************************************)
EXTENDS FetchRange, FiniteSets, SequencesExt

CONSTANTS
    Fetches,    \* the FETCHes and fills
    Settings    \* one choice per behaviour:
                \*   exists    the Locations of all Objects the track ever has
                \*   filters   the Location Filter of each FETCH
                \*   down      the FETCHes with Group Order Descending
                \*   refused   those that ask for what they may not
                \*   fills     those that fill a subscription: no FETCH_OK
                \*   live      whether the relay also gets the live feed
                \*   tells     what live Objects say besides: "ends" (a datagram's
                \*             End of Group bit), "gaps" (Prior Object and Group
                \*             ID Gap), "statuses" (End of Group, End of Track)
                \*   unknown   the Objects the publisher does not know about
                \*   markers   the Locations it marks as holding none
                \*   blocked   the Locations the Range Filters drop
                \*   gaps      max_upstream_fetch_gaps
                \*   faults    "abort", "refuse", "timeout", "malformed",
                \*             "evict", "cancel", "behind"

ASSUME FetchAssumption ==
    /\ {LastGroup, LastObject} \subseteq Nat
    /\ \A c \in Settings :
        /\ c.exists \subseteq Groups \X (0..LastObject)
        /\ c.unknown \subseteq c.exists
        /\ c.markers \cap c.exists = {}
        /\ c.down \cup c.fills \cup c.refused \subseteq Fetches

VARIABLES
    setting,   \* one of Settings
    largest,   \* the publisher's Largest Object
    known,     \* the relay's Largest Location
    cache,     \* the Locations whose Objects are in the cache
    absent,    \* the Locations the cache knows to hold none
    claims,    \* claims[f]: the groups f has claimed, <<first, last>>, or <<>>
    waits,     \* waits[f]: the FETCH whose claim f waits for
    req,       \* what the task serving a FETCH knows (since: what was
               \* published when the FETCH came, for the properties)
    up,        \* its upstream FETCH, as the publisher sees it
    cancel,    \* the stop signal sent to it
    out        \* what the subscriber got: FETCH_OK, entries, how it closed

vars == <<setting, largest, known, cache, absent, claims, waits, req, up, cancel, out>>

NoFetch == "none"
Down(f) == f \in setting.down
May(fault) == fault \in setting.faults

NoUpstream == [state |-> "none", filter |-> [type |-> "None"], todo |-> <<>>,
               accepted |-> FALSE, end |-> NoLocation]
NewRequest == [pc |-> "new", since |-> NoLocation, largest |-> NoLocation, pending |-> FALSE,
               upstream_end |-> NoLocation, rejected |-> FALSE,
               start |-> NoLocation, end |-> NoLocation, group |-> -1,
               waited |-> -1, gaps |-> 0, gap |-> <<0, 0>>,
               absences |-> NewAbsences(NoLocation, NoLocation, FALSE)]

Init ==
    /\ setting \in Settings
    /\ largest = NoLocation
    /\ known = NoLocation
    /\ cache = {}
    /\ absent = {}
    /\ claims = [f \in Fetches |-> <<>>]
    /\ waits = [f \in Fetches |-> NoFetch]
    /\ req = [f \in Fetches |-> NewRequest]
    /\ up = [f \in Fetches |-> NoUpstream]
    /\ cancel = [f \in Fetches |-> "Running"]
    /\ out = [f \in Fetches |-> [ok |-> NoLocation, entries |-> <<>>, stream |-> "none"]]

(***************************************************************************)
(* The publisher and the live feed                                         *)
(***************************************************************************)

\* Nothing of the group comes after its last Object.
group_ended_after(l) == Span(next(l), <<l[1], Huge>>)

\* Mutant: the Object that tells of a gap is counted with it.
note_absent_inclusive(o) ==
    IF o.objects \in 1..o.loc[2] THEN Span(<<o.loc[1], o.loc[2] - o.objects>>, o.loc) ELSE {}

\* What a live Object says does not exist.
note_absent(o) ==
    LET group == o.loc[1]
        id == o.loc[2]
    IN  UNION {
          CASE o.status = "EndOfGroup" -> Span(o.loc, <<group, Huge>>)
            [] o.status = "EndOfTrack" -> Span(o.loc, <<LastGroup, Huge>>)
            [] o.status = "Normal" -> {},
          IF o.ends THEN group_ended_after(o.loc) ELSE {},
          IF o.objects \in 1..id THEN Span(<<group, id - o.objects>>, <<group, id - 1>>) ELSE {},
          IF o.groups \in 1..group
          THEN Span(<<group - o.groups, 0>>, <<group - 1, Huge>>) ELSE {}}

IfTold(what, said, otherwise) == IF what \in setting.tells THEN said ELSE otherwise

\* The publisher tells no lies.
Truthful(o) ==
    \A m \in setting.exists :
        /\ o.status = "EndOfGroup" => m[1] # o.loc[1] \/ Less(m, o.loc)
        /\ o.status = "EndOfTrack" => Less(m, o.loc)
        /\ o.ends => m[1] # o.loc[1] \/ AtMost(m, o.loc)
        /\ \A k \in 1..o.objects : m # <<o.loc[1], o.loc[2] - k>>
        /\ \A k \in 1..o.groups : m[1] # o.loc[1] - k

\* A live Object as it may arrive at l: its status, whether it ends its group,
\* and the gaps before it.
LiveObjects(l) ==
    {o \in [loc : {l},
            status : IF l \in setting.exists THEN {"Normal"}
                     ELSE IfTold("statuses", {"EndOfGroup", "EndOfTrack"}, {}),
            ends : IfTold("ends", BOOLEAN, {FALSE}),
            objects : IfTold("gaps", 0..l[2], {0}),
            groups : IfTold("gaps", 0..l[1], {0})] : Truthful(o)}

\* The publisher publishes in order, and after the Objects before it an Object that
\* is a status.  The live feed puts an Object in the cache, of a status only what
\* it says, and moves the Largest Location on.
Publish(l) ==
    /\ \A m \in setting.exists : Less(m, l) => AtMost(m, largest)
    /\ IF l \in setting.exists THEN Less(largest, l) /\ largest' = l
       ELSE setting.live /\ UNCHANGED largest
    /\ IF setting.live
       THEN \E o \in LiveObjects(l) :
              /\ cache' = IF o.status = "Normal" THEN cache \cup {l} ELSE cache
              /\ absent' = absent \cup note_absent(o)
              /\ known' = Later(known, l)
       ELSE UNCHANGED <<cache, absent, known>>
    /\ UNCHANGED <<setting, claims, waits, req, up, cancel, out>>

\* A subgroup stream that holds the end of its group closes with a FIN.
GroupEnds(l) ==
    /\ setting.live
    /\ l \in setting.exists
    /\ AtMost(l, largest)
    /\ \A m \in setting.exists : m[1] = l[1] => AtMost(m, l)
    /\ absent' = absent \cup group_ended_after(l)
    /\ UNCHANGED <<setting, largest, known, cache, claims, waits, req, up, cancel, out>>

\* A group expires, or is pushed out of a full cache.
Evict(g) ==
    /\ May("evict")
    /\ cache' = {l \in cache : l[1] # g}
    /\ UNCHANGED <<setting, largest, known, absent, claims, waits, req, up, cancel, out>>

\* The publisher's answer to an upstream FETCH: the Objects of the range in the
\* order asked for, markers among them, and FETCH_OK with the End Location.
Response(range, down) ==
    LET start == delivered_start(range[1], range[2], down)
        said == (setting.exists \cup setting.markers) \cap Span(start, range[2])
        Entry(l) == [loc |-> l, kind |-> IF l \in setting.markers THEN "nonexistent"
                                         ELSE IF l \in setting.unknown THEN "unknown"
                                         ELSE "object"]
        order == SetToSortSeq(said, LAMBDA l, m : Before(l, m, down))
    IN  [i \in DOMAIN order |-> Entry(order[i])]

\* A publisher that is "behind" answers by a Largest Object of its own.
Answer(f) ==
    \E own \in {largest} \cup (IF May("behind") THEN setting.exists ELSE {}) :
    LET range == fetch_range(up[f].filter, own)
    IN  /\ up[f].state = "asked"
        /\ AtMost(own, largest)
        /\ up' = [up EXCEPT ![f] =
                IF range = NoRange THEN [@ EXCEPT !.state = "refused"]
                ELSE [@ EXCEPT !.state = "open", !.accepted = TRUE, !.end = range[2],
                               !.todo = Response(range, Down(f))]]
        /\ UNCHANGED <<setting, largest, known, cache, absent, claims, waits, req, cancel, out>>

Refuse(f) ==
    /\ May("refuse")
    /\ up[f].state = "asked"
    /\ up' = [up EXCEPT ![f].state = "refused"]
    /\ UNCHANGED <<setting, largest, known, cache, absent, claims, waits, req, cancel, out>>

\* The data stream ends without a FIN: what was not read yet is lost.
Abort(f) ==
    /\ May("abort")
    /\ up[f].state = "open"
    /\ up' = [up EXCEPT ![f].state = "aborted", ![f].todo = <<>>]
    /\ UNCHANGED <<setting, largest, known, cache, absent, claims, waits, req, cancel, out>>

(***************************************************************************)
(* Claims                                                                  *)
(***************************************************************************)

\* The FETCHes whose fills touch groups first..last.
Busy(first, last) ==
    {f \in Fetches : claims[f] # <<>> /\ claims[f][1] <= last /\ first <= claims[f][2]}

\* Mutant: the waiters are not woken.
ReleaseSilently(f) == claims' = [claims EXCEPT ![f] = <<>>] /\ UNCHANGED waits

\* A claim is dropped: whoever waits for it goes on.
Release(f) ==
    /\ claims' = [claims EXCEPT ![f] = <<>>]
    /\ waits' = [g \in Fetches |-> IF waits[g] = f THEN NoFetch ELSE waits[g]]

\* The upstream FETCH is registered and sent; its reader forgets it when done.
Asked(filter) == [NoUpstream EXCEPT !.state = "asked", !.filter = filter]

forget_upstream_fetch(f) == up' = [up EXCEPT ![f] = NoUpstream]

(***************************************************************************)
(* Before FETCH_OK: the range                                              *)
(***************************************************************************)

Goes(f, r) == req' = [req EXCEPT ![f] = r]

\* A reserved namespace, a Range Filter that cannot be honoured, an end before
\* the start, or a track that neither exists nor has a publisher.
RefuseAtOnce(f) ==
    /\ req[f].pc = "new"
    /\ f \in setting.refused
    /\ Goes(f, [req[f] EXCEPT !.pc = "ended"])
    /\ UNCHANGED <<setting, largest, known, cache, absent, claims, waits, up, cancel, out>>

\* Whether this FETCH has to ask the publisher where it ends, and with which
\* claim.  Another FETCH already asking about these groups is waited for once.
handle(f) ==
    LET filter == setting.filters[f]
        local == end_location(filter) # NoLocation
                 /\ local_state_answers(known, end_location(filter))
        r == [req[f] EXCEPT !.largest = known, !.since = largest]
        groups == groups_to_claim(filter)
    IN  /\ req[f].pc = "new"
        /\ f \notin setting.fills \cup setting.refused
        /\ IF local THEN Goes(f, [r EXCEPT !.pc = "resolve"]) /\ UNCHANGED <<claims, waits>>
           ELSE IF groups = <<>> THEN Goes(f, [r EXCEPT !.pc = "ask"]) /\ UNCHANGED <<claims, waits>>
           ELSE IF Busy(groups[1], groups[2]) = {}
                THEN /\ claims' = [claims EXCEPT ![f] = groups]
                     /\ Goes(f, [r EXCEPT !.pc = "ask"])
                     /\ UNCHANGED waits
                ELSE \E g \in Busy(groups[1], groups[2]) :
                        /\ waits' = [waits EXCEPT ![f] = g]
                        /\ Goes(f, [r EXCEPT !.pc = "wait"])
                        /\ UNCHANGED claims
        /\ UNCHANGED <<setting, largest, known, cache, absent, up, cancel, out>>

\* The other FETCH is done, or was waited for long enough.
Waited(f) ==
    LET filter == setting.filters[f]
        groups == groups_to_claim(filter)
        local == local_state_answers(known, end_location(filter))
    IN  /\ req[f].pc = "wait"
        /\ waits[f] = NoFetch \/ May("timeout")
        /\ waits' = [waits EXCEPT ![f] = NoFetch]
        /\ claims' = [claims EXCEPT ![f] =
              IF Busy(groups[1], groups[2]) = {} THEN groups ELSE <<>>]
        /\ Goes(f, [req[f] EXCEPT !.largest = known, !.pc = IF local THEN "resolve" ELSE "ask"])
        /\ UNCHANGED <<setting, largest, known, cache, absent, up, cancel, out>>

\* The FETCH goes upstream with its filter unchanged.
AskRange(f) ==
    /\ req[f].pc = "ask"
    /\ up' = [up EXCEPT ![f] = Asked(setting.filters[f])]
    /\ Goes(f, [req[f] EXCEPT !.pc = "answer"])
    /\ UNCHANGED <<setting, largest, known, cache, absent, claims, waits, cancel, out>>

\* resolve_range_upstream: FETCH_OK, a refusal, or no answer in time, which is
\* what a redirect counts as.
RangeAnswered(f) ==
    /\ req[f].pc = "answer"
    /\ \/ /\ up[f].state \in {"open", "aborted"}
          /\ Goes(f, [req[f] EXCEPT !.pc = "resolve", !.pending = TRUE,
                                    !.upstream_end = up[f].end,
                                    !.largest = Later(@, up[f].end)])
          /\ UNCHANGED up
       \/ \E redirect \in {FALSE, May("refuse")} :
          /\ up[f].state = "refused" \/ May("timeout")
          /\ Goes(f, [req[f] EXCEPT !.pc = "resolve",
                                    !.rejected = (up[f].state = "refused" /\ ~redirect)])
          /\ forget_upstream_fetch(f)
    /\ UNCHANGED <<setting, largest, known, cache, absent, claims, waits, cancel, out>>

cached_last(g) ==
    LET held == {l[2] : l \in {m \in cache : m[1] = g}}
    IN  IF held = {} THEN -1 ELSE CHOOSE o \in held : \A p \in held : p <= o

\* What is served: the range as resolved; as asked for, when nobody could say
\* and a publisher is there; or nothing, with an error.
ServedRange(f) ==
    LET r == req[f]
        filter == setting.filters[f]
        range == fetch_range(filter, r.largest)
        last == IF range[2][2] = Huge /\ r.upstream_end = NoLocation
                THEN cached_last(range[2][1]) ELSE -1
    IN  IF range # NoRange
        THEN <<range[1], concrete_end_location(range[2], r.upstream_end, last)>>
        ELSE IF r.rejected THEN NoRange ELSE unresolved_fetch_range(filter)

\* Where a delivery of a range begins.
Delivers(f, r, range) ==
    LET start == delivered_start(range[1], range[2], Down(f))
    IN  [r EXCEPT !.pc = "serve", !.start = start, !.end = range[2],
                  !.group = IF Down(f) THEN range[2][1] ELSE start[1]]

\* FETCH_OK, or an error, on the request stream.  A claim is kept only while an
\* upstream FETCH is pending.
Resolve(f) ==
    LET r == req[f]
        range == ServedRange(f)
        fails == range = NoRange \/ cancel[f] = "MalformedTrack"
    IN  /\ r.pc = "resolve"
        /\ IF fails \/ ~r.pending THEN Release(f) ELSE UNCHANGED <<claims, waits>>
        /\ IF fails
           THEN /\ Goes(f, [r EXCEPT !.pc = "ended"])
                /\ forget_upstream_fetch(f)
                /\ UNCHANGED out
           ELSE /\ Goes(f, Delivers(f, r, range))
                /\ out' = [out EXCEPT ![f].ok = range[2]]
                /\ UNCHANGED up
        /\ UNCHANGED <<setting, largest, known, cache, absent, cancel>>

\* A fill starts from the relay's own Largest Object and never asks first.
open_fill_fetch_stream(f) ==
    LET range == fetch_range(setting.filters[f], known)
    IN  /\ req[f].pc = "new"
        /\ f \in setting.fills
        /\ Goes(f, IF range = NoRange THEN [req[f] EXCEPT !.pc = "ended"]
                   ELSE Delivers(f, req[f], range))
        /\ UNCHANGED <<setting, largest, known, cache, absent, claims, waits, up, cancel, out>>

(***************************************************************************)
(* serve_fetch_stream                                                      *)
(***************************************************************************)

NextAfter(f, lo, hi) ==
    IF Down(f) THEN (IF lo > req[f].start[1] THEN lo - 1 ELSE -1)
    ELSE (IF hi < req[f].end[1] THEN hi + 1 ELSE -1)

Wanted(f, g) ==
    LET part == requested_part(g, g, req[f].start, req[f].end)
    IN  Span(part[1], part[2])

\* Mutant: a group the cache holds some of is served as it is.
objects_if_any(f, g) == \E l \in cache : l[1] = g

\* Every Location wanted holds an Object the cache has or is known to hold none.
objects_if_complete(f, g) == Wanted(f, g) \subseteq cache \cup absent

Passing(locations) ==
    LET order == SetToSortSeq(locations \ setting.blocked, Less)
    IN  [i \in DOMAIN order |-> [loc |-> order[i], kind |-> "object"]]

unfilled(f, gap) ==
    [kind |-> "unknown",
     loc |-> last_delivered(gap[1], gap[2], req[f].start, req[f].end, Down(f))]

\* Writing the first entry opens the stream.
Written(f, entries) ==
    [out EXCEPT ![f].entries = @ \o entries,
                ![f].stream = IF entries = <<>> THEN @ ELSE "open"]

Serving(f) == req[f].pc = "serve" /\ req[f].group >= 0 /\ cancel[f] = "Running"

\* Mutant: serves from the cache what the pending upstream FETCH brings as well.
ServeFromCacheToo(f) ==
    LET g == req[f].group
    IN  /\ Serving(f)
        /\ objects_if_complete(f, g)
        /\ out' = Written(f, Passing(Wanted(f, g) \cap cache))
        /\ Goes(f, [req[f] EXCEPT !.group = NextAfter(f, g, g)])
        /\ UNCHANGED <<setting, largest, known, cache, absent, claims, waits, up, cancel>>

ServeFromCache(f) ==
    LET g == req[f].group
    IN  /\ Serving(f)
        /\ ~req[f].pending
        /\ objects_if_complete(f, g)
        /\ out' = Written(f, Passing(Wanted(f, g) \cap cache))
        /\ Goes(f, [req[f] EXCEPT !.group = NextAfter(f, g, g)])
        /\ UNCHANGED <<setting, largest, known, cache, absent, claims, waits, up, cancel>>

\* The groups from the next one on, in the direction of delivery, that the
\* cache does not account for.
Gap(f) ==
    LET g == req[f].group
        missing == {h \in Groups : ~objects_if_complete(f, h)}
        ends == IF Down(f)
                THEN {h \in req[f].start[1]..g : h..g \subseteq missing \cup {g}}
                ELSE {h \in g..req[f].end[1] : g..h \subseteq missing \cup {g}}
    IN  IF Down(f) THEN <<CHOOSE h \in ends : \A i \in ends : h <= i, g>>
        ELSE <<g, CHOOSE h \in ends : \A i \in ends : i <= h>>

\* Another FETCH fills some of the gap: it is waited for, once per group.
WaitForFill(f) ==
    LET gap == Gap(f)
    IN  /\ Serving(f)
        /\ ~req[f].pending
        /\ ~objects_if_complete(f, req[f].group)
        /\ req[f].waited # req[f].group
        /\ \E g \in Busy(gap[1], gap[2]) : waits' = [waits EXCEPT ![f] = g]
        /\ Goes(f, [req[f] EXCEPT !.waited = req[f].group, !.pc = "waitFill"])
        /\ UNCHANGED <<setting, largest, known, cache, absent, claims, up, cancel, out>>

FillAwaited(f) ==
    /\ req[f].pc = "waitFill"
    /\ waits[f] = NoFetch \/ May("timeout") \/ cancel[f] # "Running"
    /\ waits' = [waits EXCEPT ![f] = NoFetch]
    /\ Goes(f, [req[f] EXCEPT !.pc = "serve"])
    /\ UNCHANGED <<setting, largest, known, cache, absent, claims, up, cancel, out>>

\* Too many gaps already: the gap is marked unknown.
SkipGap(f) ==
    LET gap == Gap(f)
    IN  /\ Serving(f)
        /\ req[f].pending \/ ~objects_if_complete(f, req[f].group)
        /\ req[f].pending \/ Busy(gap[1], gap[2]) = {} \/ req[f].waited = req[f].group
        /\ req[f].gaps >= setting.gaps
        /\ out' = Written(f, <<unfilled(f, gap)>>)
        /\ Goes(f, [req[f] EXCEPT !.group = NextAfter(f, gap[1], gap[2])])
        /\ UNCHANGED <<setting, largest, known, cache, absent, claims, waits, up, cancel>>

\* The fetch that learned the End Location covers the rest of the range.
UsePending(f) ==
    LET r == req[f]
    IN  /\ Serving(f)
        /\ r.pending
        /\ r.gaps < setting.gaps
        /\ Goes(f, [r EXCEPT !.pc = "fill", !.pending = FALSE, !.gaps = @ + 1,
                             !.gap = <<r.start[1], r.end[1]>>,
                             !.absences = NewAbsences(r.start, r.end, Down(f))])
        /\ UNCHANGED <<setting, largest, known, cache, absent, claims, waits, up, cancel, out>>

FetchGap(f) ==
    LET r == req[f]
        gap == Gap(f)
        part == requested_part(gap[1], gap[2], r.start, r.end)
    IN  /\ Serving(f)
        /\ ~r.pending
        /\ ~objects_if_complete(f, r.group)
        /\ Busy(gap[1], gap[2]) = {} \/ r.waited = r.group
        /\ r.gaps < setting.gaps
        /\ claims' = [claims EXCEPT ![f] =
              IF Busy(gap[1], gap[2]) = {} THEN gap ELSE <<>>]
        /\ up' = [up EXCEPT ![f] = Asked(range_filter(part[1], part[2]))]
        /\ Goes(f, [r EXCEPT !.pc = "fill", !.gaps = @ + 1, !.gap = gap,
                             !.absences = NewAbsences(part[1], part[2], Down(f))])
        /\ UNCHANGED <<setting, largest, known, cache, absent, waits, cancel, out>>

(***************************************************************************)
(* Reading the upstream response                                           *)
(***************************************************************************)

\* FETCH_OK comes on the request stream, so at any time among the entries.
TakeAccepted(f) ==
    /\ req[f].pc = "fill"
    /\ up[f].accepted
    /\ up' = [up EXCEPT ![f].accepted = FALSE]
    /\ Goes(f, [req[f] EXCEPT !.absences = on_fetch_ok(@, up[f].end)])
    /\ UNCHANGED <<setting, largest, known, cache, absent, claims, waits, cancel, out>>

TakeObject(f) ==
    LET e == Head(up[f].todo)
        noted == on_object(req[f].absences, e.loc)
    IN  /\ req[f].pc = "fill"
        /\ up[f].todo # <<>>
        /\ e.kind = "object"
        /\ up' = [up EXCEPT ![f].todo = Tail(@)]
        /\ cache' = cache \cup {e.loc}
        /\ known' = Later(known, e.loc)
        /\ absent' = absent \cup noted.absent
        /\ Goes(f, [req[f] EXCEPT !.absences = noted.state])
        /\ out' = IF e.loc \in setting.blocked THEN out ELSE Written(f, <<e>>)
        /\ UNCHANGED <<setting, largest, claims, waits, cancel>>

TakeMarker(f) ==
    LET e == Head(up[f].todo)
        noted == on_marker(req[f].absences, e.kind, e.loc)
    IN  /\ req[f].pc = "fill"
        /\ up[f].todo # <<>>
        /\ e.kind # "object"
        /\ up' = [up EXCEPT ![f].todo = Tail(@)]
        /\ absent' = absent \cup noted.absent
        /\ Goes(f, [req[f] EXCEPT !.absences = noted.state])
        /\ out' = Written(f, <<e>>)
        /\ UNCHANGED <<setting, largest, known, cache, claims, waits, cancel>>

\* The response is over.  Unless it was whole, what it did not bring is marked
\* unknown; if it was, what follows its last entry does not exist.
FinishFill(f, clean) ==
    LET r == req[f]
        whole == \/ clean /\ r.absences.fetch_ok
                 \/ r.absences.last = unfilled(f, r.gap).loc
    IN  /\ Goes(f, [r EXCEPT !.pc = "serve", !.group = NextAfter(f, r.gap[1], r.gap[2])])
        /\ out' = IF cancel[f] = "Running" /\ ~whole THEN Written(f, <<unfilled(f, r.gap)>>) ELSE out
        /\ absent' = absent \cup on_end(r.absences, clean)
        /\ forget_upstream_fetch(f)
        /\ Release(f)
        /\ UNCHANGED <<setting, largest, known, cache, cancel>>

TakeEnd(f) ==
    /\ req[f].pc = "fill"
    /\ up[f].state = "open"
    /\ up[f].todo = <<>>
    /\ FinishFill(f, TRUE)

\* An error, a timeout, or the stop signal ends the reading as well.
StopReading(f) ==
    /\ req[f].pc = "fill"
    /\ up[f].state \in {"refused", "aborted"} \/ May("timeout") \/ cancel[f] # "Running"
    /\ FinishFill(f, FALSE)

\* A malformed response ends every FETCH of the track.  Later ones find it gone.
TakeMalformed(f) ==
    /\ May("malformed")
    /\ req[f].pc = "fill"
    /\ up[f].state = "open"
    /\ \A g \in Fetches : req[g].pc # "new"
    /\ cancel' = [g \in Fetches |-> IF req[g].pc = "ended" \/ g \in setting.fills \ {f}
                                    THEN cancel[g] ELSE "MalformedTrack"]
    /\ Goes(f, [req[f] EXCEPT !.pc = "serve"])
    /\ forget_upstream_fetch(f)
    /\ Release(f)
    /\ UNCHANGED <<setting, largest, known, cache, absent, out>>

\* The subscriber gives up a FETCH, or sends a REQUEST_UPDATE for it.
Cancel(f) ==
    /\ May("cancel")
    /\ req[f].pc \in {"serve", "waitFill", "fill"}
    /\ cancel[f] = "Running"
    /\ \E why \in {"Cancelled", "UpdateFailed"} : cancel' = [cancel EXCEPT ![f] = why]
    /\ UNCHANGED <<setting, largest, known, cache, absent, claims, waits, req, up, out>>

\* The range is delivered, or the delivery stopped.  A range that came out empty
\* still opens a stream, and so does the news that the track is malformed.
EndStream(f) ==
    LET stopped == cancel[f] # "Running"
        opened == out[f].stream = "open" \/ ~stopped \/ cancel[f] = "MalformedTrack"
    IN  /\ req[f].pc = "serve"
        /\ req[f].group < 0 \/ stopped
        /\ out' = [out EXCEPT ![f].stream =
              IF ~opened THEN "none"
              ELSE IF cancel[f] \in {"UpdateFailed", "MalformedTrack"} THEN "reset" ELSE "fin"]
        /\ Goes(f, [req[f] EXCEPT !.pc = "ended"])
        /\ forget_upstream_fetch(f)
        /\ Release(f)
        /\ UNCHANGED <<setting, largest, known, cache, absent, cancel>>

(***************************************************************************)
(* The specification                                                       *)
(***************************************************************************)

Task(f) ==
    \/ RefuseAtOnce(f) \/ handle(f) \/ Waited(f) \/ AskRange(f) \/ RangeAnswered(f) \/ Resolve(f)
    \/ open_fill_fetch_stream(f)
    \/ ServeFromCache(f) \/ WaitForFill(f) \/ FillAwaited(f) \/ SkipGap(f)
    \/ UsePending(f) \/ FetchGap(f)
    \/ TakeAccepted(f) \/ TakeObject(f) \/ TakeMarker(f) \/ TakeEnd(f) \/ StopReading(f)
    \/ EndStream(f)

Peers ==
    \/ \E l \in Groups \X (0..LastObject) : Publish(l) \/ GroupEnds(l)
    \/ \E g \in Groups : Evict(g)
    \/ \E f \in Fetches : Answer(f) \/ Refuse(f) \/ Abort(f) \/ TakeMalformed(f) \/ Cancel(f)

Next == (\E f \in Fetches : Task(f)) \/ Peers

Spec == Init /\ [][Next]_vars

(***************************************************************************)
(* Properties                                                              *)
(***************************************************************************)

\* "That an Object does not exist never changes": no Object, published already
\* or later, is at a Location the cache holds for absent, whichever way it learned
\* of it: a FETCH response and its End Location, End of Range markers, statuses,
\* ends of groups and ID gaps.
AbsentIsTrue == absent \cap setting.exists = {}

\* The Locations an unknown marker covers: those since the entry before it.
Unknown(f) ==
    LET e == out[f].entries
        Marks(i, l) ==
            /\ e[i].kind = "unknown"
            /\ l = e[i].loc \/ Before(l, e[i].loc, Down(f))
            /\ i > 1 => Before(e[i - 1].loc, l, Down(f))
    IN  {l \in Locations : \E i \in DOMAIN e : Marks(i, l)}

Delivered(f) == {out[f].entries[i].loc : i \in {j \in DOMAIN out[f].entries :
                    out[f].entries[j].kind = "object"}}

\* "left unmarked, the subscriber would take it for Objects that do not exist":
\* of the range a stream closed with a FIN was for, every Object was delivered,
\* filtered out, or is covered by a marker.
NoObjectDenied ==
    \A f \in Fetches : out[f].stream = "fin" /\ cancel[f] = "Running" =>
        setting.exists \cap Span(req[f].start, req[f].end)
            \subseteq Delivered(f) \cup Unknown(f) \cup setting.blocked

\* "The delta encoding of each Object against the one before it depends on that
\* order", and nothing is delivered twice: the entries of a stream follow the
\* Group Order, within the range.
InOrder ==
    \A f \in Fetches :
        LET e == out[f].entries
        IN  /\ \A i \in 1..(Len(e) - 1) : Before(e[i].loc, e[i + 1].loc, Down(f))
            /\ \A i \in DOMAIN e : e[i].loc \in Span(req[f].start, req[f].end)

\* "a relay must withhold FETCH_OK until it knows rather than answer early and
\* short": no Object that was asked for, and published when the FETCH came, lies
\* past the End Location.
EndNotShort ==
    \A f \in Fetches : out[f].ok # NoLocation =>
        LET asked == fetch_range(setting.filters[f], req[f].since)
        IN  \A l \in setting.exists \cap Span(asked[1], asked[2]) :
                AtMost(l, out[f].ok)

\* Waiting for another FETCH's fill never becomes waiting for each other, nor
\* for a fill that is over: who is waited for holds a claim and waits for nobody.
WaitedForIsAtWork ==
    \A f \in Fetches : waits[f] # NoFetch =>
        claims[waits[f]] # <<>> /\ waits[waits[f]] = NoFetch
=============================================================================
