---------------------------- MODULE Fetch_proofs ----------------------------
(***************************************************************************)
(* For any number of FETCHes, groups and Objects: a FETCH that waits for   *)
(* the fill of another waits for one at work.                              *)
(***************************************************************************)
EXTENDS Fetch, TLAPS

\* Where a FETCH may hold a claim, and where it may wait for another's.
Claiming == {"ask", "answer", "resolve", "fill"}
Awaiting == {"wait", "waitFill"}

\* What makes WaitedForIsAtWork inductive.  A claim is held only from the question
\* upstream to the end of its answer, in no step of which the task waits; and who waits,
\* waits for a claim that is held.
ClaimsHeld ==
    /\ claims = [f \in Fetches |-> claims[f]]
    /\ waits \in [Fetches -> Fetches \cup {NoFetch}]
    /\ req = [f \in Fetches |-> req[f]]
    /\ \A f \in Fetches : {"pc", "pending"} \subseteq DOMAIN req[f]
    /\ \A f \in Fetches : waits[f] # NoFetch =>
            req[f].pc \in Awaiting /\ claims[waits[f]] # <<>>
    /\ \A f \in Fetches : claims[f] # <<>> =>
            req[f].pc \in Claiming \/ (req[f].pc = "serve" /\ req[f].pending)

\* A FETCH goes on, and no claim or wait changes.
LEMMA GoesOn ==
    ASSUME ClaimsHeld, NEW f \in Fetches, NEW r, Goes(f, r),
           {"pc", "pending"} \subseteq DOMAIN r,
           UNCHANGED <<claims, waits>>,
           claims[f] # <<>> => r.pc \in Claiming \/ (r.pc = "serve" /\ r.pending),
           waits[f] # NoFetch => r.pc \in Awaiting
    PROVE  ClaimsHeld'
  <1>1. /\ req' = [g \in Fetches |-> req'[g]]
        /\ req'[f] = r
        /\ \A g \in Fetches : g # f => req'[g] = req[g]
    BY DEF ClaimsHeld, Goes
  <1>2. ASSUME NEW g \in Fetches PROVE {"pc", "pending"} \subseteq DOMAIN req'[g]
    BY <1>1 DEF ClaimsHeld
  <1>3. ASSUME NEW g \in Fetches, waits'[g] # NoFetch
        PROVE  req'[g].pc \in Awaiting /\ claims'[waits'[g]] # <<>>
    BY <1>1, <1>3, ZenonT(60) DEF ClaimsHeld
  <1>4. ASSUME NEW g \in Fetches, claims'[g] # <<>>
        PROVE  req'[g].pc \in Claiming \/ (req'[g].pc = "serve" /\ req'[g].pending)
    BY <1>1, <1>4 DEF ClaimsHeld
  <1> QED
    BY <1>1, <1>2, <1>3, <1>4, Zenon DEF ClaimsHeld

\* A FETCH that waits for nobody drops its claim: it may go anywhere.
LEMMA Releases ==
    ASSUME ClaimsHeld, NEW f \in Fetches, NEW r, Goes(f, r),
           {"pc", "pending"} \subseteq DOMAIN r,
           waits[f] = NoFetch,
           Release(f)
    PROVE  ClaimsHeld'
  <1>1. /\ req' = [g \in Fetches |-> req'[g]]
        /\ req'[f] = r
        /\ \A g \in Fetches : g # f => req'[g] = req[g]
    BY DEF ClaimsHeld, Goes
  <1>2. /\ claims' = [g \in Fetches |-> claims'[g]]
        /\ claims'[f] = <<>>
        /\ \A g \in Fetches : g # f => claims'[g] = claims[g]
    BY DEF ClaimsHeld, Release
  <1>3. /\ waits' \in [Fetches -> Fetches \cup {NoFetch}]
        /\ \A g \in Fetches : waits'[g] # NoFetch => waits'[g] = waits[g] /\ waits[g] # f
    BY DEF ClaimsHeld, Release
  <1>4. ASSUME NEW g \in Fetches PROVE {"pc", "pending"} \subseteq DOMAIN req'[g]
    BY <1>1 DEF ClaimsHeld
  <1>5. ASSUME NEW g \in Fetches, waits'[g] # NoFetch
        PROVE  req'[g].pc \in Awaiting /\ claims'[waits'[g]] # <<>>
    <2>1. waits'[g] = waits[g] /\ waits[g] # f /\ waits[g] # NoFetch /\ g # f
      BY <1>3, <1>5
    <2>2. waits[g] \in Fetches /\ req[g].pc \in Awaiting /\ claims[waits[g]] # <<>>
      BY <2>1, ZenonT(60) DEF ClaimsHeld
    <2> QED
      BY <1>1, <1>2, <2>1, <2>2, SMTT(60)
  <1>6. ASSUME NEW g \in Fetches, claims'[g] # <<>>
        PROVE  req'[g].pc \in Claiming \/ (req'[g].pc = "serve" /\ req'[g].pending)
    BY <1>1, <1>2, <1>3, <1>6 DEF ClaimsHeld
  <1> QED
    BY <1>1, <1>2, <1>3, <1>4, <1>5, <1>6 DEF ClaimsHeld

\* A FETCH without a claim takes one, or goes on without, and waits no longer.
LEMMA Claims ==
    ASSUME ClaimsHeld, NEW f \in Fetches, NEW r, Goes(f, r),
           {"pc", "pending"} \subseteq DOMAIN r,
           claims[f] = <<>>, NEW c, c # <<>> => r.pc \in Claiming,
           claims' = [claims EXCEPT ![f] = c],
           waits' = [waits EXCEPT ![f] = NoFetch]
    PROVE  ClaimsHeld'
  <1>1. /\ req' = [g \in Fetches |-> req'[g]]
        /\ req'[f] = r
        /\ \A g \in Fetches : g # f => req'[g] = req[g]
    BY DEF ClaimsHeld, Goes
  <1>2. /\ claims' = [g \in Fetches |-> claims'[g]]
        /\ \A g \in Fetches : g # f => claims'[g] = claims[g]
    BY Zenon DEF ClaimsHeld
  <1>3. /\ waits' \in [Fetches -> Fetches \cup {NoFetch}]
        /\ \A g \in Fetches : waits'[g] # NoFetch => waits'[g] = waits[g] /\ waits[g] # f /\ g # f
    BY Zenon DEF ClaimsHeld
  <1>4. ASSUME NEW g \in Fetches PROVE {"pc", "pending"} \subseteq DOMAIN req'[g]
    BY <1>1 DEF ClaimsHeld
  <1>5. ASSUME NEW g \in Fetches, waits'[g] # NoFetch
        PROVE  req'[g].pc \in Awaiting /\ claims'[waits'[g]] # <<>>
    BY <1>1, <1>2, <1>3, <1>5, ZenonT(60) DEF ClaimsHeld
  <1>6. ASSUME NEW g \in Fetches, claims'[g] # <<>>
        PROVE  req'[g].pc \in Claiming \/ (req'[g].pc = "serve" /\ req'[g].pending)
    BY <1>1, <1>2, <1>3, <1>6 DEF ClaimsHeld
  <1> QED
    BY <1>1, <1>2, <1>3, <1>4, <1>5, <1>6 DEF ClaimsHeld

\* A FETCH without a claim begins to wait for one that is held.
LEMMA Waits ==
    ASSUME ClaimsHeld, NEW f \in Fetches, NEW r, Goes(f, r),
           {"pc", "pending"} \subseteq DOMAIN r,
           claims[f] = <<>>, r.pc \in Awaiting,
           NEW g \in Fetches, claims[g] # <<>>,
           waits' = [waits EXCEPT ![f] = g],
           UNCHANGED claims
    PROVE  ClaimsHeld'
  <1>1. /\ req' = [h \in Fetches |-> req'[h]]
        /\ req'[f] = r
        /\ \A h \in Fetches : h # f => req'[h] = req[h]
    BY DEF ClaimsHeld, Goes
  <1>2. /\ waits' \in [Fetches -> Fetches \cup {NoFetch}]
        /\ waits'[f] = g
        /\ \A h \in Fetches : h # f => waits'[h] = waits[h]
    BY DEF ClaimsHeld
  <1>3. ASSUME NEW h \in Fetches PROVE {"pc", "pending"} \subseteq DOMAIN req'[h]
    BY <1>1 DEF ClaimsHeld
  <1>4. ASSUME NEW h \in Fetches, waits'[h] # NoFetch
        PROVE  req'[h].pc \in Awaiting /\ claims'[waits'[h]] # <<>>
    BY <1>1, <1>2, <1>4, Zenon DEF ClaimsHeld
  <1>5. ASSUME NEW h \in Fetches, claims'[h] # <<>>
        PROVE  req'[h].pc \in Claiming \/ (req'[h].pc = "serve" /\ req'[h].pending)
    BY <1>1, <1>2, <1>5 DEF ClaimsHeld
  <1> QED
    BY <1>1, <1>2, <1>3, <1>4, <1>5, SMTT(60) DEF ClaimsHeld

\* The fields are there whatever else of a request changes, and Init gives them.
LEMMA ClaimsHeldInit == Init => ClaimsHeld
  BY DEF Init, ClaimsHeld, NewRequest

\* A step of which no FETCH knows.
LEMMA RequestKept ==
    ASSUME ClaimsHeld, UNCHANGED <<claims, waits, req>>
    PROVE  ClaimsHeld'
  BY Zenon DEF ClaimsHeld

\* The end of a fill.
LEMMA FillEnds ==
    ASSUME ClaimsHeld, NEW f \in Fetches, NEW clean, FinishFill(f, clean),
           waits[f] = NoFetch
    PROVE  ClaimsHeld'
  <1> DEFINE r == [req[f] EXCEPT !.pc = "serve",
                                 !.group = NextAfter(f, req[f].gap[1], req[f].gap[2])]
  <1>1. Goes(f, r) /\ Release(f)
    BY Zenon DEF FinishFill
  <1>2. {"pc", "pending"} \subseteq DOMAIN req[f]
    BY DEF ClaimsHeld
  <1>3. {"pc", "pending"} \subseteq DOMAIN r
    BY <1>2, Zenon
  <1> HIDE DEF r
  <1> QED
    BY <1>1, <1>3, Releases

\* The steps of the task of a FETCH.
LEMMA TaskKeepsClaims ==
    ASSUME ClaimsHeld, NEW f \in Fetches, Task(f)
    PROVE  ClaimsHeld'
  <1> DEFINE HasFields(r) == {"pc", "pending"} \subseteq DOMAIN r
  <1>0. HasFields(req[f])
    BY DEF ClaimsHeld
  <1>w. req[f].pc \notin Awaiting => waits[f] = NoFetch
    BY Zenon DEF ClaimsHeld
  <1>c. req[f].pc \notin Claiming /\ ~(req[f].pc = "serve" /\ req[f].pending) => claims[f] = <<>>
    BY DEF ClaimsHeld
  <1>1. CASE RefuseAtOnce(f)
    <2> DEFINE r == [req[f] EXCEPT !.pc = "ended"]
    <2>1. Goes(f, r) /\ UNCHANGED <<claims, waits>> /\ req[f].pc = "new"
      BY <1>1, Zenon DEF RefuseAtOnce
    <2>2. HasFields(r) /\ r.pc = "ended"
      BY <1>0, Zenon
    <2> HIDE DEF r
    <2>3. waits[f] = NoFetch
      BY <1>w, <2>1 DEF Awaiting
    <2>4. claims[f] # <<>> => r.pc \in Claiming \/ (r.pc = "serve" /\ r.pending)
      BY <1>c, <2>1, <2>2, SMTT(60) DEF Claiming
    <2> QED
      BY <2>1, <2>2, <2>3, <2>4, GoesOn
  <1>2. CASE handle(f)
    <2> DEFINE groups == groups_to_claim(setting.filters[f])
               R(pc) == [[req[f] EXCEPT !.largest = known, !.since = largest] EXCEPT !.pc = pc]
    <2>1. /\ req[f].pc = "new"
          /\ \/ Goes(f, R("resolve")) /\ UNCHANGED <<claims, waits>>
             \/ Goes(f, R("ask")) /\ UNCHANGED <<claims, waits>>
             \/ /\ claims' = [claims EXCEPT ![f] = groups]
                /\ Goes(f, R("ask"))
                /\ UNCHANGED waits
             \/ \E g \in Busy(groups[1], groups[2]) :
                    /\ waits' = [waits EXCEPT ![f] = g]
                    /\ Goes(f, R("wait"))
                    /\ UNCHANGED claims
      BY <1>2, Zenon DEF handle
    <2>2. \A pc : HasFields(R(pc)) /\ R(pc).pc = pc
      BY <1>0, Zenon
    <2>3. claims[f] = <<>> /\ waits[f] = NoFetch
      BY <1>c, <1>w, <2>1, SMTT(60) DEF Claiming, Awaiting
    <2>4. waits = [waits EXCEPT ![f] = NoFetch]
      BY <2>3 DEF ClaimsHeld
    <2> HIDE DEF groups, R
    <2>5. CASE Goes(f, R("resolve")) /\ UNCHANGED <<claims, waits>>
      BY <2>2, <2>3, <2>5, GoesOn, SMTT(60)
    <2>6. CASE Goes(f, R("ask")) /\ UNCHANGED <<claims, waits>>
      BY <2>2, <2>3, <2>6, GoesOn, SMTT(60)
    <2>7. CASE claims' = [claims EXCEPT ![f] = groups] /\ Goes(f, R("ask")) /\ UNCHANGED waits
      <3>1. R("ask").pc \in Claiming /\ HasFields(R("ask"))
        BY <2>2 DEF Claiming
      <3> QED
        BY <2>3, <2>4, <2>7, <3>1, Claims, Zenon
    <2>8. CASE \E g \in Busy(groups[1], groups[2]) :
                  waits' = [waits EXCEPT ![f] = g] /\ Goes(f, R("wait")) /\ UNCHANGED claims
      <3>1. PICK g \in Busy(groups[1], groups[2]) :
                  waits' = [waits EXCEPT ![f] = g] /\ Goes(f, R("wait")) /\ UNCHANGED claims
        BY <2>8, Zenon
      <3>2. g \in Fetches /\ claims[g] # <<>>
        BY DEF Busy
      <3>3. R("wait").pc \in Awaiting /\ HasFields(R("wait"))
        BY <2>2 DEF Awaiting
      <3> QED
        BY <2>3, <3>1, <3>2, <3>3, Waits, Zenon
    <2> QED
      BY <2>1, <2>5, <2>6, <2>7, <2>8, SMTT(60)
  <1>3. CASE Waited(f)
    <2> DEFINE groups == groups_to_claim(setting.filters[f])
               c == IF Busy(groups[1], groups[2]) = {} THEN groups ELSE <<>>
               pc == IF local_state_answers(known, end_location(setting.filters[f]))
                     THEN "resolve" ELSE "ask"
               r == [req[f] EXCEPT !.largest = known, !.pc = pc]
    <2>1. /\ req[f].pc = "wait" /\ Goes(f, r)
          /\ claims' = [claims EXCEPT ![f] = c]
          /\ waits' = [waits EXCEPT ![f] = NoFetch]
      BY <1>3, Zenon DEF Waited
    <2>2. HasFields(r) /\ r.pc = pc
      BY <1>0, Zenon
    <2> HIDE DEF c, r
    <2>3. claims[f] = <<>> /\ r.pc \in Claiming
      BY <1>c, <2>1, <2>2, SMTT(60) DEF Claiming
    <2> QED
      BY <2>1, <2>2, <2>3, Claims, Zenon
  <1>4. CASE AskRange(f)
    <2> DEFINE r == [req[f] EXCEPT !.pc = "answer"]
    <2>1. Goes(f, r) /\ UNCHANGED <<claims, waits>> /\ req[f].pc = "ask"
      BY <1>4, Zenon DEF AskRange
    <2>2. HasFields(r) /\ r.pc = "answer"
      BY <1>0, Zenon
    <2> HIDE DEF r
    <2>3. waits[f] = NoFetch
      BY <1>w, <2>1 DEF Awaiting
    <2>4. claims[f] # <<>> => r.pc \in Claiming \/ (r.pc = "serve" /\ r.pending)
      BY <1>c, <2>1, <2>2, SMTT(60) DEF Claiming
    <2> QED
      BY <2>1, <2>2, <2>3, <2>4, GoesOn, SMTT(60)
  <1>5. CASE RangeAnswered(f)
    <2>1. /\ req[f].pc = "answer"
          /\ UNCHANGED <<claims, waits>>
          /\ \E x, y : \/ Goes(f, [req[f] EXCEPT !.pc = "resolve", !.pending = TRUE,
                                                !.upstream_end = x, !.largest = y])
                       \/ Goes(f, [req[f] EXCEPT !.pc = "resolve", !.rejected = x])
      BY <1>5, Zenon DEF RangeAnswered
    <2> DEFINE A(x, y) == [req[f] EXCEPT !.pc = "resolve", !.pending = TRUE,
                                         !.upstream_end = x, !.largest = y]
               B(x) == [req[f] EXCEPT !.pc = "resolve", !.rejected = x]
    <2>2. \A x, y : HasFields(A(x, y)) /\ A(x, y).pc = "resolve"
      BY <1>0, Zenon
    <2>3. \A x : HasFields(B(x)) /\ B(x).pc = "resolve"
      BY <1>0, Zenon
    <2>4. \E x, y : Goes(f, A(x, y)) \/ Goes(f, B(x))
      BY <2>1, ZenonT(60)
    <2> HIDE DEF A, B
    <2>5. PICK r : Goes(f, r) /\ HasFields(r) /\ r.pc = "resolve"
      BY <2>2, <2>3, <2>4, ZenonT(60)
    <2>6. waits[f] = NoFetch
      BY <1>w, <2>1 DEF Awaiting
    <2>7. r.pc \in Claiming
      BY <2>5 DEF Claiming
    <2> QED
      BY <2>1, <2>5, <2>6, <2>7, GoesOn, SMTT(60)
  <1>6. CASE Resolve(f)
    <2> DEFINE fails == ServedRange(f) = NoRange \/ cancel[f] = "MalformedTrack"
               r == IF fails THEN [req[f] EXCEPT !.pc = "ended"]
                    ELSE Delivers(f, req[f], ServedRange(f))
    <2>1. /\ req[f].pc = "resolve" /\ Goes(f, r)
          /\ IF fails \/ ~req[f].pending THEN Release(f) ELSE UNCHANGED <<claims, waits>>
      BY <1>6, Zenon DEF Resolve
    <2>2. HasFields(r) /\ (~fails => r.pc = "serve" /\ r.pending = req[f].pending)
      BY <1>0, Zenon DEF Delivers
    <2> HIDE DEF fails, r
    <2>3. waits[f] = NoFetch
      BY <1>w, <2>1 DEF Awaiting
    <2>4. CASE fails \/ ~req[f].pending
      BY <2>1, <2>2, <2>3, <2>4, Releases, SMTT(60)
    <2>5. CASE ~fails /\ req[f].pending
      BY <2>1, <2>2, <2>3, <2>5, GoesOn, ZenonT(60)
    <2> QED
      BY <2>4, <2>5
  <1>7. CASE open_fill_fetch_stream(f)
    <2> DEFINE range == fetch_range(setting.filters[f], known)
               r == IF range = NoRange THEN [req[f] EXCEPT !.pc = "ended"]
                    ELSE Delivers(f, req[f], range)
    <2>1. Goes(f, r) /\ UNCHANGED <<claims, waits>> /\ req[f].pc = "new"
      BY <1>7, Zenon DEF open_fill_fetch_stream
    <2>2. HasFields(r)
      BY <1>0, ZenonT(60) DEF Delivers
    <2> HIDE DEF r
    <2>3. claims[f] = <<>> /\ waits[f] = NoFetch
      BY <1>c, <1>w, <2>1, SMTT(60) DEF Claiming, Awaiting
    <2> QED
      BY <2>1, <2>2, <2>3, GoesOn
  <1>8. CASE ServeFromCache(f)
    <2> DEFINE r == [req[f] EXCEPT !.group = NextAfter(f, req[f].group, req[f].group)]
    <2>1. Goes(f, r) /\ UNCHANGED <<claims, waits>> /\ req[f].pc = "serve" /\ ~req[f].pending
      BY <1>8, Zenon DEF ServeFromCache, Serving
    <2>2. HasFields(r) /\ r.pc = req[f].pc /\ r.pending = req[f].pending
      BY <1>0, Zenon
    <2> HIDE DEF r
    <2>3. waits[f] = NoFetch
      BY <1>w, <2>1 DEF Awaiting
    <2>4. claims[f] # <<>> => r.pc \in Claiming \/ (r.pc = "serve" /\ r.pending)
      BY <1>c, <2>1, <2>2, SMTT(60) DEF Claiming
    <2> QED
      BY <2>1, <2>2, <2>3, <2>4, GoesOn, SMTT(60)
  <1>9. CASE WaitForFill(f)
    <2> DEFINE gap == Gap(f)
               r == [req[f] EXCEPT !.waited = req[f].group, !.pc = "waitFill"]
    <2>1. /\ req[f].pc = "serve" /\ ~req[f].pending
          /\ Goes(f, r) /\ UNCHANGED claims
          /\ \E g \in Busy(gap[1], gap[2]) : waits' = [waits EXCEPT ![f] = g]
      BY <1>9, Zenon DEF WaitForFill, Serving
    <2>2. PICK g \in Busy(gap[1], gap[2]) : waits' = [waits EXCEPT ![f] = g]
      BY <2>1, ZenonT(60)
    <2>3. g \in Fetches /\ claims[g] # <<>>
      BY DEF Busy
    <2>4. HasFields(r) /\ r.pc = "waitFill"
      BY <1>0, Zenon
    <2> HIDE DEF r
    <2>5. claims[f] = <<>> /\ r.pc \in Awaiting
      BY <1>c, <2>1, <2>4 DEF Claiming, Awaiting
    <2> QED
      BY <2>1, <2>2, <2>3, <2>4, <2>5, Waits, Zenon
  <1>10. CASE FillAwaited(f)
    <2> DEFINE r == [req[f] EXCEPT !.pc = "serve"]
    <2>1. /\ req[f].pc = "waitFill" /\ Goes(f, r) /\ UNCHANGED claims
          /\ waits' = [waits EXCEPT ![f] = NoFetch]
      BY <1>10, Zenon DEF FillAwaited
    <2>2. HasFields(r)
      BY <1>0, Zenon
    <2> HIDE DEF r
    <2>3. claims[f] = <<>>
      BY <1>c, <2>1 DEF Claiming
    <2>4. claims' = [claims EXCEPT ![f] = <<>>]
      BY <2>1, <2>3, SMTT(60) DEF ClaimsHeld
    <2> QED
      BY <2>1, <2>2, <2>3, <2>4, Claims, Zenon
  <1>11. CASE SkipGap(f)
    <2> DEFINE r == [req[f] EXCEPT !.group = NextAfter(f, Gap(f)[1], Gap(f)[2])]
    <2>1. Goes(f, r) /\ UNCHANGED <<claims, waits>> /\ req[f].pc = "serve"
      BY <1>11, ZenonT(60) DEF SkipGap, Serving
    <2>2. HasFields(r) /\ r.pc = req[f].pc /\ r.pending = req[f].pending
      BY <1>0, ZenonT(60)
    <2> HIDE DEF r
    <2>3. waits[f] = NoFetch
      BY <1>w, <2>1, SMTT(60) DEF Awaiting
    <2>4. claims[f] # <<>> => r.pc \in Claiming \/ (r.pc = "serve" /\ r.pending)
      BY <1>c, <2>1, <2>2, SMTT(60) DEF Claiming
    <2> QED
      BY <2>1, <2>2, <2>3, <2>4, GoesOn, SMTT(60)
  <1>12. CASE UsePending(f)
    <2> DEFINE r == [req[f] EXCEPT !.pc = "fill", !.pending = FALSE, !.gaps = @ + 1,
                       !.gap = <<req[f].start[1], req[f].end[1]>>,
                       !.absences = NewAbsences(req[f].start, req[f].end, Down(f))]
    <2>1. Goes(f, r) /\ UNCHANGED <<claims, waits>> /\ req[f].pc = "serve"
      BY <1>12, ZenonT(60) DEF UsePending, Serving
    <2>2. HasFields(r) /\ r.pc = "fill"
      BY <1>0, ZenonT(60)
    <2> HIDE DEF r
    <2>3. waits[f] = NoFetch
      BY <1>w, <2>1 DEF Awaiting
    <2>4. claims[f] # <<>> => r.pc \in Claiming \/ (r.pc = "serve" /\ r.pending)
      BY <1>c, <2>1, <2>2, SMTT(60) DEF Claiming
    <2> QED
      BY <2>1, <2>2, <2>3, <2>4, GoesOn, SMTT(60)
  <1>13. CASE FetchGap(f)
    <2> DEFINE gap == Gap(f)
               part == requested_part(gap[1], gap[2], req[f].start, req[f].end)
               c == IF Busy(gap[1], gap[2]) = {} THEN gap ELSE <<>>
               r == [req[f] EXCEPT !.pc = "fill", !.gaps = @ + 1, !.gap = gap,
                                   !.absences = NewAbsences(part[1], part[2], Down(f))]
    <2>1. /\ req[f].pc = "serve" /\ ~req[f].pending /\ Goes(f, r)
          /\ claims' = [claims EXCEPT ![f] = c] /\ UNCHANGED waits
      BY <1>13, Zenon DEF FetchGap, Serving
    <2>2. HasFields(r) /\ r.pc = "fill"
      BY <1>0, ZenonT(60)
    <2> HIDE DEF c, r
    <2>3. claims[f] = <<>> /\ waits[f] = NoFetch /\ r.pc \in Claiming
      BY <1>c, <1>w, <2>1, <2>2, SMTT(60) DEF Claiming, Awaiting
    <2>4. waits' = [waits EXCEPT ![f] = NoFetch]
      BY <2>1, <2>3 DEF ClaimsHeld
    <2> QED
      BY <2>1, <2>2, <2>3, <2>4, Claims, Zenon
  <1>14. CASE TakeAccepted(f)
    <2> DEFINE r == [req[f] EXCEPT !.absences = on_fetch_ok(@, up[f].end)]
    <2>1. Goes(f, r) /\ UNCHANGED <<claims, waits>> /\ req[f].pc = "fill"
      BY <1>14, Zenon DEF TakeAccepted
    <2>2. HasFields(r) /\ r.pc = req[f].pc
      BY <1>0, ZenonT(60)
    <2> HIDE DEF r
    <2>3. waits[f] = NoFetch
      BY <1>w, <2>1 DEF Awaiting
    <2>4. claims[f] # <<>> => r.pc \in Claiming \/ (r.pc = "serve" /\ r.pending)
      BY <1>c, <2>1, <2>2, SMTT(60) DEF Claiming
    <2> QED
      BY <2>1, <2>2, <2>3, <2>4, GoesOn, SMTT(60)
  <1>15. CASE TakeObject(f)
    <2> DEFINE r == [req[f] EXCEPT !.absences = on_object(req[f].absences, Head(up[f].todo).loc).state]
    <2>1. Goes(f, r) /\ UNCHANGED <<claims, waits>> /\ req[f].pc = "fill"
      BY <1>15, Zenon DEF TakeObject
    <2>2. HasFields(r) /\ r.pc = req[f].pc
      BY <1>0, ZenonT(60)
    <2> HIDE DEF r
    <2>3. waits[f] = NoFetch
      BY <1>w, <2>1 DEF Awaiting
    <2>4. claims[f] # <<>> => r.pc \in Claiming \/ (r.pc = "serve" /\ r.pending)
      BY <1>c, <2>1, <2>2 DEF Claiming
    <2> QED
      BY <2>1, <2>2, <2>3, <2>4, GoesOn
  <1>16. CASE TakeMarker(f)
    <2> DEFINE r == [req[f] EXCEPT !.absences =
                      on_marker(req[f].absences, Head(up[f].todo).kind, Head(up[f].todo).loc).state]
    <2>1. Goes(f, r) /\ UNCHANGED <<claims, waits>> /\ req[f].pc = "fill"
      BY <1>16, Zenon DEF TakeMarker
    <2>2. HasFields(r) /\ r.pc = req[f].pc
      BY <1>0, ZenonT(60)
    <2> HIDE DEF r
    <2>3. waits[f] = NoFetch
      BY <1>w, <2>1 DEF Awaiting
    <2>4. claims[f] # <<>> => r.pc \in Claiming \/ (r.pc = "serve" /\ r.pending)
      BY <1>c, <2>1, <2>2 DEF Claiming
    <2> QED
      BY <2>1, <2>2, <2>3, <2>4, GoesOn
  <1>17. CASE TakeEnd(f)
    <2>1. req[f].pc = "fill" /\ \E clean \in BOOLEAN : FinishFill(f, clean)
      BY <1>17, Zenon DEF TakeEnd
    <2> QED
      BY <1>0, <1>w, <2>1, FillEnds, SMTT(60) DEF Awaiting
  <1>18. CASE StopReading(f)
    <2>1. req[f].pc = "fill" /\ \E clean \in BOOLEAN : FinishFill(f, clean)
      BY <1>18, Zenon DEF StopReading
    <2> QED
      BY <1>0, <1>w, <2>1, FillEnds DEF Awaiting
  <1>19. CASE EndStream(f)
    <2> DEFINE r == [req[f] EXCEPT !.pc = "ended"]
    <2>1. req[f].pc = "serve" /\ Goes(f, r) /\ Release(f)
      BY <1>19, Zenon DEF EndStream
    <2>2. HasFields(r)
      BY <1>0, ZenonT(60)
    <2> HIDE DEF r
    <2>3. waits[f] = NoFetch
      BY <1>w, <2>1 DEF Awaiting
    <2> QED
      BY <2>1, <2>2, <2>3, Releases
  <1> QED
    BY <1>1, <1>2, <1>3, <1>4, <1>5, <1>6, <1>7, <1>8, <1>9, <1>10, <1>11, <1>12, <1>13, <1>14, <1>15, <1>16, <1>17, <1>18, <1>19, SMTT(60) DEF Task

\* The steps of the publisher, the cache and the subscriber.
LEMMA PeersKeepClaims ==
    ASSUME ClaimsHeld, Peers
    PROVE  ClaimsHeld'
  <1>1. CASE \E l \in Groups \X (0..LastObject) : Publish(l) \/ GroupEnds(l)
    <2>1. UNCHANGED <<claims, waits, req>>
      BY <1>1, Zenon DEF Publish, GroupEnds
    <2> QED
      BY <2>1, RequestKept
  <1>2. CASE \E g \in Groups : Evict(g)
    <2>1. UNCHANGED <<claims, waits, req>>
      BY <1>2, SMTT(60) DEF Evict
    <2> QED
      BY <2>1, RequestKept
  <1>3. CASE \E f \in Fetches : Answer(f) \/ Refuse(f) \/ Abort(f) \/ Cancel(f)
    <2>1. UNCHANGED <<claims, waits, req>>
      BY <1>3, Zenon DEF Answer, Refuse, Abort, Cancel
    <2> QED
      BY <2>1, RequestKept
  <1>4. CASE \E f \in Fetches : TakeMalformed(f)
    <2>1. PICK f \in Fetches : TakeMalformed(f)
      BY <1>4
    <2> DEFINE r == [req[f] EXCEPT !.pc = "serve"]
    <2>2. req[f].pc = "fill" /\ Goes(f, r) /\ Release(f)
      BY <2>1, Zenon DEF TakeMalformed
    <2>3. {"pc", "pending"} \subseteq DOMAIN req[f]
      BY DEF ClaimsHeld
    <2>4. {"pc", "pending"} \subseteq DOMAIN r
      BY <2>3, Zenon
    <2>5. waits[f] = NoFetch
      BY <2>2, Zenon DEF ClaimsHeld, Awaiting
    <2> HIDE DEF r
    <2> QED
      BY <2>2, <2>4, <2>5, Releases, SMTT(60)
  <1> QED
    BY <1>1, <1>2, <1>3, <1>4, SMTT(60) DEF Peers

\* Whoever is waited for holds a claim and so waits for nobody.
LEMMA ClaimsHeldSuffices == ClaimsHeld => WaitedForIsAtWork
  <1> SUFFICES ASSUME ClaimsHeld, NEW f \in Fetches, waits[f] # NoFetch
               PROVE  claims[waits[f]] # <<>> /\ waits[waits[f]] = NoFetch
    BY DEF WaitedForIsAtWork
  <1>1. waits[f] \in Fetches /\ claims[waits[f]] # <<>>
    BY Zenon DEF ClaimsHeld
  <1>2. req[waits[f]].pc \in Claiming \cup {"serve"}
    BY <1>1 DEF ClaimsHeld
  <1> QED
    BY <1>1, <1>2, Zenon DEF ClaimsHeld, Claiming, Awaiting

\* claim_fill and wait_for_fill, for any number of FETCHes and fills on a track of any
\* size: a FETCH never waits for a fill that is over, nor for one whose task waits
\* itself, so that no ring of FETCHes waits for each other.
THEOREM FillsAtWork == Spec => []WaitedForIsAtWork
  <1>1. ClaimsHeld /\ [Next]_vars => ClaimsHeld'
    <2> SUFFICES ASSUME ClaimsHeld, [Next]_vars PROVE ClaimsHeld'
      OBVIOUS
    <2>1. CASE \E f \in Fetches : Task(f)
      BY <2>1, TaskKeepsClaims
    <2>2. CASE Peers
      BY <2>2, PeersKeepClaims
    <2>3. CASE UNCHANGED vars
      BY <2>3, RequestKept DEF vars
    <2> QED
      BY <2>1, <2>2, <2>3, SMTT(60) DEF Next
  <1> QED
    BY <1>1, ClaimsHeldInit, ClaimsHeldSuffices, PTL DEF Spec
=============================================================================
