-------------------------------- MODULE Abr --------------------------------
(***************************************************************************)
(* The bandwidth allocation algorithms of moqtail-ssts, as functions.      *)
(*                                                                         *)
(* A switching set is shown to an algorithm as a record                    *)
(*   [id, algorithm, rank, weight, active, members]                        *)
(* whose members are a sequence of [threshold, track], ascending.  An      *)
(* algorithm answers with a function from the ids of the sets it was shown *)
(* to a track, or to Nothing.                                              *)
(***************************************************************************)
EXTENDS Integers, Sequences, FiniteSets, FiniteSetsExt

CONSTANTS
    U64_MAX,              \* the largest u64; saturating arithmetic stops there
    UPSHIFT_GOP_STREAK,   \* 5 in the code: uncongested groups that raise the tier
    COOLDOWN_HIGH_STREAK  \* 2 in the code: rising groups that drop it again

ASSUME AbrConstants ==
    /\ U64_MAX \in Nat \ {0}
    /\ {UPSHIFT_GOP_STREAK, COOLDOWN_HIGH_STREAK} \subseteq Nat \ {0}

Nothing == "nothing"

saturating_sub(x, y) == IF x > y THEN x - y ELSE 0
saturating_mul(x, y) == IF x * y > U64_MAX THEN U64_MAX ELSE x * y

-----------------------------------------------------------------------------
(* What the algorithms see. *)

\* 0 stands for "no estimate" and for "no cap".
budget_kbps(estimate, cap) ==
    CASE estimate = 0 /\ cap = 0 -> U64_MAX
      [] estimate = 0 /\ cap # 0 -> cap
      [] estimate # 0 /\ cap = 0 -> estimate
      [] OTHER                   -> Min({estimate, cap})

\* Streams of sets nobody watches are no evidence of congestion.
active_stream_depth(sets, open_streams) ==
    MapThenSumSet(LAMBDA s : open_streams[s.id], {s \in sets : s.active})

has_track(set, track) == \E i \in DOMAIN set.members : set.members[i].track = track

-----------------------------------------------------------------------------
(* Algorithm 0: strict priority by rank, split by weight inside a rank. *)

UNLIMITED_KBPS == U64_MAX \div 4

\* The place on the set's ladder of the highest member the target covers, 0 if none.
Fit(set, target) == Max({0} \cup {i \in DOMAIN set.members : set.members[i].threshold <= target})

ThresholdAt(set, i) == IF i = 0 THEN 0 ELSE set.members[i].threshold

Share(pool, contending, set) ==
    saturating_mul(pool, set.weight) \div Max({1, MapThenSumSet(LAMBDA s : s.weight, contending)})

\* Mutant: what a saturated set takes stays in the pool.
RoundKeepsPool(r) ==
    LET chosen == [s \in DOMAIN r.chosen |->
                     IF s \in r.contending THEN Fit(s, Share(r.pool, r.contending, s)) ELSE r.chosen[s]]
        saturated == {s \in r.contending :
                        chosen[s] # 0 /\ ThresholdAt(s, chosen[s]) = ThresholdAt(s, Len(s.members))}
    IN  [chosen |-> chosen, contending |-> r.contending \ saturated, pool |-> r.pool]

\* A set that selected its top track leaves the pool; the rest get its unused share.
Round(r) ==
    LET chosen == [s \in DOMAIN r.chosen |->
                     IF s \in r.contending THEN Fit(s, Share(r.pool, r.contending, s)) ELSE r.chosen[s]]
        saturated == {s \in r.contending :
                        chosen[s] # 0 /\ ThresholdAt(s, chosen[s]) = ThresholdAt(s, Len(s.members))}
    IN  [chosen |-> chosen,
         contending |-> r.contending \ saturated,
         pool |-> saturating_sub(r.pool, MapThenSumSet(LAMBDA s : ThresholdAt(s, chosen[s]), saturated))]

\* Mutant: a share that is given back is not shared again.
SplitTierOnce(tier, pool) ==
    Round([chosen |-> [s \in tier |-> 0], contending |-> tier, pool |-> pool]).chosen

\* The rounds end when no set saturates, after which a round changes nothing: one
\* round more than there are sets is always enough.
SplitTier(tier, pool) ==
    LET round[n \in 0..(Cardinality(tier) + 1)] ==
          IF n = 0 THEN [chosen |-> [s \in tier |-> 0], contending |-> tier, pool |-> pool]
                   ELSE Round(round[n - 1])
    IN  round[Cardinality(tier) + 1].chosen

\* Mutant: the ranks share the budget.
SplitRanksTogether(budget, sets) == SplitTier({s \in sets : s.active}, budget)

\* Every set of a rank is served before the next rank sees anything.
SplitRanks(budget, sets) ==
    LET ranks == {s.rank : s \in sets}
        served[upto \in SUBSET ranks] ==
          IF upto = {} THEN [left |-> budget, chosen |-> [s \in {} |-> 0]]
          ELSE LET before == served[upto \ {Max(upto)}]
                   tier == {s \in sets : s.rank = Max(upto) /\ s.active}
                   split == SplitTier(tier, before.left)
               IN  [left |-> saturating_sub(before.left,
                                 MapThenSumSet(LAMBDA s : ThresholdAt(s, split[s]), tier)),
                    chosen |-> [s \in DOMAIN before.chosen \cup tier |->
                                  IF s \in tier THEN split[s] ELSE before.chosen[s]]]
    IN  served[ranks].chosen

\* The place each set is given on its ladder: 0 for a set that forwards nothing.
Places(budget, sets) ==
    LET chosen == SplitRanks(budget, sets)
    IN  [s \in sets |-> IF s \in DOMAIN chosen THEN chosen[s] ELSE 0]

TrackAt(set, i) == IF i = 0 THEN Nothing ELSE set.members[i].track

allocate(budget, sets) ==
    LET places == Places(budget, sets)
    IN  [i \in {s.id : s \in sets} |-> LET s == CHOOSE x \in sets : x.id = i IN TrackAt(s, places[s])]

decide_default(estimate, cap, sets) ==
    allocate(Min({budget_kbps(estimate, cap), UNLIMITED_KBPS}), sets)

-----------------------------------------------------------------------------
(* Backpressure: one tier for all the sets of a connection, moved by how    *)
(* many forwarding streams are still open.  settle is the depth recorded at *)
(* the last downshift, NoDepth outside the settle-down period.              *)

DEPTH_TARGET == 1
DOWNSHIFT_DEPTH == 2
NoDepth == -1

TierStart == [index |-> 0, clear |-> 0, settle |-> NoDepth, rising |-> 0]

observe_clear(t) ==
    LET up == t.clear + 1 >= UPSHIFT_GOP_STREAK
    IN  [index  |-> IF up THEN t.index + 1 ELSE t.index,
         clear  |-> IF up THEN 0 ELSE t.clear + 1,
         settle |-> NoDepth,
         rising |-> IF t.settle # NoDepth THEN 0 ELSE t.rising]

observe_congested(t, depth) ==
    IF depth < DOWNSHIFT_DEPTH \/ t.index = 0
    THEN [t EXCEPT !.clear = 0]
    ELSE [index |-> t.index - 1, clear |-> 0, settle |-> depth, rising |-> 0]

observe_cooldown(t, depth, timed_out) ==
    LET on == [t EXCEPT !.clear = 0, !.settle = depth]
        dropped == [on EXCEPT !.index = t.index - 1, !.rising = 0]
    IN  CASE timed_out /\ t.index > 0 -> dropped
          [] ~(timed_out /\ t.index > 0) /\ depth <= t.settle -> [on EXCEPT !.rising = 0]
          [] ~(timed_out /\ t.index > 0) /\ depth > t.settle ->
               IF t.rising + 1 < COOLDOWN_HIGH_STREAK \/ t.index = 0
               THEN [on EXCEPT !.rising = t.rising + 1]
               ELSE dropped

\* The depth observed counts the streams reset since the previous decision too.
observe(t, open, timeouts) ==
    LET depth == open + timeouts
    IN  CASE depth <= DEPTH_TARGET -> observe_clear(t)
          [] depth > DEPTH_TARGET /\ t.settle # NoDepth -> observe_cooldown(t, depth, timeouts > 0)
          [] depth > DEPTH_TARGET /\ t.settle = NoDepth -> observe_congested(t, depth)

\* The tier is capped at the longest ladder, or a downshift would change nothing.
clamp_to(t, sets) ==
    LET longest == Max({1} \cup {Len(s.members) : s \in sets})
    IN  [t EXCEPT !.index = Min({t.index, longest - 1})]

Observed(t, sets, open_streams, timeouts) ==
    clamp_to(observe(t, active_stream_depth(sets, open_streams), timeouts), sets)

decide_backpressure(t, sets) ==
    [i \in {s.id : s \in sets} |->
        LET s == CHOOSE x \in sets : x.id = i
        IN  IF s.active /\ s.members # <<>>
            THEN TrackAt(s, Min({t.index, Len(s.members) - 1}) + 1) ELSE Nothing]
=============================================================================
