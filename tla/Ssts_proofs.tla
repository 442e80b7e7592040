----------------------------- MODULE Ssts_proofs -----------------------------
(***************************************************************************)
(* What is proved of sender-side track switching, for every number of      *)
(* subscriptions, tracks and sets, every operation on them, every window   *)
(* of decisions and every capacity of the channel.                         *)
(*                                                                         *)
(* The inductive invariant IInv has three parts.  Membership says that the *)
(* sets, the index of tracks and the counts of streams agree; it rests on  *)
(* the lemmas about sorting a ladder and dropping a member from it.        *)
(* Stamped and Cached say what the epoch is for: what a gate read, and the *)
(* verdict it cached, belong to the epoch it sampled before reading, so    *)
(* that a change of membership, which always moves the epoch, shows.       *)
(* Carried and Awaited say that what was forwarded agrees with a decision  *)
(* that stands, and that who waits has asked.                              *)
(***************************************************************************)
EXTENDS Ssts, TLAPS

-----------------------------------------------------------------------------
(* The inductive invariant. *)

Member == [track : Tracks, threshold : Nat, holders : SUBSET Requests]
Gate == [pc : {"idle", "sampled", "set", "ask", "waiting"}, epoch : Nat, set : SetIds \cup {None},
         notified : BOOLEAN, cache : [group : Nat \cup {NoGroup}, epoch : Nat, forward : BOOLEAN]]
Question == [kind : {"NewGroup", "StreamTimeout"}, group : Nat]

Controller ==
    /\ chan \in Seq(Question)
    /\ {"pc", "group", "answer", "last", "largest", "timeouts", "tier"} \subseteq DOMAIN abr
    /\ abr.pc \in {"idle", "decide", "record"}

Types ==
    /\ setting \in Settings /\ ops \subseteq setting.ops
    /\ feed \in [Requests -> Seq(Nat)]
    /\ gates \in [Requests -> Gate]
    /\ Controller

\* A list of members in which each track occurs once, rising, each held by someone.
Ladder(ms) ==
    /\ ms \in Seq(Member)
    /\ \A i \in DOMAIN ms : ms[i].holders # {}
    /\ \A i, j \in DOMAIN ms : i < j => ms[i].track # ms[j].track /\ ms[i].threshold <= ms[j].threshold

OnLadder(ms, t) == \E i \in DOMAIN ms : ms[i].track = t

WellFormed(set) ==
    /\ {"algorithm", "weight", "activate", "rank", "members"} \subseteq DOMAIN set
    /\ Ladder(set.members) /\ set.members # <<>>

\* The sets, the index of tracks and the counts of streams.
Membership ==
    /\ sets = [s \in SetIds |-> sets[s]]
    /\ \A s \in SetIds : InUse(s) => WellFormed(sets[s])
    /\ track_to_set \in [Tracks -> SetIds \cup {None}]
    /\ \A t \in Tracks, s \in SetIds : track_to_set[t] = s <=> InUse(s) /\ OnLadder(sets[s].members, t)
    /\ open_streams \in [SetIds -> Nat]
    /\ \A s \in SetIds : open_streams[s] > 0 => InUse(s)
    /\ epoch \in Nat

\* What a gate read belongs to the epoch it sampled before reading.
StampedGate(r, g, objects) ==
    /\ g.epoch <= epoch /\ g.cache.epoch <= epoch
    /\ g.pc \in {"idle", "sampled"} => g.set = None
    /\ g.pc \in {"set", "ask", "waiting"} =>
         g.set # None /\ (g.epoch = epoch => g.set = track_to_set[TrackOf(r)])
    /\ g.pc # "idle" => objects # <<>>

Stamped == \A r \in Requests : StampedGate(r, gates[r], feed[r])

\* The track that the decision of a group gives a set.
Decided(g, s, t) == Answered(g, s) /\ decisions[g][s] = t

\* A cached verdict of this epoch is the verdict of a decision of its group.
CachedVerdict(r, c) ==
    LET s == track_to_set[TrackOf(r)]
    IN  c.group # NoGroup /\ c.epoch = epoch =>
          IF s = None THEN c.forward ELSE Verdict(c.group, s, TrackOf(r), c.forward)

Cached == \A r \in Requests : CachedVerdict(r, gates[r].cache)

\* What was forwarded on a decision that still stands agrees with it.
Carried ==
    \A x \in forwarded :
        /\ x.request \in Requests
        /\ ~Left(x.group) => Decided(x.group, x.set, TrackOf(x.request))

\* WaitingIsAsked, one gate at a time.
Asked(g) ==
    \/ \E i \in DOMAIN chan : chan[i] = [kind |-> "NewGroup", group |-> g]
    \/ abr.pc # "idle" /\ abr.group = g /\ g \notin DOMAIN decisions
Waits(g) == g.pc = "waiting" /\ ~g.notified /\ g.epoch = epoch
Awaited == \A r \in Requests : Waits(gates[r]) => Asked(Object(r))

IInv == Types /\ Membership /\ Stamped /\ Cached /\ Carried /\ Awaited

\* What the lemmas about the sets need of sorting a ladder and of dropping a member from
\* it.  LaddersAreKept, at the end, shows that it holds: its proof counts finite sets.
LaddersKept ==
    /\ \A ms \in Seq(Member) :
         /\ ms # <<>> /\ \A i \in DOMAIN ms : ms[i].holders # {}
         /\ \A i, j \in DOMAIN ms : i # j => ms[i].track # ms[j].track
         => /\ Ladder(SortedByThreshold(ms)) /\ SortedByThreshold(ms) # <<>>
            /\ \A t : OnLadder(SortedByThreshold(ms), t) <=> OnLadder(ms, t)
    /\ \A ms, t : Ladder(ms) => /\ Ladder(Without(ms, t))
                                /\ \A u : OnLadder(Without(ms, t), u) <=> OnLadder(ms, u) /\ u # t

\* What is in a list of members is a member.
LEMMA SeqElement == ASSUME NEW S, NEW q \in Seq(S), NEW i \in DOMAIN q PROVE q[i] \in S
OBVIOUS

-----------------------------------------------------------------------------
(* The operations on the sets keep the three views of membership together. *)

\* A set that has members is not the mark of an id that is free.
LEMMA NotFree == ASSUME NEW set, "members" \in DOMAIN set PROVE set # NoSet
BY DEF NoSet

\* The operation of a setting is about tracks, sets and requests that exist.
OpOK(op) == op.request \in Requests /\ op.track \in Tracks /\ op.set \in SetIds /\ op.threshold \in Nat

\* Assigned gives a well formed set that holds the track as well.
LEMMA AssignedSet ==
    ASSUME LaddersKept, NEW set, Ladder(set.members), NEW op, OpOK(op)
    PROVE  /\ WellFormed(Assigned(set, op))
           /\ \A t : OnLadder(Assigned(set, op).members, t) <=> OnLadder(set.members, t) \/ t = op.track
<1> DEFINE ms == set.members
           at == MemberAt(set, op.track)
           new == [track |-> op.track, threshold |-> op.threshold, holders |-> {op.request}]
           raised(i) == [track |-> op.track, threshold |-> op.threshold,
                         holders |-> ms[i].holders \cup {op.request}]
           joined == IF at = {} THEN Append(ms, new)
                     ELSE [i \in DOMAIN ms |-> IF i \in at THEN raised(i) ELSE ms[i]]
<1>1. Assigned(set, op) = [algorithm |-> op.algorithm, weight |-> op.weight, activate |-> op.activate,
                           rank |-> op.rank, members |-> SortedByThreshold(joined)]
  BY Zenon DEF Assigned
<1>2. ms \in Seq(Member) /\ DOMAIN ms = 1..Len(ms) /\ Len(ms) \in Nat
  BY DEF Ladder
<1>3. \A i \in DOMAIN ms : ms[i] \in Member /\ ms[i].holders \in SUBSET Requests
  <2>1. \A i \in DOMAIN ms : ms[i] \in Member
    BY <1>2
  <2>2. \A m \in Member : m.holders \in SUBSET Requests
    BY Zenon DEF Member
  <2> QED
    BY <2>1, <2>2, Zenon
<1>4. \A i, j \in DOMAIN ms : i # j => ms[i].track # ms[j].track
  BY <1>2 DEF Ladder
<1>5. at = {i \in DOMAIN ms : ms[i].track = op.track}
  BY Zenon DEF MemberAt
<1>6. new \in Member /\ new.track = op.track /\ new.holders # {}
  BY Zenon DEF Member, OpOK
<1>7. \A i \in DOMAIN ms : raised(i) \in Member /\ raised(i).track = op.track /\ raised(i).holders # {}
  <2> TAKE i \in DOMAIN ms
  <2>1. ms[i].holders \cup {op.request} \in SUBSET Requests
    BY <1>3, Zenon DEF OpOK
  <2> QED
    BY <2>1, Zenon DEF Member, OpOK
<1> DEFINE Good(q) ==
             /\ q \in Seq(Member) /\ q # <<>>
             /\ \A i \in DOMAIN q : q[i].holders # {}
             /\ \A i, j \in DOMAIN q : i # j => q[i].track # q[j].track
             /\ \A t : OnLadder(q, t) <=> OnLadder(ms, t) \/ t = op.track
<1>8. Good(joined)
  <2>1. CASE at = {}
    <3> HIDE DEF new, ms
    <3>1. joined = Append(ms, new)
      BY <2>1, Zenon
    <3>2. \A i \in DOMAIN ms : ms[i].track # op.track
      BY <1>5, <2>1, Zenon
    <3>3. /\ Append(ms, new) \in Seq(Member) /\ DOMAIN Append(ms, new) = 1..(Len(ms) + 1)
          /\ \A i \in 1..Len(ms) : Append(ms, new)[i] = ms[i]
          /\ Append(ms, new)[Len(ms) + 1] = new
      BY <1>2, <1>6
    <3> DEFINE q == Append(ms, new)
    <3> HIDE DEF q
    <3>4. /\ q \in Seq(Member) /\ DOMAIN q = 1..(Len(ms) + 1)
          /\ \A i \in 1..Len(ms) : q[i] = ms[i]
          /\ q[Len(ms) + 1] = new
      BY <3>3, Zenon DEF q
    <3>5. q # <<>>
      BY <1>2, <3>4
    <3>6. \A i \in DOMAIN q : q[i].holders # {}
      BY <1>2, <1>6, <3>4 DEF Ladder, ms
    <3>7. \A i, j \in DOMAIN q : i # j => q[i].track # q[j].track
      BY <1>2, <1>4, <1>6, <3>2, <3>4
    <3>8. \A t : OnLadder(q, t) <=> OnLadder(ms, t) \/ t = op.track
      BY <1>2, <1>6, <3>4 DEF OnLadder
    <3>9. Good(q)
      BY <3>4, <3>5, <3>6, <3>7, <3>8, Zenon
    <3> HIDE DEF joined, Good
    <3> QED
      BY <3>1, <3>9, Zenon DEF q
  <2>2. CASE at # {}
    <3> DEFINE q == [i \in DOMAIN ms |-> IF i \in at THEN raised(i) ELSE ms[i]]
    <3>1. joined = q
      BY <2>2, Zenon
    <3>2. \A i \in DOMAIN ms : q[i] = IF i \in at THEN raised(i) ELSE ms[i]
      BY Zenon
    <3>3. DOMAIN q = DOMAIN ms
      BY Zenon
    <3>4. q \in Seq(Member)
      BY <1>2, <1>3, <1>7
    <3> HIDE DEF q, raised, at
    <3>5. \A i \in DOMAIN ms : q[i].track = ms[i].track /\ q[i].holders # {}
      BY <1>5, <1>7, <3>2, Zenon DEF Ladder
    <3>6. PICK k \in DOMAIN ms : ms[k].track = op.track
      BY <1>5, <2>2, Zenon
    <3>7. q # <<>>
      BY <3>3, <3>6
    <3>8. \A i, j \in DOMAIN q : i # j => q[i].track # q[j].track
      BY <1>4, <3>3, <3>5, Zenon
    <3>9. \A t : OnLadder(q, t) <=> OnLadder(ms, t) \/ t = op.track
      BY <3>3, <3>5, <3>6, Zenon DEF OnLadder
    <3>10. \A i \in DOMAIN q : q[i].holders # {}
      BY <3>3, <3>5, Zenon
    <3>11. Good(q)
      BY <3>4, <3>7, <3>8, <3>9, <3>10, Zenon
    <3> HIDE DEF joined, Good
    <3> QED
      BY <3>1, <3>11, Zenon
  <2> QED
    BY <2>1, <2>2, Zenon
<1> HIDE DEF joined
<1>9. /\ Ladder(SortedByThreshold(joined)) /\ SortedByThreshold(joined) # <<>>
      /\ \A t : OnLadder(SortedByThreshold(joined), t) <=> OnLadder(joined, t)
  BY <1>8, Zenon DEF LaddersKept
<1>10. Assigned(set, op).members = SortedByThreshold(joined)
  BY <1>1
<1>11. {"algorithm", "weight", "activate", "rank", "members"} \subseteq DOMAIN Assigned(set, op)
  BY <1>1, Zenon
<1>12. WellFormed(Assigned(set, op))
  BY <1>9, <1>10, <1>11, Zenon DEF WellFormed
<1> QED
  BY <1>8, <1>9, <1>10, <1>12, Zenon

\* A set is put in place of what its id stood for, and the index follows.
LEMMA PutSet ==
    ASSUME Membership, NEW s \in SetIds, NEW set, WellFormed(set),
           sets' = [sets EXCEPT ![s] = set],
           track_to_set' \in [Tracks -> SetIds \cup {None}],
           \A t \in Tracks, x \in SetIds \ {s} : track_to_set'[t] = x <=> track_to_set[t] = x,
           \A t \in Tracks : track_to_set'[t] = s <=> OnLadder(set.members, t),
           open_streams' = open_streams, epoch' \in Nat
    PROVE  Membership'
<1>1. set # NoSet
  BY NotFree, Zenon DEF WellFormed
<1>2. sets' = [x \in SetIds |-> IF x = s THEN set ELSE sets[x]]
  BY Zenon DEF Membership
<1>3. sets'[s] = set /\ \A x \in SetIds \ {s} : sets'[x] = sets[x]
  BY <1>2, Zenon
<1>4. sets' = [x \in SetIds |-> sets'[x]]
  BY <1>2, Zenon
<1>5. \A x \in SetIds : InUse(x)' => WellFormed(sets[x])'
  <2>1. \A x \in SetIds : sets'[x] # NoSet => WellFormed(sets'[x])
    BY <1>3, Zenon DEF Membership, InUse
  <2> QED
    BY <2>1, Zenon DEF InUse, WellFormed, Ladder
<1>6. \A t \in Tracks, x \in SetIds : track_to_set'[t] = x <=> InUse(x)' /\ OnLadder(sets[x].members, t)'
  <2> TAKE t \in Tracks, x \in SetIds
  <2>1. CASE x = s
    BY <1>1, <1>3, <2>1 DEF InUse, OnLadder
  <2>2. CASE x # s
    <3>1. sets'[x] = sets[x] /\ (track_to_set'[t] = x <=> track_to_set[t] = x)
      BY <1>3, <2>2
    <3>2. track_to_set[t] = x <=> InUse(x) /\ OnLadder(sets[x].members, t)
      BY Zenon DEF Membership
    <3> QED
      BY <3>1, <3>2, Zenon DEF InUse, OnLadder
  <2> QED
    BY <2>1, <2>2, Zenon
<1>7. \A x \in SetIds : open_streams'[x] > 0 => InUse(x)'
  BY <1>1, <1>3, Zenon DEF Membership, InUse
<1> QED
  BY <1>4, <1>5, <1>6, <1>7, Zenon DEF Membership

\* A set is torn down with its last member.
LEMMA DropSet ==
    ASSUME Membership, NEW s \in SetIds, sets' = [sets EXCEPT ![s] = NoSet],
           track_to_set' \in [Tracks -> SetIds \cup {None}],
           \A t \in Tracks, x \in SetIds \ {s} : track_to_set'[t] = x <=> track_to_set[t] = x,
           \A t \in Tracks : track_to_set'[t] # s,
           open_streams' = [open_streams EXCEPT ![s] = 0], epoch' \in Nat
    PROVE  Membership'
<1>2. sets' = [x \in SetIds |-> IF x = s THEN NoSet ELSE sets[x]]
  BY Zenon DEF Membership
<1>3. sets'[s] = NoSet /\ \A x \in SetIds \ {s} : sets'[x] = sets[x]
  BY <1>2, Zenon
<1>4. sets' = [x \in SetIds |-> sets'[x]]
  BY <1>2, Zenon
<1>5. \A x \in SetIds : InUse(x)' => WellFormed(sets[x])'
  <2>1. \A x \in SetIds : sets'[x] # NoSet => WellFormed(sets'[x])
    BY <1>3, Zenon DEF Membership, InUse
  <2> QED
    BY <2>1, Zenon DEF InUse, WellFormed, Ladder
<1>6. \A t \in Tracks, x \in SetIds : track_to_set'[t] = x <=> InUse(x)' /\ OnLadder(sets[x].members, t)'
  <2> TAKE t \in Tracks, x \in SetIds
  <2>1. CASE x = s
    BY <1>3, <2>1, Zenon DEF InUse
  <2>2. CASE x # s
    <3>1. sets'[x] = sets[x] /\ (track_to_set'[t] = x <=> track_to_set[t] = x)
      BY <1>3, <2>2, Zenon
    <3>2. track_to_set[t] = x <=> InUse(x) /\ OnLadder(sets[x].members, t)
      BY Zenon DEF Membership
    <3> QED
      BY <3>1, <3>2, Zenon DEF InUse, OnLadder
  <2> QED
    BY <2>1, <2>2, Zenon
<1>7. open_streams' \in [SetIds -> Nat]
  BY Zenon DEF Membership
<1>8. \A x \in SetIds : open_streams'[x] > 0 => InUse(x)'
  BY <1>3 DEF Membership, InUse
<1> QED
  BY <1>4, <1>5, <1>6, <1>7, <1>8 DEF Membership

\* A change of what a track leads to shows in the epoch.
Shows == (track_to_set' = track_to_set /\ epoch' = epoch) \/ epoch' = epoch + 1

\* An operation that is refused, or finds nothing to do.
LEMMA UnchangedKeeps ==
    ASSUME Membership, UNCHANGED manager
    PROVE  Membership' /\ Shows
<1>1. UNCHANGED <<sets, track_to_set, epoch, open_streams>>
  BY Zenon DEF manager
<1>2. \A s \in SetIds : InUse(s)' = InUse(s)
  BY <1>1, Zenon DEF InUse
<1> QED
  BY <1>1, <1>2, ZenonT(60) DEF Membership, Shows

\* assign, for a track that is in no other set.
LEMMA AssignKeeps ==
    ASSUME LaddersKept, Membership, NEW op, OpOK(op), assign(op),
           track_to_set[op.track] \in {None, op.set}
    PROVE  Membership' /\ Shows
<1> DEFINE base == IF InUse(op.set) THEN sets[op.set] ELSE [members |-> <<>>]
           set == Assigned(base, op)
<1>1. Ladder(base.members)
  <2>1. CASE InUse(op.set)
    BY <2>1, Zenon DEF Membership, WellFormed, OpOK
  <2>2. CASE ~InUse(op.set)
    <3>1. base.members = <<>>
      BY <2>2, Zenon
    <3>2. <<>> \in Seq(Member) /\ DOMAIN <<>> = {}
      OBVIOUS
    <3> QED
      BY <3>1, <3>2, Zenon DEF Ladder
  <2> QED
    BY <2>1, <2>2, Zenon
<1>2. WellFormed(set) /\ \A t : OnLadder(set.members, t) <=> OnLadder(base.members, t) \/ t = op.track
  BY <1>1, AssignedSet, Zenon
<1>3. \A t \in Tracks : OnLadder(base.members, t) <=> track_to_set[t] = op.set
  <2> TAKE t \in Tracks
  <2>1. CASE InUse(op.set)
    BY <2>1, Zenon DEF Membership, OpOK
  <2>2. CASE ~InUse(op.set)
    <3>1. base.members = <<>>
      BY <2>2, Zenon
    <3>2. ~OnLadder(base.members, t)
      BY <3>1 DEF OnLadder
    <3> QED
      BY <2>2, <3>2, Zenon DEF Membership, OpOK
  <2> QED
    BY <2>1, <2>2, Zenon
<1>4. sets' = [sets EXCEPT ![op.set] = set]
  BY Zenon DEF assign
<1> HIDE DEF base, set
<1>5. op.track \in Tracks /\ op.set \in SetIds /\ None \notin SetIds
  BY SstsConstants, Zenon DEF OpOK
<1>6. /\ track_to_set' = [track_to_set EXCEPT ![op.track] = op.set]
      /\ track_to_set \in [Tracks -> SetIds \cup {None}]
      /\ open_streams' = open_streams /\ epoch' = epoch + 1 /\ epoch \in Nat
  BY Zenon DEF assign, Membership
<1>7. track_to_set' \in [Tracks -> SetIds \cup {None}]
  BY <1>5, <1>6, Zenon
<1>8. \A t \in Tracks, x \in SetIds \ {op.set} : track_to_set'[t] = x <=> track_to_set[t] = x
  BY <1>5, <1>6, Zenon
<1>9. \A t \in Tracks : track_to_set'[t] = op.set <=> OnLadder(set.members, t)
  BY <1>2, <1>3, <1>5, <1>6, Zenon
<1>10. epoch' \in Nat
  BY <1>6
<1>11. Membership'
  BY <1>2, <1>4, <1>5, <1>6, <1>7, <1>8, <1>9, <1>10, PutSet, ZenonT(30)
<1> QED
  BY <1>6, <1>11, Zenon DEF Shows

\* Replacing the member list of a set by another ladder leaves it well formed.
LEMMA ListReplaced ==
    ASSUME NEW set, WellFormed(set), NEW ms, Ladder(ms), ms # <<>>
    PROVE  WellFormed([set EXCEPT !.members = ms]) /\ [set EXCEPT !.members = ms].members = ms
<1>1. DOMAIN [set EXCEPT !.members = ms] = DOMAIN set /\ [set EXCEPT !.members = ms].members = ms
  BY Zenon DEF WellFormed
<1> QED
  BY <1>1, Zenon DEF WellFormed

\* remove, with or without tearing the set down.
LEMMA RemoveKeeps ==
    ASSUME LaddersKept, Membership, NEW t \in Tracks, remove(t)
    PROVE  Membership' /\ Shows
<1> DEFINE s == track_to_set[t]
           left == Without(sets[s].members, t)
           set == [sets[s] EXCEPT !.members = left]
<1>1. CASE s = None
  <2>1. UNCHANGED manager
    BY <1>1, Zenon DEF remove
  <2> QED
    BY <2>1, UnchangedKeeps, Zenon
<1>2. CASE s # None
  <2>1. /\ track_to_set' = [track_to_set EXCEPT ![t] = None]
        /\ epoch' = epoch + 1
        /\ sets' = [sets EXCEPT ![s] = IF left = <<>> THEN NoSet ELSE set]
        /\ open_streams' = [open_streams EXCEPT ![s] = IF left = <<>> THEN 0 ELSE open_streams[s]]
    BY <1>2, Zenon DEF remove
  <2>2. /\ s \in SetIds /\ None \notin SetIds
        /\ track_to_set \in [Tracks -> SetIds \cup {None}]
        /\ open_streams \in [SetIds -> Nat] /\ epoch \in Nat
    BY <1>2, SstsConstants DEF Membership
  <2>3. InUse(s) /\ WellFormed(sets[s]) /\ Ladder(sets[s].members)
    BY <2>2, Zenon DEF Membership, WellFormed
  <2>4. Ladder(left) /\ \A u : OnLadder(left, u) <=> OnLadder(sets[s].members, u) /\ u # t
    BY <2>3, Zenon DEF LaddersKept
  <2>5. \A u \in Tracks : OnLadder(left, u) <=> track_to_set[u] = s /\ u # t
    BY <2>2, <2>3, <2>4, Zenon DEF Membership
  <2> HIDE DEF s, left
  <2>6. /\ track_to_set' \in [Tracks -> SetIds \cup {None}] /\ epoch' \in Nat
        /\ \A u \in Tracks, x \in SetIds \ {s} : track_to_set'[u] = x <=> track_to_set[u] = x
        /\ \A u \in Tracks : track_to_set'[u] = s <=> OnLadder(left, u)
    BY <2>1, <2>2, <2>5 DEF s
  <2>7. CASE left = <<>>
    <3>1. \A u \in Tracks : ~OnLadder(left, u)
      BY <2>7 DEF OnLadder
    <3>2. sets' = [sets EXCEPT ![s] = NoSet] /\ open_streams' = [open_streams EXCEPT ![s] = 0]
      BY <2>1, <2>7, Zenon
    <3>3. Membership'
      BY <2>2, <2>6, <3>1, <3>2, DropSet, ZenonT(30)
    <3> QED
      BY <2>1, <3>3, Zenon DEF Shows
  <2>8. CASE left # <<>>
    <3>1. WellFormed(set) /\ set.members = left
      BY <2>3, <2>4, <2>8, ListReplaced, Zenon
    <3>2. sets' = [sets EXCEPT ![s] = set]
      BY <2>1, <2>8
    <3>3. open_streams' = open_streams
      BY <2>1, <2>2, <2>8
    <3>4. \A u \in Tracks : track_to_set'[u] = s <=> OnLadder(set.members, u)
      BY <2>6, <3>1, Zenon
    <3> HIDE DEF set
    <3>5. Membership'
      BY <2>2, <2>6, <3>1, <3>2, <3>3, <3>4, PutSet, ZenonT(30)
    <3> QED
      BY <2>1, <3>5, Zenon DEF Shows
  <2> QED
    BY <2>7, <2>8, Zenon
<1> QED
  BY <1>1, <1>2, Zenon

\* A set whose list is replaced by a ladder of the same tracks.
LEMMA SameTracks ==
    ASSUME Membership, NEW s \in SetIds, InUse(s), NEW set, WellFormed(set),
           \A t : OnLadder(set.members, t) <=> OnLadder(sets[s].members, t),
           sets' = [sets EXCEPT ![s] = set],
           track_to_set' = track_to_set, open_streams' = open_streams, epoch' \in Nat
    PROVE  Membership'
<1>1. \A t \in Tracks : track_to_set'[t] = s <=> OnLadder(set.members, t)
  BY Zenon DEF Membership
<1>2. track_to_set' \in [Tracks -> SetIds \cup {None}]
  BY Zenon DEF Membership
<1>3. \A t \in Tracks, x \in SetIds \ {s} : track_to_set'[t] = x <=> track_to_set[t] = x
  BY Zenon
<1> QED
  BY <1>1, <1>2, <1>3, PutSet, ZenonT(30)

\* release: the last holder takes the member with it.
LEMMA ReleaseKeeps ==
    ASSUME LaddersKept, Membership, NEW t \in Tracks, NEW r \in Requests, release(t, r)
    PROVE  Membership' /\ Shows
<1> DEFINE s == track_to_set[t]
           i == CHOOSE x \in MemberAt(sets[s], t) : TRUE
           ms == sets[s].members
           held == ms[i].holders
           m == [ms[i] EXCEPT !.holders = held \ {r}]
           let == [ms EXCEPT ![i] = m]
           set == [sets[s] EXCEPT !.members = let]
<1>1. CASE s = None \/ r \notin held
  <2>1. UNCHANGED manager
    BY <1>1, Zenon DEF release
  <2> QED
    BY <2>1, UnchangedKeeps
<1>2. CASE s # None /\ held = {r}
  BY <1>2, RemoveKeeps, Zenon DEF release
<1>3. CASE s # None /\ r \in held /\ held # {r}
  <2>1. sets' = [sets EXCEPT ![s] = set] /\ UNCHANGED <<track_to_set, open_streams, epoch>>
    BY <1>3, ZenonT(30) DEF release
  <2>2. s \in SetIds /\ InUse(s) /\ WellFormed(sets[s]) /\ Ladder(ms) /\ OnLadder(ms, t)
    <3>1. s \in SetIds
      <4>1. track_to_set \in [Tracks -> SetIds \cup {None}]
        BY Zenon DEF Membership
      <4> HIDE DEF ms, i, m, let, set
      <4> QED
        BY <1>3, <4>1
    <3>2. InUse(s) /\ OnLadder(ms, t)
      BY <3>1, Zenon DEF Membership
    <3>3. WellFormed(sets[s])
      BY <3>1, <3>2, Zenon DEF Membership
    <3> QED
      BY <3>1, <3>2, <3>3, Zenon DEF WellFormed
  <2>3. i \in DOMAIN ms /\ ms[i].track = t
    BY <2>2, Zenon DEF OnLadder, MemberAt
  <2>4. ms \in Seq(Member)
    BY <2>2 DEF Ladder
  <2>5. ms[i] \in Member
    <3> HIDE DEF ms, i
    <3> QED
      BY <2>3, <2>4
  <2>6. m \in Member /\ m.track = ms[i].track /\ m.threshold = ms[i].threshold /\ m.holders = held \ {r}
    BY <2>5, Zenon DEF Member
  <2>7. m.holders # {}
    BY <1>3, <2>6, Zenon
  <2> HIDE DEF m, ms, i
  <2>8. let \in Seq(Member) /\ DOMAIN let = DOMAIN ms
    BY <2>3, <2>4, <2>6
  <2>9. \A k \in DOMAIN ms : let[k] = IF k = i THEN m ELSE ms[k]
    BY <2>3, <2>4, Zenon
  <2>10. \A k \in DOMAIN ms : let[k].track = ms[k].track /\ let[k].threshold = ms[k].threshold
                              /\ let[k].holders # {}
    BY <2>2, <2>6, <2>7, <2>9, Zenon DEF Ladder
  <2> HIDE DEF let
  <2>11. Ladder(let)
    <3>1. \A k \in DOMAIN let : let[k].holders # {}
      BY <2>8, <2>10, Zenon
    <3>2. ASSUME NEW k \in DOMAIN let, NEW l \in DOMAIN let, k < l
          PROVE  let[k].track # let[l].track /\ let[k].threshold <= let[l].threshold
      <4>1. ms[k].track # ms[l].track /\ ms[k].threshold <= ms[l].threshold
        BY <2>2, <2>8, <3>2, Zenon DEF Ladder
      <4>2. /\ let[k].track = ms[k].track /\ let[k].threshold = ms[k].threshold
            /\ let[l].track = ms[l].track /\ let[l].threshold = ms[l].threshold
        BY <2>8, <2>10, Zenon
      <4> QED
        BY <4>1, <4>2, Zenon
    <3> QED
      BY <2>8, <3>1, <3>2, Zenon DEF Ladder
  <2>12. let # <<>>
    BY <2>3, <2>8
  <2>13. \A u : OnLadder(let, u) <=> OnLadder(ms, u)
    BY <2>8, <2>10, Zenon DEF OnLadder
  <2>14. WellFormed(set) /\ set.members = let
    BY <2>2, <2>11, <2>12, ListReplaced, Zenon
  <2> HIDE DEF set, s
  <2>15. \A u : OnLadder(set.members, u) <=> OnLadder(sets[s].members, u)
    BY <2>13, <2>14, Zenon DEF ms
  <2>16. epoch' \in Nat
    BY <2>1, Zenon DEF Membership
  <2>17. Membership'
    BY <2>1, <2>2, <2>14, <2>15, <2>16, SameTracks, ZenonT(30)
  <2> QED
    BY <2>1, <2>17, Zenon DEF Shows
<1> QED
  BY <1>1, <1>2, <1>3, ZenonT(30)

\* update_assignment: the ladder is sorted again.
LEMMA UpdateKeeps ==
    ASSUME LaddersKept, Membership, NEW op, OpOK(op), update_assignment(op)
    PROVE  Membership' /\ Shows
<1> DEFINE s == track_to_set[op.track]
           ms == sets[s].members
           up(i) == [ms[i] EXCEPT !.threshold = op.threshold]
           moved == [i \in DOMAIN ms |-> IF ms[i].track = op.track THEN up(i) ELSE ms[i]]
           set == [sets[s] EXCEPT !.weight = op.weight, !.activate = op.activate,
                                  !.rank = op.rank, !.members = SortedByThreshold(moved)]
<1>1. CASE s = None
  <2>1. UNCHANGED manager
    BY <1>1, Zenon DEF update_assignment
  <2> QED
    BY <2>1, UnchangedKeeps, Zenon
<1>2. CASE s # None
  <2>1. sets' = [sets EXCEPT ![s] = set] /\ epoch' = epoch + 1 /\ UNCHANGED <<track_to_set, open_streams>>
    BY <1>2, Zenon DEF update_assignment
  <2>2. s \in SetIds /\ InUse(s) /\ WellFormed(sets[s]) /\ Ladder(ms) /\ ms # <<>>
    BY <1>2 DEF Membership, WellFormed, OpOK
  <2>3. ms \in Seq(Member)
    BY <2>2, Zenon DEF Ladder
  <2>4. \A i \in DOMAIN ms : ms[i] \in Member
    <3> HIDE DEF ms
    <3> QED
      BY <2>3, SeqElement, ZenonT(60)
  <2>5. \A i \in DOMAIN ms : up(i) \in Member /\ up(i).track = ms[i].track /\ up(i).holders = ms[i].holders
    BY <2>4 DEF Member, OpOK
  <2> HIDE DEF up, ms
  <2>6. moved \in Seq(Member) /\ DOMAIN moved = DOMAIN ms
    BY <2>3, <2>4, <2>5
  <2>7. \A i \in DOMAIN ms : moved[i].track = ms[i].track /\ moved[i].holders = ms[i].holders
    BY <2>5, Zenon
  <2> HIDE DEF moved
  <2>8. moved # <<>>
    BY <2>2, <2>3, <2>6
  <2>9. \A i \in DOMAIN moved : moved[i].holders # {}
    BY <2>2, <2>6, <2>7, ZenonT(30) DEF Ladder
  <2>10. \A i, j \in DOMAIN moved : i # j => moved[i].track # moved[j].track
    <3>1. DOMAIN ms = 1..Len(ms) /\ Len(ms) \in Nat
      BY <2>3
    <3> QED
      BY <2>2, <2>6, <2>7, <3>1 DEF Ladder
  <2>11. \A t : OnLadder(moved, t) <=> OnLadder(ms, t)
    BY <2>6, <2>7, Zenon DEF OnLadder
  <2>12. /\ Ladder(SortedByThreshold(moved)) /\ SortedByThreshold(moved) # <<>>
         /\ \A t : OnLadder(SortedByThreshold(moved), t) <=> OnLadder(moved, t)
    BY <2>6, <2>8, <2>9, <2>10, Zenon DEF LaddersKept
  <2>13. DOMAIN set = DOMAIN sets[s] /\ set.members = SortedByThreshold(moved)
    BY <2>2, Zenon DEF WellFormed
  <2>14. WellFormed(set)
    <3> HIDE DEF set
    <3> QED
      BY <2>2, <2>12, <2>13, Zenon DEF WellFormed
  <2>15. \A t : OnLadder(set.members, t) <=> OnLadder(sets[s].members, t)
    BY <2>11, <2>12, <2>13, Zenon DEF ms
  <2> HIDE DEF set, s
  <2>16. epoch' \in Nat
    BY <2>1 DEF Membership
  <2>17. Membership'
    BY <2>1, <2>2, <2>14, <2>15, <2>16, SameTracks, ZenonT(60)
  <2> QED
    BY <2>1, <2>17, Zenon DEF Shows
<1> QED
  BY <1>1, <1>2, Zenon

\* A forwarding stream is opened, or closed, on a track.
LEMMA CountKeeps ==
    ASSUME Membership, NEW t \in Tracks, UNCHANGED <<sets, track_to_set, epoch>>,
           open_streams' \in {open_streams, Opened(t), note_stream_closed(t)}
    PROVE  Membership' /\ Shows
<1> DEFINE s == track_to_set[t]
<1>1. open_streams' \in [SetIds -> Nat] /\ \A x \in SetIds : open_streams'[x] > 0 => InUse(x)
  <2>1. s # None => s \in SetIds /\ InUse(s)
    BY DEF Membership
  <2>2. open_streams \in [SetIds -> Nat] /\ \A x \in SetIds : open_streams[x] > 0 => InUse(x)
    BY Zenon DEF Membership
  <2> HIDE DEF s
  <2>3. \A n \in Nat : saturating_sub(n, 1) \in Nat
    BY DEF saturating_sub
  <2>4. Opened(t) = IF s = None THEN open_streams ELSE [open_streams EXCEPT ![s] = open_streams[s] + 1]
    BY Zenon DEF Opened, s
  <2>5. note_stream_closed(t) = IF s = None THEN open_streams
                                ELSE [open_streams EXCEPT ![s] = saturating_sub(open_streams[s], 1)]
    BY Zenon DEF note_stream_closed, s
  <2>6. CASE open_streams' = open_streams
    BY <2>2, <2>6, Zenon
  <2>7. CASE open_streams' = Opened(t)
    BY <2>1, <2>2, <2>4, <2>7
  <2>8. CASE open_streams' = note_stream_closed(t)
    BY <2>1, <2>2, <2>3, <2>5, <2>8
  <2> QED
    BY <2>6, <2>7, <2>8, Zenon
<1>2. \A x \in SetIds : InUse(x)' <=> InUse(x)
  BY Zenon DEF InUse
<1>3. \A x \in SetIds : open_streams'[x] > 0 => InUse(x)'
  BY <1>1, <1>2, Zenon
<1> QED
  BY <1>1, <1>3 DEF Membership, Shows, InUse, WellFormed, Ladder, OnLadder

-----------------------------------------------------------------------------
(* The gates and the controller. *)

\* An operation on the sets leaves every gate, decision and question as it was.
LEMMA SetsChange ==
    ASSUME IInv, Membership', Shows, ops' \subseteq ops,
           UNCHANGED <<setting, decisions, chan, abr, gates, feed, forwarded, pruned>>
    PROVE  IInv'
<1>1. epoch \in Nat /\ gates \in [Requests -> Gate]
  BY Zenon DEF IInv, Membership, Types
<1>2. Types'
  BY Zenon DEF IInv, Types, Controller
<1>3. ASSUME NEW r \in Requests
      PROVE  StampedGate(r, gates[r], feed[r])' /\ CachedVerdict(r, gates[r].cache)'
                /\ (Waits(gates[r])' => Waits(gates[r]))
  <2>1. StampedGate(r, gates[r], feed[r]) /\ CachedVerdict(r, gates[r].cache)
    BY Zenon DEF IInv, Stamped, Cached
  <2>2. gates[r].epoch \in Nat /\ gates[r].cache.epoch \in Nat
    BY <1>1, Zenon DEF Gate
  <2>3. CASE track_to_set' = track_to_set /\ epoch' = epoch
    BY <2>1, <2>3, Zenon DEF StampedGate, CachedVerdict, Verdict, Waits, TrackOf, Answered
  <2>4. CASE epoch' = epoch + 1
    <3>1. gates[r].epoch # epoch' /\ gates[r].cache.epoch # epoch'
           /\ gates[r].epoch <= epoch' /\ gates[r].cache.epoch <= epoch'
      BY <1>1, <2>1, <2>2, <2>4 DEF StampedGate
    <3>2. StampedGate(r, gates[r], feed[r])'
      BY <2>1, <3>1, Zenon DEF StampedGate
    <3> QED
      BY <3>1, <3>2, Zenon DEF CachedVerdict, Waits
  <2> QED
    BY <2>3, <2>4, Zenon DEF Shows
<1>4. Carried'
  BY Zenon DEF IInv, Carried, Left, Decided, Answered, TrackOf
<1>5. Awaited'
  BY <1>3, Zenon DEF IInv, Awaited, Asked, Object
<1> QED
  BY <1>2, <1>3, <1>4, <1>5, Zenon DEF IInv, Stamped, Cached

\* One gate moves, and what was asked stays asked.
LEMMA GateMoves ==
    ASSUME IInv, Membership', NEW r \in Requests, NEW g \in Gate, gates' = [gates EXCEPT ![r] = g],
           UNCHANGED <<setting, ops, track_to_set, epoch, decisions, abr, pruned>>,
           feed' \in [Requests -> Seq(Nat)], \A q \in Requests \ {r} : feed'[q] = feed[q],
           chan' \in Seq(Question),
           \A x : (\E i \in DOMAIN chan : chan[i] = x) => \E i \in DOMAIN chan' : chan'[i] = x,
           StampedGate(r, g, feed'[r]), CachedVerdict(r, g.cache), Waits(g) => Asked(Object(r))',
           Carried'
    PROVE  IInv'
<1>1. gates \in [Requests -> Gate]
  BY Zenon DEF IInv, Types
<1>2. gates' \in [Requests -> Gate] /\ gates'[r] = g /\ \A q \in Requests \ {r} : gates'[q] = gates[q]
  BY <1>1, Zenon
<1>3. Types'
  BY <1>2, Zenon DEF IInv, Types, Controller
<1>4. ASSUME NEW q \in Requests
      PROVE  StampedGate(q, gates[q], feed[q])' /\ CachedVerdict(q, gates[q].cache)'
  <2>1. CASE q = r
    BY <1>2, <2>1 DEF StampedGate, CachedVerdict, Verdict, TrackOf, Answered
  <2>2. CASE q # r
    <3>1. gates'[q] = gates[q] /\ feed'[q] = feed[q]
      BY <1>2, <2>2
    <3>2. StampedGate(q, gates[q], feed[q]) /\ CachedVerdict(q, gates[q].cache)
      BY ZenonT(60) DEF IInv, Stamped, Cached
    <3>3. StampedGate(q, gates[q], feed[q])'
      BY <3>1, <3>2, SMTT(60) DEF StampedGate, TrackOf
    <3>4. CachedVerdict(q, gates[q].cache)'
      <4>1. \A c : CachedVerdict(q, c) => CachedVerdict(q, c)'
        BY Zenon DEF CachedVerdict, Verdict, TrackOf, Answered
      <4> QED
        BY <3>1, <3>2, <4>1
    <3> QED
      BY <3>3, <3>4, ZenonT(30)
  <2> QED
    BY <2>1, <2>2, ZenonT(60)
<1>5. ASSUME NEW q \in Requests, Waits(gates[q])'
      PROVE  Asked(Object(q))'
  <2>1. CASE q = r
    BY <1>2, <1>5, <2>1 DEF Waits
  <2>2. CASE q # r
    <3>1. gates'[q] = gates[q] /\ feed'[q] = feed[q]
      BY <1>2, <2>2, Zenon
    <3>2. Asked(Object(q))
      BY <1>5, <3>1, Zenon DEF IInv, Awaited, Waits
    <3> QED
      BY <3>1, <3>2, ZenonT(60) DEF Asked, Object
  <2> QED
    BY <2>1, <2>2, Zenon
<1> QED
  BY <1>3, <1>4, <1>5 DEF IInv, Stamped, Cached, Awaited

\* Waking everyone loses no question.
LEMMA EveryoneWoken ==
    ASSUME IInv, gates' = notify_waiters(gates),
           UNCHANGED <<setting, ops, manager, feed>>, Controller', Carried',
           \A r \in Requests : \A c : CachedVerdict(r, c) => CachedVerdict(r, c)'
    PROVE  IInv'
<1>1. gates \in [Requests -> Gate]
  BY Zenon DEF IInv, Types
<1>2. \A r \in Requests : /\ gates'[r] \in Gate /\ gates'[r].pc = gates[r].pc
                          /\ gates'[r].epoch = gates[r].epoch
                          /\ gates'[r].set = gates[r].set /\ gates'[r].cache = gates[r].cache
                          /\ gates'[r].notified
  <2> TAKE r \in Requests
  <2>1. gates'[r] = [gates[r] EXCEPT !.notified = TRUE]
    BY Zenon DEF notify_waiters
  <2>2. gates[r] \in Gate
    BY <1>1, Zenon
  <2> QED
    BY <2>1, <2>2, Zenon DEF Gate
<1>3. gates' \in [Requests -> Gate]
  BY <1>2, Zenon DEF notify_waiters
<1>4. Membership'
  BY UnchangedKeeps, Zenon DEF IInv
<1>5. Stamped'
  BY <1>2 DEF IInv, Stamped, StampedGate, manager, TrackOf
<1>6. Cached'
  BY <1>2, Zenon DEF IInv, Cached
<1>7. Awaited'
  BY <1>2, Zenon DEF Awaited, Waits
<1>8. Types'
  BY <1>3, Zenon DEF IInv, Types
<1> QED
  BY <1>4, <1>5, <1>6, <1>7, <1>8 DEF IInv

\* The controller moves, the gates stay, and what was asked stays asked.
LEMMA GatesStay ==
    ASSUME IInv, UNCHANGED <<setting, ops, manager, decisions, gates, feed, forwarded, pruned>>, Controller',
           \A r \in Requests : Waits(gates[r]) /\ Asked(Object(r)) => Asked(Object(r))'
    PROVE  IInv'
<1>1. Membership'
  BY UnchangedKeeps, Zenon DEF IInv
<1>2. Types'
  BY Zenon DEF IInv, Types
<1>3. Stamped'
  BY Zenon DEF IInv, Stamped, StampedGate, manager, TrackOf
<1>4. Cached'
  BY Zenon DEF IInv, Cached, CachedVerdict, Verdict, manager, TrackOf, Answered
<1>5. Carried'
  BY Zenon DEF IInv, Carried, Left, Decided, TrackOf, Answered
<1>6. Awaited'
  BY Zenon DEF IInv, Awaited, Waits, manager
<1> QED
  BY <1>1, <1>2, <1>3, <1>4, <1>5, <1>6 DEF IInv

\* Taking the head of the channel, every other message stays.
LEMMA HeadTaken ==
    ASSUME Controller, chan # <<>>, chan' = Tail(chan)
    PROVE  /\ chan' \in Seq(Question)
           /\ Head(chan) \in Question
           /\ \A x : (\E i \in DOMAIN chan : chan[i] = x) /\ x # Head(chan)
                       => \E i \in DOMAIN chan' : chan'[i] = x
<1>1. chan \in Seq(Question) /\ Len(chan) \in Nat \ {0}
  BY DEF Controller
<1>2. chan' \in Seq(Question) /\ Head(chan) \in Question /\ Head(chan) = chan[1]
  BY <1>1
<1>3. DOMAIN chan = 1..Len(chan) /\ DOMAIN chan' = 1..(Len(chan) - 1)
  BY <1>1
<1>4. \A i \in 1..(Len(chan) - 1) : chan'[i] = chan[i + 1]
  BY <1>1
<1>5. ASSUME NEW x, NEW i \in DOMAIN chan, chan[i] = x, x # Head(chan)
      PROVE  \E k \in DOMAIN chan' : chan'[k] = x
  <2>1. i # 1
    BY <1>2, <1>5, Zenon
  <2>2. i - 1 \in 1..(Len(chan) - 1) /\ (i - 1) + 1 = i
    BY <1>1, <1>3, <2>1
  <2>3. chan'[i - 1] = x
    BY <1>4, <1>5, <2>2, Zenon
  <2> QED
    BY <1>3, <2>2, <2>3
<1> QED
  BY <1>2, <1>5, Zenon

\* The boundary of a group: those waiting are woken, or the question is the controller's.
LEMMA NewGroupKeeps == ASSUME IInv, NewGroup PROVE IInv'
<1> DEFINE g == Head(chan).group
           known == Seen(g)
           deciding == [known EXCEPT !.pc = "decide", !.group = g]
<1>1. /\ Idle /\ chan # <<>> /\ Head(chan).kind = "NewGroup" /\ chan' = Tail(chan)
      /\ IF g \in DOMAIN decisions THEN abr' = known /\ gates' = notify_waiters(gates)
         ELSE abr' = deciding /\ UNCHANGED gates
      /\ UNCHANGED <<setting, ops, manager, decisions, feed, forwarded, pruned>>
  BY Zenon DEF NewGroup
<1>2. Controller
  BY Zenon DEF IInv, Types
<1>3. chan' \in Seq(Question) /\ Head(chan) \in Question
      /\ \A x : (\E i \in DOMAIN chan : chan[i] = x) /\ x # Head(chan) => \E i \in DOMAIN chan' : chan'[i] = x
  BY <1>1, <1>2, HeadTaken, Zenon
<1>4. DOMAIN known = DOMAIN abr /\ known.pc = abr.pc
  BY <1>2, Zenon DEF Controller, Seen
<1>5. DOMAIN deciding = DOMAIN abr /\ deciding.pc = "decide" /\ deciding.group = g
  BY <1>2, Zenon DEF Controller, Seen
<1> HIDE DEF known, deciding
<1>6. CASE g \in DOMAIN decisions
  <2>1. Controller'
    BY <1>1, <1>2, <1>3, <1>4, <1>6 DEF Controller
  <2>2. Carried'
    BY <1>1, ZenonT(60) DEF IInv, Carried, Left, Decided, TrackOf, Answered
  <2>3. \A r \in Requests : \A c : CachedVerdict(r, c) => CachedVerdict(r, c)'
    BY <1>1 DEF CachedVerdict, Verdict, manager, TrackOf, Answered
  <2> QED
    BY <1>1, <1>6, <2>1, <2>2, <2>3, EveryoneWoken
<1>7. CASE g \notin DOMAIN decisions
  <2>1. Controller'
    BY <1>1, <1>2, <1>3, <1>5, <1>7 DEF Controller
  <2>2. ASSUME NEW r \in Requests, Asked(Object(r))
        PROVE  Asked(Object(r))'
    <3> DEFINE q == [kind |-> "NewGroup", group |-> Object(r)]
    <3>1. \E i \in DOMAIN chan : chan[i] = q
      BY <1>1, <2>2, Zenon DEF Asked, Idle
    <3>2. Object(r)' = Object(r)
      BY <1>1, ZenonT(30) DEF Object
    <3>3. CASE q = Head(chan)
      <4>1. Object(r) = g
        BY <3>3
      <4> QED
        BY <1>1, <1>5, <1>7, <3>2, <4>1 DEF Asked
    <3>4. CASE q # Head(chan)
      <4>1. \E i \in DOMAIN chan' : chan'[i] = q
        BY <1>3, <3>1, <3>4, Zenon
      <4> QED
        BY <3>2, <4>1, Zenon DEF Asked
    <3> QED
      BY <3>3, <3>4
  <2> QED
    BY <1>1, <1>7, <2>1, <2>2, GatesStay, ZenonT(60)
<1> QED
  BY <1>6, <1>7, Zenon

\* A report of a stream that timed out takes no question with it.
LEMMA StreamTimeoutKeeps == ASSUME IInv, StreamTimeout PROVE IInv'
<1> DEFINE known == TimedOut(Head(chan).group)
           deciding == [known EXCEPT !.pc = "decide", !.group = abr.last]
<1>1. /\ Idle /\ chan # <<>> /\ Head(chan).kind = "StreamTimeout" /\ chan' = Tail(chan)
      /\ abr' = IF abr.last = NoGroup THEN known ELSE deciding
      /\ UNCHANGED <<setting, ops, manager, decisions, gates, feed, forwarded, pruned>>
  BY Zenon DEF StreamTimeout
<1>2. Controller
  BY Zenon DEF IInv, Types
<1>3. chan' \in Seq(Question)
      /\ \A x : (\E i \in DOMAIN chan : chan[i] = x) /\ x # Head(chan) => \E i \in DOMAIN chan' : chan'[i] = x
  BY <1>1, <1>2, HeadTaken, Zenon
<1>4. DOMAIN known = DOMAIN abr /\ known.pc = abr.pc
  BY <1>2, Zenon DEF Controller, TimedOut
<1>5. DOMAIN deciding = DOMAIN abr /\ deciding.pc = "decide"
  BY <1>2, Zenon DEF Controller, TimedOut
<1> HIDE DEF known, deciding
<1>6. Controller'
  BY <1>1, <1>2, <1>3, <1>4, <1>5 DEF Controller
<1>7. ASSUME NEW r \in Requests, Asked(Object(r))
      PROVE  Asked(Object(r))'
  <2> DEFINE q == [kind |-> "NewGroup", group |-> Object(r)]
  <2>1. \E i \in DOMAIN chan : chan[i] = q
    BY <1>1, <1>7, Zenon DEF Asked, Idle
  <2>2. q # Head(chan) /\ Object(r)' = Object(r)
    BY <1>1 DEF Object
  <2>3. \E i \in DOMAIN chan' : chan'[i] = q
    BY <1>3, <2>1, <2>2
  <2> QED
    BY <2>2, <2>3, Zenon DEF Asked
<1> QED
  BY <1>1, <1>6, <1>7, GatesStay

\* A tick of the controller's timer.
LEMMA TickKeeps == ASSUME IInv, Tick PROVE IInv'
<1>1. Controller /\ Idle /\ UNCHANGED <<setting, ops, manager, decisions, chan, gates, feed, forwarded, pruned>>
  BY Zenon DEF IInv, Types, Tick
<1>2. DOMAIN abr' = DOMAIN abr /\ abr'.pc = "decide"
  BY <1>1, Zenon DEF Controller, Tick
<1>3. Controller'
  BY <1>1, <1>2, Zenon DEF Controller
<1>4. \A r \in Requests : Asked(Object(r)) => Asked(Object(r))'
  BY <1>1, Zenon DEF Asked, Object, Idle
<1> QED
  BY <1>1, <1>3, <1>4, GatesStay

\* A boundary is dropped only when no set is in use, and then no gate of this epoch waits.
LEMMA DecideKeeps == ASSUME IInv, NEW e, decide(e) PROVE IInv'
<1>1. Controller /\ UNCHANGED <<setting, ops, manager, decisions, chan, gates, feed, forwarded, pruned>>
  BY Zenon DEF IInv, Types, decide
<1>2. /\ abr.pc = "decide" /\ DOMAIN abr' = DOMAIN abr /\ abr'.group = abr.group
      /\ Snapshots = {} => abr'.pc = "idle"
      /\ Snapshots # {} => abr'.pc = "record"
  <2>1. CASE Snapshots = {}
    BY <1>1, <2>1, Zenon DEF Controller, decide
  <2>2. CASE Snapshots # {}
    BY <1>1, <2>2, Zenon DEF Controller, decide
  <2> QED
    BY <2>1, <2>2
<1>3. Controller'
  BY <1>1, <1>2 DEF Controller
<1>4. ASSUME NEW r \in Requests, Waits(gates[r]), Asked(Object(r))
      PROVE  Asked(Object(r))'
  <2>1. setting \in Settings /\ gates[r] \in Gate
    BY Zenon DEF IInv, Types
  <2>2. TrackOf(r) \in Tracks
    BY <2>1, SstsConstants, Zenon DEF TrackOf
  <2>3. gates[r].set # None /\ gates[r].set = track_to_set[TrackOf(r)]
    BY <1>4, Zenon DEF IInv, Stamped, StampedGate, Waits
  <2>4. gates[r].set \in SetIds
    BY <2>1, <2>3, Zenon DEF Gate
  <2>5. InUse(gates[r].set)
    BY <2>2, <2>3, <2>4, Zenon DEF IInv, Membership
  <2>6. Snapshots # {}
    BY <2>4, <2>5, Zenon DEF Snapshots
  <2> QED
    BY <1>1, <1>2, <1>4, <2>6 DEF Asked, Object
<1> QED
  BY <1>1, <1>3, <1>4, GatesStay

\* A group's answer is recorded once; what is dropped is known to be.
LEMMA RecordKeeps == ASSUME IInv, record_group_decision PROVE IInv'
<1> DEFINE oldest_kept == saturating_sub(abr.largest, DECISION_WINDOW)
           kept == {g \in DOMAIN decisions : g >= oldest_kept} \cup {abr.group}
<1>1. /\ Controller /\ UNCHANGED <<setting, ops, manager, chan, feed, forwarded>>
      /\ abr.pc = "record"
      /\ abr' = [abr EXCEPT !.pc = "idle", !.answer = <<>>, !.group = 0]
      /\ IF abr.group \in DOMAIN decisions THEN UNCHANGED <<decisions, gates, pruned>>
         ELSE /\ decisions' = [g \in kept |-> IF g = abr.group THEN abr.answer ELSE decisions[g]]
              /\ pruned' = pruned \cup {[group |-> g, answer |-> decisions[g]]
                                         : g \in DOMAIN decisions \ kept}
              /\ gates' = notify_waiters(gates)
  BY Zenon DEF record_group_decision, IInv, Types
<1>2. DOMAIN abr' = DOMAIN abr /\ abr'.pc = "idle"
  BY <1>1, Zenon DEF Controller
<1>3. Controller'
  BY <1>1, <1>2, Zenon DEF Controller
<1>4. abr.group \in kept
  BY Zenon
<1> HIDE DEF kept
<1>5. CASE abr.group \in DOMAIN decisions
  <2>1. \A r \in Requests : Asked(Object(r)) => Asked(Object(r))'
    BY <1>1, <1>5, Zenon DEF Asked, Object
  <2> QED
    BY <1>1, <1>3, <1>5, <2>1, GatesStay
<1>6. CASE abr.group \notin DOMAIN decisions
  <2>1. \A g \in DOMAIN decisions :
           \/ g \in DOMAIN decisions' /\ decisions'[g] = decisions[g]
           \/ [group |-> g, answer |-> decisions[g]] \in pruned'
    BY <1>1, <1>6, Zenon
  <2>2. pruned \subseteq pruned'
    BY <1>1, <1>6, Zenon
  <2>3. Carried'
    <3>1. \A g : ~Left(g)' => ~Left(g)
      BY <2>2 DEF Left
    <3>2. \A g, s : Answered(g, s) /\ ~Left(g)' =>
             Answered(g, s)' /\ decisions'[g][s] = decisions[g][s]
      BY <2>1 DEF Left, Answered
    <3>3. setting' = setting /\ forwarded' = forwarded
      BY <1>1, Zenon
    <3> HIDE DEF Left
    <3> QED
      BY <3>1, <3>2, <3>3, SMTT(60) DEF IInv, Carried, Decided, TrackOf
  <2>4. \A r \in Requests : \A c : CachedVerdict(r, c) => CachedVerdict(r, c)'
    <3>1. setting' = setting /\ track_to_set' = track_to_set /\ epoch' = epoch
      BY <1>1, Zenon DEF manager
    <3>2. ASSUME NEW g, NEW s, NEW t, NEW f, Verdict(g, s, t, f) PROVE Verdict(g, s, t, f)'
      <4>1. CASE Answered(g, s) /\ f = (decisions[g][s] = t)
        <5>1. CASE g \in DOMAIN decisions' /\ decisions'[g] = decisions[g]
          BY <4>1, <5>1, Zenon DEF Verdict, Answered
        <5>2. CASE [group |-> g, answer |-> decisions[g]] \in pruned'
          <6> DEFINE p == [group |-> g, answer |-> decisions[g]]
          <6>1. p.group = g /\ p.answer = decisions[g] /\ p \in pruned'
            BY <5>2, Zenon
          <6> HIDE DEF p
          <6> QED
            BY <4>1, <6>1, Zenon DEF Verdict, Answered
        <5> QED
          BY <2>1, <4>1, <5>1, <5>2, Zenon DEF Answered
      <4>2. CASE \E p \in pruned : /\ p.group = g /\ s \in DOMAIN p.answer
                                   /\ f = (p.answer[s] = t)
        BY <2>2, <4>2, Zenon DEF Verdict
      <4> QED
        BY <3>2, <4>1, <4>2, Zenon DEF Verdict
    <3> QED
      BY <3>1, <3>2, Zenon DEF CachedVerdict, TrackOf
  <2> QED
    BY <1>1, <1>3, <1>6, <2>3, <2>4, EveryoneWoken
<1> QED
  BY <1>5, <1>6, Zenon

-----------------------------------------------------------------------------
(* The steps of a gate. *)

\* An Object is handled: it leaves the feed, a stream may be opened and counted, and
\* what is forwarded on a decision is so on one that stands.
LEMMA HandledKeeps ==
    ASSUME IInv, NEW r \in Requests, feed[r] # <<>>, NEW forward, NEW on, Handled(r, forward, on),
           UNCHANGED <<setting, sets, track_to_set, epoch, decisions, pruned>>,
           forward /\ on # None /\ ~Left(Object(r)) => Decided(Object(r), on, TrackOf(r))
    PROVE  /\ Membership' /\ Carried' /\ feed' \in [Requests -> Seq(Nat)]
           /\ \A q \in Requests \ {r} : feed'[q] = feed[q]
<1>1. setting \in Settings /\ feed \in [Requests -> Seq(Nat)]
  BY Zenon DEF IInv, Types
<1>2. TrackOf(r) \in Tracks
  BY <1>1, SstsConstants, Zenon DEF TrackOf
<1>3. open_streams' \in {open_streams, Opened(TrackOf(r)), note_stream_closed(TrackOf(r))}
  BY ZenonT(60) DEF Handled
<1>4. Membership'
  BY <1>2, <1>3, CountKeeps DEF IInv
<1>5. feed' = [feed EXCEPT ![r] = Tail(feed[r])]
  BY Zenon DEF Handled
<1>6. feed' \in [Requests -> Seq(Nat)] /\ \A q \in Requests \ {r} : feed'[q] = feed[q]
  BY <1>1, <1>5
<1>7. \A x \in forwarded' : x \in forwarded
         \/ (forward /\ on # None /\ x.request = r /\ x.group = Object(r) /\ x.set = on)
  BY DEF Handled
<1>8. Carried'
  <2> SUFFICES ASSUME NEW x \in forwarded'
               PROVE  x.request \in Requests
                      /\ (~Left(x.group) => Decided(x.group, x.set, TrackOf(x.request)))
    BY Zenon DEF Carried, Left, Decided, Answered, TrackOf
  <2> QED
    BY <1>7, Zenon DEF IInv, Carried
<1> QED
  BY <1>4, <1>6, <1>8

\* The first read of a gate: from the cache, or the epoch is sampled.
LEMMA AllowsKeeps == ASSUME IInv, NEW r \in Requests, ssts_gate_allows(r) PROVE IInv'
<1> DEFINE c == gates[r].cache
           g == Sampled(gates[r])
<1>1. /\ gates[r].pc = "idle" /\ feed[r] # <<>>
      /\ IF c.group = Object(r) /\ c.epoch = epoch
         THEN Handled(r, c.forward, track_to_set[TrackOf(r)]) /\ UNCHANGED gates
         ELSE gates' = [gates EXCEPT ![r] = g] /\ UNCHANGED <<feed, streams, open_streams, forwarded>>
      /\ UNCHANGED <<setting, ops, sets, track_to_set, epoch, decisions, chan, abr, pruned>>
  BY Zenon DEF ssts_gate_allows
<1>2. /\ gates \in [Requests -> Gate] /\ gates[r] \in Gate
      /\ c \in [group : Nat \cup {NoGroup}, epoch : Nat, forward : BOOLEAN]
      /\ chan \in Seq(Question) /\ feed \in [Requests -> Seq(Nat)] /\ epoch \in Nat
  BY Zenon DEF IInv, Types, Controller, Gate, Membership
<1>3. StampedGate(r, gates[r], feed[r]) /\ CachedVerdict(r, c)
  BY ZenonT(30) DEF IInv, Stamped, Cached
<1>4. CASE c.group = Object(r) /\ c.epoch = epoch
  <2> DEFINE s == track_to_set[TrackOf(r)]
  <2>1. Object(r) \in Nat
    BY <1>1, <1>2 DEF Object
  <2>2. c.forward /\ s # None /\ ~Left(Object(r)) => Decided(Object(r), s, TrackOf(r))
    <3>1. c.group # NoGroup
      BY <1>4, <2>1 DEF NoGroup
    <3>2. s # None /\ ~Left(Object(r)) =>
            Answered(Object(r), s) /\ c.forward = (decisions[Object(r)][s] = TrackOf(r))
      BY <1>3, <1>4, <3>1, ZenonT(60) DEF CachedVerdict, Verdict, Left
    <3> QED
      BY <3>2, Zenon DEF Decided
  <2>3. /\ Membership' /\ Carried' /\ feed' \in [Requests -> Seq(Nat)]
        /\ \A q \in Requests \ {r} : feed'[q] = feed[q]
    BY <1>1, <1>4, <2>2, HandledKeeps, SMTT(30)
  <2>4. gates' = [gates EXCEPT ![r] = gates[r]]
    <3>1. gates' = gates
      BY <1>1, <1>4, Zenon
    <3>2. gates = [gates EXCEPT ![r] = gates[r]]
      BY <1>2, ZenonT(60)
    <3> QED
      BY <3>1, <3>2, Zenon
  <2>5. StampedGate(r, gates[r], feed'[r])
    BY <1>1, <1>3 DEF StampedGate
  <2>6. ~Waits(gates[r])
    BY <1>1, ZenonT(30) DEF Waits
  <2> QED
    BY <1>1, <1>2, <1>3, <2>3, <2>4, <2>5, <2>6, GateMoves, ZenonT(60)
<1>5. CASE ~(c.group = Object(r) /\ c.epoch = epoch)
  <2>1. g \in Gate /\ g.pc = "sampled" /\ g.epoch = epoch /\ g.set = None /\ g.cache = c
    BY <1>2, Zenon DEF Sampled, Gate
  <2>2. Membership' /\ Carried'
    <3>1. UNCHANGED manager
      BY <1>1, <1>5, Zenon DEF manager
    <3>2. Carried'
      BY <1>1, <1>5, ZenonT(60) DEF IInv, Carried, Left, Decided, Answered, TrackOf
    <3> QED
      BY <3>1, <3>2, UnchangedKeeps, Zenon DEF IInv
  <2> HIDE DEF g
  <2>3. StampedGate(r, g, feed'[r])
    BY <1>1, <1>2, <1>3, <1>5, <2>1 DEF StampedGate
  <2>4. ~Waits(g)
    BY <2>1, ZenonT(30) DEF Waits
  <2> QED
    <3>1. gates' = [gates EXCEPT ![r] = g] /\ feed' = feed /\ chan' = chan
      BY <1>1, <1>5, Zenon
    <3>2. /\ feed' \in [Requests -> Seq(Nat)] /\ chan' \in Seq(Question)
          /\ \A q \in Requests \ {r} : feed'[q] = feed[q]
      BY <1>2, <3>1, Zenon DEF IInv, Types, Controller
    <3>3. CachedVerdict(r, g.cache)
      BY <1>3, <2>1, Zenon
    <3> QED
      BY <1>1, <2>1, <2>2, <2>3, <2>4, <3>1, <3>2, <3>3, GateMoves, ZenonT(60)
<1> QED
  BY <1>4, <1>5, Zenon

\* A verdict is reached, forwarded on, and cached under the epoch sampled.
LEMMA ResolveKeeps ==
    ASSUME IInv, NEW r \in Requests, NEW forward \in BOOLEAN, Resolve(r, forward),
           gates[r].pc # "idle",
           UNCHANGED <<setting, ops, sets, track_to_set, epoch, decisions, chan, abr, pruned>>,
           forward /\ gates[r].set # None /\ ~Left(Object(r)) =>
               Decided(Object(r), gates[r].set, TrackOf(r)),
           CachedVerdict(r, [group |-> Object(r), epoch |-> gates[r].epoch, forward |-> forward])
    PROVE  IInv'
<1> DEFINE c == [group |-> Object(r), epoch |-> gates[r].epoch, forward |-> forward]
           g == [gates[r] EXCEPT !.pc = "idle", !.set = None, !.notified = FALSE, !.cache = c, !.epoch = 0]
<1>1. gates' = [gates EXCEPT ![r] = g] /\ Handled(r, forward, gates[r].set)
  BY Zenon DEF Resolve
<1>2. /\ gates[r] \in Gate /\ chan \in Seq(Question) /\ feed \in [Requests -> Seq(Nat)] /\ epoch \in Nat
  BY ZenonT(60) DEF IInv, Types, Controller, Membership
<1>3. feed[r] # <<>> /\ gates[r].epoch <= epoch
  BY Zenon DEF IInv, Stamped, StampedGate
<1>4. c \in [group : Nat \cup {NoGroup}, epoch : Nat, forward : BOOLEAN]
  BY <1>2, <1>3 DEF Gate, Object
<1>5. g \in Gate /\ g.pc = "idle" /\ g.set = None /\ g.epoch = 0 /\ g.cache = c /\ c.epoch = gates[r].epoch
  <2> HIDE DEF c
  <2>1. g \in Gate /\ g.pc = "idle" /\ g.set = None /\ g.epoch = 0 /\ g.cache = c
    BY <1>2, <1>4, Zenon DEF Gate
  <2> QED
    BY <2>1, Zenon DEF c
<1>6. /\ Membership' /\ Carried' /\ feed' \in [Requests -> Seq(Nat)]
      /\ \A q \in Requests \ {r} : feed'[q] = feed[q]
  BY <1>1, <1>3, HandledKeeps, Zenon
<1>7. CachedVerdict(r, g.cache)
  BY <1>5, ZenonT(60)
<1> HIDE DEF g, c
<1>8. StampedGate(r, g, feed'[r])
  BY <1>2, <1>3, <1>5 DEF StampedGate
<1>9. ~Waits(g)
  BY <1>5, Zenon DEF Waits
<1> QED
  BY <1>1, <1>2, <1>5, <1>6, <1>7, <1>8, <1>9, GateMoves, ZenonT(30)

\* A gate moves on without handling its Object, its cache as it was.
LEMMA GateReads ==
    ASSUME IInv, NEW r \in Requests, NEW g \in Gate, gates' = [gates EXCEPT ![r] = g],
           g.cache = gates[r].cache,
           UNCHANGED <<setting, ops, manager, decisions, chan, abr, feed, forwarded, pruned>>,
           StampedGate(r, g, feed[r]), ~Waits(g)
    PROVE  IInv'
<1>1. chan \in Seq(Question) /\ feed \in [Requests -> Seq(Nat)] /\ CachedVerdict(r, g.cache)
  BY Zenon DEF IInv, Types, Controller, Cached
<1>2. Carried'
  BY Zenon DEF IInv, Carried, Left, Decided, Answered, TrackOf
<1>3. Membership'
  BY UnchangedKeeps, Zenon DEF IInv
<1> QED
  BY <1>1, <1>2, <1>3, GateMoves, Zenon DEF manager

\* The index is read after the epoch.
LEMMA ReadSetKeeps == ASSUME IInv, NEW r \in Requests, ReadSet(r) PROVE IInv'
<1> DEFINE s == track_to_set[TrackOf(r)]
           g == [gates[r] EXCEPT !.pc = "set", !.set = s]
<1>1. /\ gates[r].pc = "sampled"
      /\ IF s = None THEN Resolve(r, TRUE)
         ELSE gates' = [gates EXCEPT ![r] = g] /\ UNCHANGED <<feed, streams, open_streams, forwarded>>
      /\ UNCHANGED <<setting, ops, sets, track_to_set, epoch, decisions, chan, abr, pruned>>
  BY Zenon DEF ReadSet
<1>2. gates[r] \in Gate /\ setting \in Settings /\ StampedGate(r, gates[r], feed[r])
  BY Zenon DEF IInv, Types, Stamped
<1>3. TrackOf(r) \in Tracks
  BY <1>2, SstsConstants, Zenon DEF TrackOf
<1>4. s \in SetIds \cup {None}
  BY <1>3, Zenon DEF IInv, Membership
<1>5. CASE s = None
  <2>1. CachedVerdict(r, [group |-> Object(r), epoch |-> gates[r].epoch, forward |-> TRUE])
    BY <1>5, Zenon DEF CachedVerdict
  <2>2. gates[r].set = None /\ gates[r].pc # "idle"
    BY <1>1, <1>2, Zenon DEF StampedGate
  <2> QED
    BY <1>1, <1>5, <2>1, <2>2, ResolveKeeps, Zenon
<1>6. CASE s # None
  <2> HIDE DEF s
  <2>1. g \in Gate /\ g.pc = "set" /\ g.set = s /\ g.epoch = gates[r].epoch /\ g.cache = gates[r].cache
    BY <1>2, <1>4, Zenon DEF Gate
  <2> HIDE DEF g
  <2>2. StampedGate(r, g, feed[r])
    BY <1>1, <1>2, <1>6, <2>1, Zenon DEF StampedGate, s
  <2>3. ~Waits(g)
    BY <2>1, Zenon DEF Waits
  <2> QED
    BY <1>1, <1>6, <2>1, <2>2, <2>3, GateReads DEF manager
<1> QED
  BY <1>5, <1>6, Zenon

\* The decision is read for the set read before it.
LEMMA ReadDecisionKeeps == ASSUME IInv, NEW r \in Requests, ReadDecision(r) PROVE IInv'
<1> DEFINE o == Object(r)
           s == gates[r].set
           forward == (decisions[o][s] = TrackOf(r))
           g == [gates[r] EXCEPT !.pc = "ask"]
<1>1. /\ gates[r].pc = "set"
      /\ IF Answered(o, s) THEN Resolve(r, forward)
         ELSE gates' = [gates EXCEPT ![r] = g] /\ UNCHANGED <<feed, streams, open_streams, forwarded>>
      /\ UNCHANGED <<setting, ops, sets, track_to_set, epoch, decisions, chan, abr, pruned>>
  <2>1. CASE Answered(o, s)
    BY <2>1, Zenon DEF ReadDecision
  <2>2. CASE ~Answered(o, s)
    BY <2>2, Zenon DEF ReadDecision
  <2> QED
    BY <2>1, <2>2, Zenon
<1>2. gates[r] \in Gate /\ StampedGate(r, gates[r], feed[r])
  BY Zenon DEF IInv, Types, Stamped
<1>3. s # None /\ (gates[r].epoch = epoch => s = track_to_set[TrackOf(r)])
  BY <1>1, <1>2, Zenon DEF StampedGate
<1>4. CASE Answered(o, s)
  <2>1. forward \in BOOLEAN
    BY Zenon
  <2>2. forward => Decided(o, s, TrackOf(r))
    BY <1>4, Zenon DEF Decided
  <2> DEFINE c == [group |-> o, epoch |-> gates[r].epoch, forward |-> forward]
  <2>3. c.group = o /\ c.epoch = gates[r].epoch /\ c.forward = forward
    BY Zenon
  <2>4. CachedVerdict(r, c)
    <3> HIDE DEF c
    <3> QED
      BY <1>3, <1>4, <2>3, Zenon DEF CachedVerdict, Verdict
  <2>5. gates[r].pc # "idle"
    BY <1>1, ZenonT(60)
  <2> QED
    BY <1>1, <1>4, <2>1, <2>2, <2>4, <2>5, ResolveKeeps, ZenonT(30)
<1>5. CASE ~Answered(o, s)
  <2>1. g \in Gate /\ g.pc = "ask" /\ g.set = s /\ g.epoch = gates[r].epoch /\ g.cache = gates[r].cache
    BY <1>2, Zenon DEF Gate
  <2> HIDE DEF g
  <2>2. StampedGate(r, g, feed[r])
    BY <1>1, <1>2, <2>1, Zenon DEF StampedGate
  <2>3. ~Waits(g)
    BY <2>1, ZenonT(30) DEF Waits
  <2> QED
    BY <1>1, <1>5, <2>1, <2>2, <2>3, GateReads DEF manager
<1> QED
  BY <1>4, <1>5, Zenon

\* A gate asks and waits: its question is in the channel, behind all others.
LEMMA AskKeeps == ASSUME IInv, NEW r \in Requests, Ask(r) PROVE IInv'
<1> DEFINE q == [kind |-> "NewGroup", group |-> Object(r)]
           g == [gates[r] EXCEPT !.pc = "waiting"]
<1>1. /\ gates[r].pc = "ask" /\ chan' = Append(chan, q) /\ gates' = [gates EXCEPT ![r] = g]
      /\ UNCHANGED <<setting, ops, manager, decisions, abr, feed, forwarded, pruned>>
  BY Zenon DEF Ask
<1>2. /\ gates[r] \in Gate /\ chan \in Seq(Question) /\ feed \in [Requests -> Seq(Nat)]
      /\ StampedGate(r, gates[r], feed[r]) /\ CachedVerdict(r, gates[r].cache)
  BY Zenon DEF IInv, Types, Controller, Stamped, Cached
<1>3. feed[r] # <<>> /\ q \in Question
  BY <1>1, <1>2 DEF StampedGate, Question, Object
<1>4. g \in Gate /\ g.pc = "waiting" /\ g.set = gates[r].set /\ g.epoch = gates[r].epoch
      /\ g.cache = gates[r].cache
  BY <1>2, ZenonT(60) DEF Gate
<1> HIDE DEF q, g
<1>5. /\ chan' \in Seq(Question) /\ DOMAIN chan' = 1..(Len(chan) + 1) /\ DOMAIN chan = 1..Len(chan)
      /\ Len(chan) \in Nat /\ chan'[Len(chan) + 1] = q /\ \A i \in 1..Len(chan) : chan'[i] = chan[i]
  BY <1>1, <1>2, <1>3
<1>6. \A x : (\E i \in DOMAIN chan : chan[i] = x) => \E i \in DOMAIN chan' : chan'[i] = x
  BY <1>5
<1>7. Asked(Object(r))'
  <2>1. \E i \in DOMAIN chan' : chan'[i] = q
    BY <1>5
  <2>2. Object(r)' = Object(r)
    BY <1>1, Zenon DEF Object
  <2> QED
    BY <2>1, <2>2, Zenon DEF Asked, q
<1>8. StampedGate(r, g, feed'[r])
  BY <1>1, <1>2, <1>4 DEF StampedGate
<1>9. Carried'
  BY <1>1, Zenon DEF IInv, Carried, Left, Decided, Answered, TrackOf
<1>10. Membership'
  BY <1>1, UnchangedKeeps, Zenon DEF IInv
<1>11. UNCHANGED <<setting, ops, track_to_set, epoch, decisions, abr, pruned>>
  BY <1>1, Zenon DEF manager
<1>12. feed' \in [Requests -> Seq(Nat)] /\ \A x \in Requests \ {r} : feed'[x] = feed[x]
  BY <1>1, <1>2, Zenon
<1> QED
  BY <1>1, <1>2, <1>4, <1>5, <1>6, <1>7, <1>8, <1>9, <1>10, <1>11, <1>12, GateMoves, ZenonT(60)

\* A gate that was woken starts over.
LEMMA WakeKeeps == ASSUME IInv, NEW r \in Requests, Wake(r) PROVE IInv'
<1> DEFINE g == Sampled(gates[r])
<1>1. /\ gates[r].pc = "waiting" /\ gates' = [gates EXCEPT ![r] = g]
      /\ UNCHANGED <<setting, ops, manager, decisions, chan, abr, feed, forwarded, pruned>>
  BY Zenon DEF Wake
<1>2. gates[r] \in Gate /\ StampedGate(r, gates[r], feed[r]) /\ epoch \in Nat
  BY Zenon DEF IInv, Types, Stamped, Membership
<1>3. g \in Gate /\ g.pc = "sampled" /\ g.epoch = epoch /\ g.set = None /\ g.cache = gates[r].cache
  BY <1>2, Zenon DEF Sampled, Gate
<1> HIDE DEF g
<1>4. StampedGate(r, g, feed[r])
  BY <1>1, <1>2, <1>3 DEF StampedGate
<1>5. ~Waits(g)
  BY <1>3, Zenon DEF Waits
<1> QED
  BY <1>1, <1>3, <1>4, <1>5, GateReads, ZenonT(30)

\* A stream is taken, closed or discarded: at most the count and the channel change.
LEMMA StreamKeeps ==
    ASSUME IInv, NEW r \in Requests, NEW g \in Groups,
           take_stream(r, g) \/ close_stream(r, g) \/ DiscardStream(r, g)
    PROVE  IInv'
<1>1. /\ UNCHANGED <<setting, ops, sets, track_to_set, epoch, decisions, abr, gates, feed, forwarded, pruned>>
      /\ open_streams' \in {open_streams, note_stream_closed(TrackOf(r))}
      /\ chan' \in {chan, Append(chan, [kind |-> "StreamTimeout", group |-> g])}
  <2>1. CASE take_stream(r, g)
    BY <2>1, Zenon DEF take_stream, manager
  <2>2. CASE close_stream(r, g)
    BY <2>2, Zenon DEF close_stream
  <2>3. CASE DiscardStream(r, g)
    BY <2>3, Zenon DEF DiscardStream
  <2> QED
    BY <2>1, <2>2, <2>3, Zenon
<1>2. setting \in Settings /\ chan \in Seq(Question)
  BY Zenon DEF IInv, Types, Controller
<1>3. TrackOf(r) \in Tracks
  BY <1>2, SstsConstants, Zenon DEF TrackOf
<1>4. Membership'
  BY <1>1, <1>3, CountKeeps, Zenon DEF IInv
<1>5. g \in Nat
  <2>1. PICK q \in Requests : \E i \in DOMAIN setting.feed[q] : g = setting.feed[q][i]
    BY Zenon DEF Groups
  <2>2. setting.feed[q] \in Seq(Nat)
    BY <1>2, SstsConstants, Zenon
  <2> QED
    BY <2>1, <2>2
<1> DEFINE m == [kind |-> "StreamTimeout", group |-> g]
<1>6. m \in Question
  BY <1>5, Zenon DEF Question
<1> HIDE DEF m
<1>7. chan' \in Seq(Question) /\ \A i \in DOMAIN chan : i \in DOMAIN chan' /\ chan'[i] = chan[i]
  <2>1. CASE chan' = chan
    BY <1>2, <2>1, Zenon
  <2>2. CASE chan' = Append(chan, m)
    BY <1>2, <1>6, <2>2
  <2> QED
    BY <1>1, <2>1, <2>2, Zenon DEF m
<1>8. Types'
  BY <1>1, <1>7, Zenon DEF IInv, Types, Controller
<1>9. Stamped'
  BY <1>1, Zenon DEF IInv, Stamped, StampedGate, TrackOf
<1>10. Cached'
  BY <1>1, Zenon DEF IInv, Cached, CachedVerdict, Verdict, TrackOf, Answered
<1>11. Carried'
  BY <1>1, Zenon DEF IInv, Carried, Left, Decided, TrackOf, Answered
<1>12. Awaited'
  BY <1>1, <1>7, Zenon DEF IInv, Awaited, Waits, Asked, Object
<1> QED
  BY <1>4, <1>8, <1>9, <1>10, <1>11, <1>12 DEF IInv

\* A request that changes the sets.
LEMMA RequestKeeps ==
    ASSUME LaddersKept, IInv, NEW op \in ops,
           \/ AssignOnSubscribe(op) \/ register_ssts_assignment_from_publish_ok(op)
           \/ RequestUpdate(op) \/ ReleaseOnCancel(op) \/ remove_from_subscriber_switching_sets(op)
    PROVE  IInv'
<1>1. OpOK(op)
  BY SstsConstants, Zenon DEF IInv, Types, OpOK
<1>2. /\ Membership /\ ops' \subseteq ops
      /\ UNCHANGED <<setting, decisions, chan, abr, gates, feed, forwarded, pruned>>
  BY Zenon DEF IInv, AssignOnSubscribe, register_ssts_assignment_from_publish_ok,
     RequestUpdate, ReleaseOnCancel,
     remove_from_subscriber_switching_sets, Takes, Elsewhere
<1>3. Membership' /\ Shows
  <2>1. CASE AssignOnSubscribe(op) \/ register_ssts_assignment_from_publish_ok(op)
    <3>1. \/ UNCHANGED manager
          \/ assign(op) /\ track_to_set[op.track] \in {None, op.set}
      BY <2>1, Zenon DEF AssignOnSubscribe, register_ssts_assignment_from_publish_ok
    <3> QED
      BY <1>1, <1>2, <3>1, AssignKeeps, UnchangedKeeps
  <2>2. CASE RequestUpdate(op)
    BY <1>1, <1>2, <2>2, UpdateKeeps, Zenon DEF RequestUpdate
  <2>3. CASE ReleaseOnCancel(op)
    BY <1>1, <1>2, <2>3, ReleaseKeeps, Zenon DEF ReleaseOnCancel, OpOK
  <2>4. CASE remove_from_subscriber_switching_sets(op)
    BY <1>1, <1>2, <2>4, RemoveKeeps, Zenon DEF remove_from_subscriber_switching_sets, OpOK
  <2> QED
    BY <2>1, <2>2, <2>3, <2>4, ZenonT(60)
<1> QED
  BY <1>2, <1>3, SetsChange

-----------------------------------------------------------------------------
\* The initial states satisfy the invariant.
LEMMA InitHolds == ASSUME Init PROVE IInv
<1>1. Types
  <2>1. setting \in Settings /\ ops = setting.ops /\ feed = setting.feed /\ chan = <<>>
    BY Zenon DEF Init
  <2>2. feed \in [Requests -> Seq(Nat)]
    BY <2>1, SstsConstants, ZenonT(60)
  <2>3. Controller
    BY <2>1 DEF Init, Controller
  <2>4. gates \in [Requests -> Gate]
    BY ZenonT(30) DEF Init, Gate, NoGroup
  <2> QED
    BY <2>1, <2>2, <2>3, <2>4 DEF Types
<1>2. Membership
  <2>1. /\ sets = [s \in SetIds |-> NoSet] /\ track_to_set = [t \in Tracks |-> None]
        /\ open_streams = [s \in SetIds |-> 0] /\ epoch = 0
    BY Zenon DEF Init
  <2>2. \A s \in SetIds : ~InUse(s) /\ s # None
    BY <2>1, SstsConstants, ZenonT(60) DEF InUse
  <2> QED
    BY <2>1, <2>2 DEF Membership
<1>3. Stamped
  BY DEF Init, Stamped, StampedGate
<1>4. Cached
  BY Zenon DEF Init, Cached, CachedVerdict
<1>5. Carried
  BY Zenon DEF Init, Carried
<1>6. Awaited
  BY ZenonT(30) DEF Init, Awaited, Waits
<1> QED
  BY <1>1, <1>2, <1>3, <1>4, <1>5, <1>6 DEF IInv

\* Every step keeps it.
LEMMA NextKeeps == ASSUME LaddersKept, IInv, [Next]_vars PROVE IInv'
<1>1. CASE \E op \in ops :
             \/ AssignOnSubscribe(op) \/ register_ssts_assignment_from_publish_ok(op)
             \/ RequestUpdate(op) \/ ReleaseOnCancel(op) \/ remove_from_subscriber_switching_sets(op)
  BY <1>1, RequestKeeps, Zenon
<1>2. CASE NewGroup
  BY <1>2, NewGroupKeeps, Zenon
<1>3. CASE StreamTimeout
  BY <1>3, StreamTimeoutKeeps
<1>4. CASE Tick
  BY <1>4, TickKeeps, Zenon
<1>5. CASE record_group_decision
  BY <1>5, RecordKeeps, Zenon
<1>6. CASE \E e \in setting.estimates : decide(e)
  BY <1>6, DecideKeeps, Zenon
<1>7. CASE \E r \in Requests : ssts_gate_allows(r)
  BY <1>7, AllowsKeeps, Zenon
<1>8. CASE \E r \in Requests : ReadSet(r)
  BY <1>8, ReadSetKeeps, SMTT(60)
<1>9. CASE \E r \in Requests : ReadDecision(r)
  BY <1>9, ReadDecisionKeeps, Zenon
<1>10. CASE \E r \in Requests : Ask(r)
  BY <1>10, AskKeeps, Zenon
<1>11. CASE \E r \in Requests : Wake(r)
  BY <1>11, WakeKeeps, Zenon
<1>12. CASE \E r \in Requests, g \in Groups : take_stream(r, g) \/ close_stream(r, g) \/ DiscardStream(r, g)
  BY <1>12, StreamKeeps, Zenon
<1>13. CASE UNCHANGED vars
  <2>1. /\ UNCHANGED <<setting, decisions, chan, abr, gates, feed, forwarded, pruned>>
        /\ UNCHANGED manager /\ ops' = ops
    BY <1>13, Zenon DEF vars, manager
  <2> QED
    BY <2>1, UnchangedKeeps, SetsChange, Zenon DEF IInv
<1> QED
  BY <1>1, <1>2, <1>3, <1>4, <1>5, <1>6, <1>7, <1>8, <1>9, <1>10, <1>11, <1>12, <1>13, ZenonT(60) DEF Next

-----------------------------------------------------------------------------
(* Sorting a ladder, and dropping a member from it; and what is proved. *)

INSTANCE FiniteSetTheorems

\* Whether place i comes before place j when arranged by key.
Precedes(key, i, j) == key[i] < key[j] \/ (key[i] = key[j] /\ i < j)

\* That seq is the members at the given places, each once, by key and then by place.
Arrangement(seq, members, at, key, n) ==
    /\ seq = [k \in 1..n |-> seq[k]]
    /\ \E pick \in [1..n -> at] :
         /\ \A i \in at : \E k \in 1..n : pick[k] = i
         /\ \A k, l \in 1..n : k < l => Precedes(key, pick[k], pick[l])
         /\ \A k \in 1..n : seq[k] = members[pick[k]]

\* What Arranged, the stable sort and the retain of the member list, returns.
LEMMA ArrangedProperties ==
    ASSUME NEW members, NEW at \in SUBSET Nat, IsFiniteSet(at), NEW key \in [at -> Int]
    PROVE  /\ Cardinality(at) \in Nat
           /\ Arrangement(Arranged(members, at, key), members, at, key, Cardinality(at))
<1> DEFINE upto(i) == {j \in at : key[j] < key[i] \/ (key[j] = key[i] /\ j <= i)}
           place(i) == Cardinality(upto(i))
           n == Cardinality(at)
           f == [i \in at |-> place(i)]
<1>1. n \in Nat
  BY FS_CardinalityType, Zenon
<1>2. \A i \in at : IsFiniteSet(upto(i)) /\ place(i) \in 1..n
  <2> TAKE i \in at
  <2>1. upto(i) \in SUBSET at /\ i \in upto(i)
    OBVIOUS
  <2> HIDE DEF upto
  <2>2. IsFiniteSet(upto(i)) /\ Cardinality(upto(i)) <= n
    BY <2>1, FS_Subset, Zenon
  <2>3. Cardinality(upto(i)) \in Nat /\ Cardinality(upto(i)) # 0
    BY <2>1, <2>2, FS_CardinalityType, FS_EmptySet, ZenonT(60)
  <2> QED
    BY <1>1, <2>2, <2>3, SMTT(60)
<1>3. \A i, j \in at : Precedes(key, i, j) => place(i) < place(j)
  <2> TAKE i, j \in at
  <2> HAVE Precedes(key, i, j)
  <2>0. \A x \in at : key[x] \in Int /\ x \in Nat
    BY Zenon
  <2>1. upto(i) \in SUBSET upto(j) /\ j \in upto(j) /\ j \notin upto(i)
    <3>1. \A x \in upto(i) : x \in upto(j)
      BY <2>0 DEF Precedes
    <3>2. j \in upto(j) /\ j \notin upto(i)
      BY <2>0 DEF Precedes
    <3> QED
      BY <3>1, <3>2, ZenonT(60)
  <2> HIDE DEF upto
  <2>2. Cardinality(upto(i)) <= Cardinality(upto(j)) /\ Cardinality(upto(i)) # Cardinality(upto(j))
    BY <1>2, <2>1, FS_Subset, ZenonT(60)
  <2> QED
    BY <1>1, <1>2, <2>2, SMTT(60)
<1> HIDE DEF upto
<1>4. \A i, j \in at : i # j => Precedes(key, i, j) \/ Precedes(key, j, i)
  BY DEF Precedes
<1>5. f \in [at -> 1..n]
  BY <1>2, Zenon
<1>6. f \in Injection(at, 1..n)
  <2>1. \A i, j \in at : i # j => f[i] # f[j]
    <3> TAKE i, j \in at
    <3> HAVE i # j
    <3>1. place(i) < place(j) \/ place(j) < place(i)
      BY <1>3, <1>4, ZenonT(60)
    <3> QED
      BY <1>1, <1>2, <3>1, SMTT(60)
  <2> QED
    BY <1>5, <2>1, ZenonT(60) DEF Injection, IsInjective
<1>7. \A k \in 1..n : \E i \in at : f[i] = k
  <2>1. IsFiniteSet(1..n) /\ Cardinality(1..n) = n
    BY <1>1, FS_Interval
  <2>2. f \in Surjection(at, 1..n)
    BY <1>6, <2>1, FS_Injection, ZenonT(60)
  <2> QED
    BY <2>2, Zenon DEF Surjection
<1> DEFINE pick == [k \in 1..n |-> CHOOSE i \in at : place(i) = k]
<1>8. \A k \in 1..n : pick[k] \in at /\ place(pick[k]) = k
  BY <1>7, Zenon
<1>9. Arranged(members, at, key) = [k \in 1..n |-> members[pick[k]]]
  <2>1. Arranged(members, at, key) = [k \in 1..n |-> members[CHOOSE i \in at : place(i) = k]]
    BY Zenon DEF Arranged, upto
  <2>2. \A k \in 1..n : pick[k] = CHOOSE i \in at : place(i) = k
    <3> HIDE DEF n, place
    <3> QED
      BY SMT
  <2> HIDE DEF pick, place, n
  <2> QED
    BY <2>1, <2>2, Zenon
<1>12. pick \in [1..n -> at]
  BY <1>8, Zenon
<1> HIDE DEF pick, place
<1>10. \A i \in at : place(i) \in 1..n /\ pick[place(i)] = i
  <2> TAKE i \in at
  <2>1. place(i) \in 1..n
    BY <1>2, Zenon
  <2>2. pick[place(i)] \in at /\ place(pick[place(i)]) = place(i)
    BY <1>8, <2>1, Zenon
  <2>3. Precedes(key, i, pick[place(i)]) => place(i) < place(pick[place(i)])
    BY <1>3, <2>2, Zenon
  <2>4. Precedes(key, pick[place(i)], i) => place(pick[place(i)]) < place(i)
    BY <1>3, <2>2, ZenonT(60)
  <2>5. ~(place(i) < place(i))
    BY <2>1
  <2> QED
    BY <1>4, <2>1, <2>2, <2>3, <2>4, <2>5, ZenonT(60)
<1>11. \A k, l \in 1..n : k < l => Precedes(key, pick[k], pick[l])
  <2> TAKE k, l \in 1..n
  <2> HAVE k < l
  <2>1. pick[k] # pick[l]
    BY <1>1, <1>8
  <2>2. Precedes(key, pick[l], pick[k]) => place(pick[l]) < place(pick[k])
    BY <1>3, <1>8, ZenonT(60)
  <2>3. ~(place(pick[l]) < place(pick[k]))
    BY <1>1, <1>8, SMTT(60)
  <2> QED
    BY <1>4, <1>8, <2>1, <2>2, <2>3, ZenonT(60)
<1> QED
  <2> DEFINE seq == Arranged(members, at, key)
  <2>1. seq = [k \in 1..n |-> seq[k]] /\ \A k \in 1..n : seq[k] = members[pick[k]]
    BY <1>9, Zenon
  <2>2. \A i \in at : \E k \in 1..n : pick[k] = i
    BY <1>10, Zenon
  <2> HIDE DEF seq
  <2>3. Arrangement(seq, members, at, key, n)
    BY <1>11, <1>12, <2>1, <2>2, ZenonT(60) DEF Arrangement
  <2> QED
    BY <1>1, <2>3, Zenon DEF seq

\* Sorting a list of distinct, held members gives a ladder of the same tracks.
LEMMA SortedLadder ==
    ASSUME NEW ms \in Seq(Member), ms # <<>>,
           \A i \in DOMAIN ms : ms[i].holders # {},
           \A i, j \in DOMAIN ms : i # j => ms[i].track # ms[j].track
    PROVE  /\ Ladder(SortedByThreshold(ms)) /\ SortedByThreshold(ms) # <<>>
           /\ \A t : OnLadder(SortedByThreshold(ms), t) <=> OnLadder(ms, t)
<1> DEFINE at == DOMAIN ms
           key == [i \in at |-> ms[i].threshold]
           n == Cardinality(at)
           sorted == Arranged(ms, at, key)
<1>1. at = 1..Len(ms) /\ Len(ms) \in Nat /\ \A i \in at : ms[i] \in Member
  OBVIOUS
<1>2. at \in SUBSET Nat /\ IsFiniteSet(at) /\ key \in [at -> Int]
  <2>1. IsFiniteSet(at)
    BY <1>1, FS_Interval
  <2> QED
    BY <1>1, <2>1, SMTT(60) DEF Member
<1> SUFFICES /\ Ladder(sorted) /\ sorted # <<>>
             /\ \A t : OnLadder(sorted, t) <=> OnLadder(ms, t)
  BY Zenon DEF SortedByThreshold
<1>3. \A i \in at : key[i] = ms[i].threshold
  BY Zenon
<1> HIDE DEF at, key, n, sorted
<1>4. n \in Nat /\ Arrangement(sorted, ms, at, key, n)
  BY <1>2, ArrangedProperties, ZenonT(60) DEF n, sorted
<1>5. PICK pick \in [1..n -> at] :
        /\ \A i \in at : \E k \in 1..n : pick[k] = i
        /\ \A k, l \in 1..n : k < l => Precedes(key, pick[k], pick[l])
        /\ \A k \in 1..n : sorted[k] = ms[pick[k]]
  BY <1>4, ZenonT(60) DEF Arrangement
<1>6. \A k \in 1..n : pick[k] \in at /\ sorted[k] = ms[pick[k]] /\ sorted[k] \in Member
  BY <1>1, <1>5, SMTT(60)
<1>7. sorted \in Seq(Member) /\ DOMAIN sorted = 1..n
  <2>1. sorted = [k \in 1..n |-> sorted[k]] /\ n \in Nat
    BY <1>4, Zenon DEF Arrangement
  <2> QED
    BY <1>6, <2>1
<1>8. \A t : OnLadder(sorted, t) <=> OnLadder(ms, t)
  <2> TAKE t
  <2>1. OnLadder(sorted, t) => OnLadder(ms, t)
    BY <1>6, <1>7, ZenonT(60) DEF OnLadder, at
  <2>2. ASSUME NEW i \in at, ms[i].track = t
        PROVE  OnLadder(sorted, t)
    <3>1. PICK k \in 1..n : pick[k] = i
      BY <1>5, ZenonT(60)
    <3> QED
      BY <1>6, <1>7, <2>2, <3>1, Zenon DEF OnLadder
  <2> QED
    BY <2>1, <2>2, ZenonT(60) DEF OnLadder, at
<1>9. \A i \in DOMAIN sorted : sorted[i].holders # {}
  BY <1>6, <1>7 DEF at
<1>10. ASSUME NEW i \in 1..n, NEW j \in 1..n, i < j
       PROVE  sorted[i].track # sorted[j].track /\ sorted[i].threshold <= sorted[j].threshold
  <2>1. pick[i] \in at /\ pick[j] \in at /\ Precedes(key, pick[i], pick[j])
    BY <1>5, <1>10, ZenonT(60)
  <2>2. key[pick[i]] = ms[pick[i]].threshold /\ key[pick[j]] = ms[pick[j]].threshold
    BY <1>3, <2>1, ZenonT(60)
  <2>3. ms[pick[i]].threshold \in Nat /\ ms[pick[j]].threshold \in Nat
    BY <1>1, <2>1, ZenonT(60) DEF Member
  <2>4. pick[i] \in Nat /\ pick[j] \in Nat
    BY <1>2, <2>1, ZenonT(60)
  <2>5. pick[i] # pick[j] /\ ms[pick[i]].threshold <= ms[pick[j]].threshold
    BY <2>1, <2>2, <2>3, <2>4, SMTT(60) DEF Precedes
  <2>6. ms[pick[i]].track # ms[pick[j]].track
    BY <2>1, <2>5, ZenonT(60) DEF at
  <2> QED
    BY <1>6, <2>5, <2>6, ZenonT(60)
<1>11. sorted # <<>>
  <2>1. PICK i \in at : TRUE
    BY <1>1, SMTT(60)
  <2>2. PICK k \in 1..n : pick[k] = i
    BY <1>5, Zenon
  <2>3. k \in DOMAIN sorted
    BY <1>7, <2>2, ZenonT(60)
  <2> QED
    BY <2>3
<1> QED
  BY <1>7, <1>8, <1>9, <1>10, <1>11, SMTT(60) DEF Ladder

\* Dropping a track from a ladder leaves a ladder of the others.
LEMMA WithoutLadder ==
    ASSUME NEW ms, Ladder(ms), NEW t
    PROVE  /\ Ladder(Without(ms, t))
           /\ \A u : OnLadder(Without(ms, t), u) <=> OnLadder(ms, u) /\ u # t
<1> DEFINE at == {i \in DOMAIN ms : ms[i].track # t}
           key == [i \in at |-> 0]
           n == Cardinality(at)
           left == Arranged(ms, at, key)
<1>1. ms \in Seq(Member) /\ DOMAIN ms = 1..Len(ms) /\ Len(ms) \in Nat
  BY DEF Ladder
<1>2. at \in SUBSET Nat /\ IsFiniteSet(at) /\ key \in [at -> Int]
  <2>1. IsFiniteSet(1..Len(ms)) /\ at \in SUBSET (1..Len(ms))
    BY <1>1, FS_Interval
  <2>2. IsFiniteSet(at)
    BY <2>1, FS_Subset, Zenon
  <2> QED
    BY <2>1, <2>2
<1> SUFFICES /\ Ladder(left)
             /\ \A u : OnLadder(left, u) <=> OnLadder(ms, u) /\ u # t
  BY Zenon DEF Without
<1>3. \A i \in at : i \in DOMAIN ms /\ ms[i].track # t /\ key[i] = 0 /\ ms[i] \in Member
  BY <1>1
<1>4. \A i \in DOMAIN ms : ms[i].track # t => i \in at
  BY Zenon
<1> HIDE DEF at, key, n, left
<1>5. n \in Nat /\ Arrangement(left, ms, at, key, n)
  BY <1>2, ArrangedProperties, ZenonT(60) DEF n, left
<1>6. PICK pick \in [1..n -> at] :
        /\ \A i \in at : \E k \in 1..n : pick[k] = i
        /\ \A k, l \in 1..n : k < l => Precedes(key, pick[k], pick[l])
        /\ \A k \in 1..n : left[k] = ms[pick[k]]
  BY <1>5, Zenon DEF Arrangement
<1>7. \A k \in 1..n : pick[k] \in at /\ left[k] = ms[pick[k]] /\ left[k] \in Member
  BY <1>3, <1>6, ZenonT(60)
<1>8. left \in Seq(Member) /\ DOMAIN left = 1..n
  <2>1. left = [k \in 1..n |-> left[k]] /\ n \in Nat
    BY <1>5, Zenon DEF Arrangement
  <2> QED
    BY <1>7, <2>1
<1>9. \A u : OnLadder(left, u) <=> OnLadder(ms, u) /\ u # t
  <2> TAKE u
  <2>1. OnLadder(left, u) => OnLadder(ms, u) /\ u # t
    BY <1>3, <1>7, <1>8, ZenonT(60) DEF OnLadder
  <2>2. ASSUME NEW i \in DOMAIN ms, ms[i].track = u, u # t
        PROVE  OnLadder(left, u)
    <3>1. PICK k \in 1..n : pick[k] = i
      BY <1>4, <1>6, <2>2, ZenonT(60)
    <3> QED
      BY <1>7, <1>8, <2>2, <3>1, Zenon DEF OnLadder
  <2> QED
    BY <2>1, <2>2, ZenonT(60) DEF OnLadder
<1>10. \A i \in DOMAIN left : left[i].holders # {}
  BY <1>3, <1>7, <1>8, SMTT(60) DEF Ladder
<1>11. ASSUME NEW i \in 1..n, NEW j \in 1..n, i < j
       PROVE  left[i].track # left[j].track /\ left[i].threshold <= left[j].threshold
  <2>1. pick[i] \in at /\ pick[j] \in at /\ Precedes(key, pick[i], pick[j])
    BY <1>6, <1>11, ZenonT(60)
  <2>2. pick[i] < pick[j]
    <3>1. key[pick[i]] = 0 /\ key[pick[j]] = 0
      BY <1>3, <2>1, Zenon
    <3> QED
      BY <2>1, <3>1 DEF Precedes
  <2> QED
    BY <1>3, <1>7, <2>1, <2>2, SMTT(60) DEF Ladder
<1> QED
  BY <1>8, <1>9, <1>10, <1>11, ZenonT(60) DEF Ladder

\* Both facts hold.
LEMMA LaddersAreKept == LaddersKept
BY SortedLadder, WithoutLadder, Zenon DEF LaddersKept

\* The inductive invariant holds in every reachable state.
THEOREM Invariance == Spec => []IInv
<1>1. Init => IInv
  BY InitHolds, Zenon
<1>2. IInv /\ [Next]_vars => IInv'
  BY NextKeeps, LaddersAreKept, Zenon
<1> QED
  BY <1>1, <1>2, PTL DEF Spec

\* A group is carried by at most one track of a switching set, for any number of
\* subscriptions, sets and operations on them, any window and any channel: both
\* forwarded Objects agree with the one decision of the group that stands.
THEOREM OneTrack == Spec => []OneTrackPerGroup
<1>1. IInv => OneTrackPerGroup
  BY ZenonT(60) DEF IInv, Carried, Left, Decided, OneTrackPerGroup
<1> QED
  BY <1>1, Invariance, PTL

\* A cached verdict of the current epoch is that of an answer given to its group for
\* the set the track is in now, whatever operation on the sets fell between the reads:
\* of the answer that stands, or of one that left the window of decisions.
THEOREM CacheCurrent == Spec => []CacheIsCurrent
<1>1. IInv => CacheIsCurrent
  BY ZenonT(60) DEF IInv, Cached, CachedVerdict, CacheIsCurrent
<1> QED
  BY <1>1, Invariance, PTL

\* No wake-up is lost: a subscription that waits on sets that did not change has its
\* question in the channel or with the controller.
THEOREM QuestionsKept == Spec => []WaitingIsAsked
<1>1. IInv => WaitingIsAsked
  BY DEF IInv, Awaited, Waits, Asked, WaitingIsAsked
<1> QED
  BY <1>1, Invariance, PTL

\* The sets, the index of tracks and the counts of streams agree, whatever assignments,
\* updates, releases and removals come in whatever order.
THEOREM ViewsAgree == Spec => []SetsAgree
<1>1. ASSUME Membership PROVE SetsAgree
  <2>1. ASSUME NEW s \in SetIds, InUse(s)
        PROVE  /\ sets[s].members # <<>>
               /\ \A i, j \in DOMAIN sets[s].members :
                    /\ sets[s].members[i].holders \in (SUBSET Requests) \ {{}}
                    /\ i < j => /\ sets[s].members[i].track # sets[s].members[j].track
                                /\ sets[s].members[i].threshold <= sets[s].members[j].threshold
    <3> DEFINE ms == sets[s].members
    <3>1. Ladder(ms) /\ ms # <<>>
      <4>1. WellFormed(sets[s])
        BY <1>1, <2>1, ZenonT(60) DEF Membership
      <4> QED
        BY <4>1, Zenon DEF WellFormed
    <3> HIDE DEF ms
    <3>2. \A i \in DOMAIN ms : ms[i] \in Member
      BY <3>1 DEF Ladder
    <3>3. \A i \in DOMAIN ms : ms[i].holders \in (SUBSET Requests) \ {{}}
      <4>1. \A m \in Member : m.holders \in SUBSET Requests
        BY Zenon DEF Member
      <4>2. \A i \in DOMAIN ms : ms[i].holders # {}
        BY <3>1, Zenon DEF Ladder
      <4> QED
        BY <3>2, <4>1, <4>2, ZenonT(60)
    <3> QED
      BY <3>1, <3>3, Zenon DEF Ladder, ms
  <2>2. \A t \in Tracks, s \in SetIds : track_to_set[t] = s <=> InUse(s) /\ MemberAt(sets[s], t) # {}
    <3> TAKE t \in Tracks, s \in SetIds
    <3>1. track_to_set[t] = s <=> InUse(s) /\ OnLadder(sets[s].members, t)
      BY <1>1, Zenon DEF Membership
    <3>2. OnLadder(sets[s].members, t) <=> MemberAt(sets[s], t) # {}
      BY Zenon DEF OnLadder, MemberAt
    <3> QED
      BY <3>1, <3>2, ZenonT(60)
  <2>3. \A s \in SetIds : open_streams[s] > 0 => InUse(s)
    BY <1>1, Zenon DEF Membership
  <2> QED
    BY <2>1, <2>2, <2>3, ZenonT(60) DEF SetsAgree
<1>2. IInv => SetsAgree
  BY <1>1, Zenon DEF IInv
<1> QED
  BY <1>2, Invariance, PTL
=============================================================================
