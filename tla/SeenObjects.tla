---------------------------- MODULE SeenObjects ----------------------------
(***************************************************************************)
(* Duplicate detection of one track (apps/relay/src/server/seen_objects.rs) *)
(* A ring of slots, one group each, remembers which Object ids of the group *)
(* have been ingested: an inline bitmap for small ids, and, once an id      *)
(* lands beyond it, a circular window over the newest WINDOW_BITS ids.      *)
(*                                                                          *)
(* is_duplicate tests and records under the slot's lock, so one arrival is  *)
(* one step, whichever publisher's task makes it.  A bitmap is the set of   *)
(* the indexes whose bit is set.                                            *)
(***************************************************************************)
EXTENDS Integers, FiniteSets

CONSTANTS
    INLINE_BITS,      \* ids covered by a group's inline bitmap
    WINDOW_BITS,      \* ids covered by the circular window
    RetainedChoices,  \* the values the retained_groups setting may have
    Groups, Objects,  \* the group and Object ids publishers use
    MaxIngested       \* bound on the distinct Objects of a behaviour

ASSUME BitsAssumption ==
    /\ INLINE_BITS \in Nat \ {0}
    /\ WINDOW_BITS \in Nat
    /\ INLINE_BITS <= WINDOW_BITS

ASSUME IdsAssumption ==
    /\ RetainedChoices \subseteq Nat
    /\ Groups \subseteq Nat
    /\ Objects \subseteq Nat
    /\ MaxIngested \in Nat

VARIABLES
    retained,     \* retained_groups: the length of `slots'; 0 turns detection off
    slots,        \* the ring, indexed by group % retained
    ingested,     \* history: Locations handed to is_duplicate
    forwarded,    \* history: Locations reported as new at least once
    reforwarded   \* history: Locations reported as new more than once

vars == <<retained, slots, ingested, forwarded, reforwarded>>

Location == Groups \X Objects

(***************************************************************************)
(* A slot: no group yet, a group with an inline bitmap, or a group with a   *)
(* window.  `high' is the window's newest id; an inline bitmap has none.    *)
(***************************************************************************)
NoGroup == [kind |-> "none", group |-> -1, high |-> -1, words |-> {}]

InlineBits(words) == [kind |-> "inline", high |-> -1, words |-> words]

WindowBits(high, words) == [kind |-> "window", high |-> high, words |-> words]

\* A defective Slid: the ids that enter find the bits of those they displace.
SlidKeepsDisplaced(high, words, id) == words

\* Records id in the window (high - WINDOW_BITS, high] and says if it was there.
\* Sliding up clears the circular positions of the ids that enter.
Slid(high, words, id) ==
    IF id - high >= WINDOW_BITS
    THEN {}
    ELSE words \ {displaced % WINDOW_BITS : displaced \in (high + 1)..id}

WindowSeen(high, words, id) ==
    /\ id <= high
    /\ high - id < WINDOW_BITS
    /\ id % WINDOW_BITS \in words

window_test_and_set(high, words, id) ==
    IF id > high
    THEN WindowBits(id, Slid(high, words, id) \union {id % WINDOW_BITS})
    ELSE IF high - id >= WINDOW_BITS
         THEN WindowBits(high, words)
         ELSE WindowBits(high, words \union {id % WINDOW_BITS})

\* A defective promote: the recorded ids are left behind.
PromoteForgets(words) == WindowBits(INLINE_BITS - 1, {})

\* The window an inline bitmap turns into when an id lands beyond it.
promote(words) ==
    WindowBits(INLINE_BITS - 1, {id % WINDOW_BITS : id \in words})

\* What test_and_set reports, and the bitmap it leaves.
Seen(bits, id) ==
    IF bits.kind = "inline"
    THEN id < INLINE_BITS /\ id \in bits.words
    ELSE WindowSeen(bits.high, bits.words, id)

test_and_set(bits, id) ==
    IF bits.kind = "inline"
    THEN IF id < INLINE_BITS
         THEN InlineBits(bits.words \union {id})
         ELSE LET w == promote(bits.words)
              IN  window_test_and_set(w.high, w.words, id)
    ELSE window_test_and_set(bits.high, bits.words, id)

\* The group a slot describes, with the bitmap of its Objects.
GroupState(group, bits) ==
    [kind |-> bits.kind, group |-> group, high |-> bits.high, words |-> bits.words]

\* A group's state when its first Object arrives: GroupState::new.
NewBits(first) ==
    IF first < INLINE_BITS
    THEN test_and_set(InlineBits({}), first)
    ELSE test_and_set(WindowBits(first, {}), first)

NewGroupState(group, first) == GroupState(group, NewBits(first))
-----------------------------------------------------------------------------
Init ==
    /\ retained \in RetainedChoices
    /\ slots = [i \in 0..(retained - 1) |-> NoGroup]
    /\ ingested = {}
    /\ forwarded = {}
    /\ reforwarded = {}

Index(group) == group % retained

\* The verdict on an arrival, kept in the histories.  A new Object is forwarded.
Report(loc, duplicate) ==
    /\ ingested' = ingested \union {loc}
    /\ forwarded' = IF duplicate THEN forwarded ELSE forwarded \union {loc}
    /\ reforwarded' = IF ~duplicate /\ loc \in forwarded
                      THEN reforwarded \union {loc} ELSE reforwarded

\* The arms of is_duplicate's match on the slot, in order.
DetectionOff(loc) ==
    /\ retained = 0
    /\ Report(loc, FALSE)
    /\ UNCHANGED <<retained, slots>>

SameGroup(loc) ==
    /\ retained > 0
    /\ LET slot == slots[Index(loc[1])] IN
       /\ slot.kind # "none"
       /\ slot.group = loc[1]
       /\ slots' = [slots EXCEPT ![Index(loc[1])] =
                       GroupState(loc[1], test_and_set(slot, loc[2]))]
       /\ Report(loc, Seen(slot, loc[2]))
    /\ UNCHANGED retained

NewerGroup(loc) ==
    /\ retained > 0
    /\ slots[Index(loc[1])].kind # "none"
    /\ loc[1] > slots[Index(loc[1])].group
    /\ slots' = [slots EXCEPT ![Index(loc[1])] = NewGroupState(loc[1], loc[2])]
    /\ Report(loc, FALSE)
    /\ UNCHANGED retained

\* A defective OlderGroup: the straggler's group takes the slot.
OlderGroupEvicts(loc) ==
    /\ retained > 0
    /\ slots[Index(loc[1])].kind # "none"
    /\ loc[1] < slots[Index(loc[1])].group
    /\ slots' = [slots EXCEPT ![Index(loc[1])] = NewGroupState(loc[1], loc[2])]
    /\ Report(loc, FALSE)
    /\ UNCHANGED retained

OlderGroup(loc) ==
    /\ retained > 0
    /\ slots[Index(loc[1])].kind # "none"
    /\ loc[1] < slots[Index(loc[1])].group
    /\ Report(loc, FALSE)
    /\ UNCHANGED <<retained, slots>>

FirstUse(loc) ==
    /\ retained > 0
    /\ slots[Index(loc[1])].kind = "none"
    /\ slots' = [slots EXCEPT ![Index(loc[1])] = NewGroupState(loc[1], loc[2])]
    /\ Report(loc, FALSE)
    /\ UNCHANGED retained

is_duplicate(loc) ==
    \/ DetectionOff(loc)
    \/ SameGroup(loc)
    \/ NewerGroup(loc)
    \/ OlderGroup(loc)
    \/ FirstUse(loc)

\* Some publisher's task ingests an Object: a new one, or one seen before.
Arrive(loc) ==
    /\ loc \in ingested \/ Cardinality(ingested) < MaxIngested
    /\ is_duplicate(loc)

Next == \E loc \in Location : Arrive(loc)

Spec == Init /\ [][Next]_vars
-----------------------------------------------------------------------------
\* The bits of a window; those of an inline bitmap are among them.
Positions == 0..(WINDOW_BITS - 1)

Bitmap == [kind : {"none", "inline", "window"}, group : Int, high : Int,
           words : SUBSET Positions]

\* The type invariant: a ring of `retained' slots, histories of Locations, and no
\* bit beyond the words of a bitmap, however large the ids.
TypeOK ==
    /\ retained \in RetainedChoices
    /\ slots \in [0..(retained - 1) -> Bitmap]
    /\ ingested \in SUBSET Location
    /\ forwarded \in SUBSET ingested
    /\ reforwarded \in SUBSET forwarded

\* "a new Object mistaken for a duplicate and dropped -- cannot happen": every
\* Object that arrived was reported as new, and so forwarded, at least once.
NoObjectLost == ingested \subseteq forwarded

\* A newer group has come to the slot of loc's group.
SlotTakenOver(loc) ==
    \/ retained = 0
    \/ \E l \in ingested : l[1] > loc[1] /\ Index(l[1]) = Index(loc[1])

\* Some Object of loc's group that has arrived is n ids or more past loc's.
Behind(loc, n) == \E l \in ingested : l[1] = loc[1] /\ l[2] - loc[2] >= n

\* "Within those bounds detection is exact": an Object is forwarded twice only
\* when a newer group took its slot, or when it is WINDOW_BITS or more behind
\* the highest id of its group.  Stated over what arrived, not over the bitmaps.
\* The second bound is the code's (`*high - id >= WINDOW_BITS', line 276); the one
\* that lines 67-70 document, "more than WINDOW_BITS", is ExactAsDocumented.
ExactWithinBounds ==
    \A loc \in reforwarded : SlotTakenOver(loc) \/ Behind(loc, WINDOW_BITS)

\* The bounds as lines 65-70 document them, "its id is more than [`WINDOW_BITS`]
\* behind the highest id seen in its group": one id wider than what the code keeps,
\* so it does not hold.  The id exactly WINDOW_BITS behind is forgotten.
ExactAsDocumented ==
    \A loc \in reforwarded : SlotTakenOver(loc) \/ Behind(loc, WINDOW_BITS + 1)

\* A group gives its slot up to newer groups only: a straggler from an old
\* group, which is_duplicate lets through, never evicts a group still arriving.
NeverBackToOlderGroup ==
    [][\A i \in DOMAIN slots :
          /\ slots'[i].group >= slots[i].group
          /\ slots'[i].group = slots[i].group => slots'[i].high >= slots[i].high]_vars

\* The bitmap b describes the set S of a group's ids: all of them while it is
\* inline, those in the window ending at the highest one afterwards.
InlineExact(b, S) ==
    /\ b.kind = "inline"
    /\ b.high = -1
    /\ b.words = S
    /\ \A x \in S : x < INLINE_BITS

WindowExact(b, S) ==
    /\ b.kind = "window"
    /\ b.high \in S
    /\ \A x \in S : x <= b.high
    /\ \A x \in (b.high - WINDOW_BITS + 1)..b.high :
          x >= 0 => (x % WINDOW_BITS \in b.words <=> x \in S)

IdsOf(arrived, group) == {id \in Objects : <<group, id>> \in arrived}

SlotExact(slot, i, arrived) ==
    \/ slot = NoGroup
    \/ /\ slot.group \in Groups
       /\ slot.group % retained = i
       /\ IdsOf(arrived, slot.group) # {}
       /\ \/ InlineExact(slot, IdsOf(arrived, slot.group))
          \/ WindowExact(slot, IdsOf(arrived, slot.group))

\* "a bit is only ever consulted while its slot still describes that exact
\* group and that exact id": every bitmap tells exactly which ids of its slot's
\* group arrived, and no group newer than the slot's has arrived.
SlotsExact ==
    /\ \A i \in DOMAIN slots : SlotExact(slots[i], i, ingested)
    /\ retained > 0 =>
          \A l \in ingested : /\ slots[Index(l[1])].kind # "none"
                              /\ slots[Index(l[1])].group >= l[1]
=============================================================================
