------------------------ MODULE SeenObjects_proofs ------------------------
(***************************************************************************)
(* Proofs about duplicate detection, for every ring length, every inline    *)
(* and window width with INLINE_BITS <= WINDOW_BITS, and all ids.           *)
(***************************************************************************)
EXTENDS SeenObjects, TLAPS

\* The circular position of an id.
LEMMA ModRange ==
    ASSUME NEW x \in Nat
    PROVE  x % WINDOW_BITS \in Positions
  BY BitsAssumption DEF Positions

\* Two ids less than a window apart never share a circular position.
LEMMA ModUnique ==
    ASSUME NEW x \in Nat, NEW y \in Nat, y <= x, x - y < WINDOW_BITS,
           x % WINDOW_BITS = y % WINDOW_BITS
    PROVE  x = y
<1> DEFINE W == WINDOW_BITS
<1>1. W \in Nat /\ W > 0
  BY BitsAssumption
<1> DEFINE p == x \div W
           q == y \div W
<1> HIDE DEF W
<1>2. /\ p \in Int
      /\ q \in Int
      /\ x = W * p + (x % W)
      /\ y = W * q + (y % W)
  BY <1>1
<1>3. x % W = y % W /\ x - y < W /\ x % W \in Int /\ y % W \in Int
  BY <1>1 DEF W
<1> HIDE DEF p, q
<1>4. W * p - W * q = x - y
  BY <1>1, <1>2, <1>3
<1>5. W * (p - q) = W * p - W * q
  BY <1>1, <1>2
<1>6. CASE p - q >= 1
  <2>1. W * (p - q) >= W
    BY <1>1, <1>2, <1>6
  <2> QED
    BY <1>1, <1>2, <1>3, <1>4, <1>5, <2>1
<1>7. CASE p - q <= 0
  <2>1. W * (p - q) <= 0
    BY <1>1, <1>2, <1>7
  <2> QED
    BY <1>1, <1>2, <1>3, <1>4, <1>5, <2>1
<1> QED
  BY <1>2, <1>6, <1>7

\* A bitmap that describes the ids S, which are ids of Objects that arrived.
Exact(b, S) == InlineExact(b, S) \/ WindowExact(b, S)

\* Recording an id in a window that describes S leaves one that describes S and
\* the id: the bits that sliding clears are those of the ids that drop out.
LEMMA WindowRecords ==
    ASSUME NEW S \in SUBSET Nat, NEW high \in Int, NEW words \in SUBSET Positions,
           NEW id \in Nat,
           high >= 0,
           \A x \in S : x <= high,
           \A x \in (high - WINDOW_BITS + 1)..high :
               x >= 0 => (x % WINDOW_BITS \in words <=> x \in S),
           high \in S \/ id > high
    PROVE  /\ WindowExact(window_test_and_set(high, words, id), S \union {id})
           /\ window_test_and_set(high, words, id).high \in Int
           /\ window_test_and_set(high, words, id).words \in SUBSET Positions
<1> DEFINE W == WINDOW_BITS
           b == window_test_and_set(high, words, id)
<1>1. W \in Nat /\ W > 0
  BY BitsAssumption
<1>2. id % W \in Positions
  BY ModRange
<1>3. CASE id > high
  <2>1. b.high = id /\ b.kind = "window"
    BY <1>3 DEF window_test_and_set, WindowBits
  <2>2. b.words = Slid(high, words, id) \union {id % W}
    BY <1>3 DEF window_test_and_set, WindowBits
  <2>3. Slid(high, words, id) \in SUBSET words
    BY DEF Slid
  <2>4. ASSUME NEW x \in (id - W + 1)..id, x >= 0
        PROVE  x % W \in b.words <=> x \in S \union {id}
    <3>1. x \in Nat /\ x <= id /\ id - x < W
      BY <1>1, <2>4
    <3>2. CASE x = id
      BY <2>2, <3>2
    <3>3. CASE x # id
      <4>1. x % W # id % W
        BY <3>1, <3>3, ModUnique
      <4>2. x % W \in b.words <=> x % W \in Slid(high, words, id)
        BY <2>2, <4>1
      <4>3. CASE x > high
        <5>1. x \notin S
          BY <3>1, <4>3
        <5>2. x % W \notin Slid(high, words, id)
          <6>1. x \in (high + 1)..id
            BY <3>1, <4>3
          <6> QED
            BY <6>1 DEF Slid
        <5> QED
          BY <3>3, <4>2, <5>1, <5>2
      <4>4. CASE x <= high
        <5>1. ~(id - high >= W)
          BY <1>1, <3>1, <4>4
        <5>2. x % W \in Slid(high, words, id) <=> x % W \in words
          <6>1. ASSUME NEW d \in (high + 1)..id
                PROVE  d % W # x % W
            <7>1. d \in Nat /\ x <= d /\ d - x < W /\ d # x
              BY <1>1, <3>1, <4>4, <6>1
            <7> QED
              BY <3>1, <7>1, ModUnique
          <6> QED
            BY <5>1, <6>1 DEF Slid
        <5>3. x \in (high - W + 1)..high
          BY <1>1, <1>3, <3>1, <4>4
        <5>4. x % W \in words <=> x \in S
          BY <3>1, <5>3
        <5> QED
          BY <3>3, <4>2, <5>2, <5>4
      <4> QED
        BY <3>1, <4>3, <4>4
    <3> QED
      BY <3>2, <3>3
  <2>5. \A x \in S \union {id} : x <= id
    BY <1>3
  <2> HIDE DEF b
  <2>6. WindowExact(b, S \union {id})
    BY <2>1, <2>4, <2>5 DEF WindowExact
  <2>7. b.high \in Int /\ b.words \in SUBSET Positions
    <3>1. Slid(high, words, id) \in SUBSET Positions
      BY <2>3
    <3> HIDE DEF W
    <3> QED
      BY <1>2, <2>1, <2>2, <3>1
  <2> QED
    BY <2>6, <2>7 DEF b
<1>4. CASE id <= high /\ high - id >= W
  <2>1. b = WindowBits(high, words)
    BY <1>4 DEF window_test_and_set
  <2>2. ~(id > high) /\ high \in S
    BY <1>4
  <2>3. \A x \in (high - W + 1)..high : x >= 0 => x # id
    BY <1>1, <1>4
  <2> QED
    BY <1>4, <2>1, <2>2, <2>3 DEF WindowExact, WindowBits
<1>5. CASE id <= high /\ high - id < W
  <2>1. b = WindowBits(high, words \union {id % W})
    BY <1>1, <1>5 DEF window_test_and_set
  <2>2. high \in S
    BY <1>5
  <2>3. ASSUME NEW x \in (high - W + 1)..high, x >= 0
        PROVE  x % W \in words \union {id % W} <=> x \in S \union {id}
    <3>1. x \in Nat /\ high - x < W
      BY <1>1, <2>3
    <3>2. x % W = id % W => x = id
      <4>1. CASE x <= id
        <5>1. id - x < W
          BY <1>1, <1>5, <3>1, <4>1
        <5> QED
          BY <3>1, <4>1, <5>1, ModUnique
      <4>2. CASE id <= x
        <5>1. x - id < W
          BY <1>1, <1>5, <2>3, <4>2
        <5> QED
          BY <3>1, <4>2, <5>1, ModUnique
      <4> QED
        BY <3>1, <4>1, <4>2
    <3>3. x % W \in words <=> x \in S
      BY <2>3
    <3> QED
      BY <3>2, <3>3
  <2>4. b.kind = "window" /\ b.high = high /\ b.words = words \union {id % W}
    BY <2>1 DEF WindowBits
  <2> HIDE DEF b
  <2>5. WindowExact(b, S \union {id})
    BY <1>5, <2>2, <2>3, <2>4 DEF WindowExact
  <2>6. b.high \in Int /\ b.words \in SUBSET Positions
    BY <1>2, <2>4
  <2> QED
    BY <2>5, <2>6 DEF b
<1> QED
  BY <1>1, <1>3, <1>4, <1>5

\* A bitmap and what it describes, as a slot or on its own.
IsBitmap(b) ==
    /\ b.kind \in {"inline", "window"}
    /\ b.high \in Int
    /\ b.words \in SUBSET Positions

\* test_and_set keeps a bitmap exact, across promotion to a window as well: the
\* window is as wide as the inline range, so that every recorded id survives.
LEMMA TestAndSetExact ==
    ASSUME NEW S \in SUBSET Nat, NEW b, IsBitmap(b), Exact(b, S), NEW id \in Nat
    PROVE  /\ Exact(test_and_set(b, id), S \union {id})
           /\ IsBitmap(test_and_set(b, id))
<1>1. CASE InlineExact(b, S) /\ id < INLINE_BITS
  BY <1>1, BitsAssumption DEF InlineExact, Exact, IsBitmap, test_and_set, InlineBits, Positions
<1>2. CASE InlineExact(b, S) /\ ~(id < INLINE_BITS)
  <2> DEFINE w == promote(b.words)
  <2>1. test_and_set(b, id) = window_test_and_set(w.high, w.words, id)
    BY <1>2 DEF test_and_set, InlineExact
  <2>2. /\ w.high = INLINE_BITS - 1
        /\ w.words = {x % WINDOW_BITS : x \in S}
    BY <1>2 DEF promote, WindowBits, InlineExact
  <2>3. w.words \in SUBSET Positions
    BY <2>2, ModRange
  <2>4. \A x \in S : x <= w.high
    BY <1>2, <2>2, BitsAssumption DEF InlineExact
  <2>5. ASSUME NEW x \in (w.high - WINDOW_BITS + 1)..w.high, x >= 0
        PROVE  x % WINDOW_BITS \in w.words <=> x \in S
    <3>1. x \in Nat /\ x < INLINE_BITS
      BY <2>2, <2>5, BitsAssumption
    <3>2. ASSUME NEW y \in S, y % WINDOW_BITS = x % WINDOW_BITS
          PROVE  x = y
      <4>1. y \in Nat /\ y < INLINE_BITS
        BY <1>2 DEF InlineExact
      <4>2. CASE y <= x
        <5>1. x - y < WINDOW_BITS
          BY <3>1, <4>1, <4>2, BitsAssumption
        <5> QED
          BY <3>1, <3>2, <4>1, <4>2, <5>1, ModUnique
      <4>3. CASE x <= y
        <5>1. y - x < WINDOW_BITS
          BY <3>1, <4>1, <4>3, BitsAssumption
        <5> QED
          BY <3>1, <3>2, <4>1, <4>3, <5>1, ModUnique
      <4> QED
        BY <3>1, <4>1, <4>2, <4>3
    <3> QED
      BY <2>2, <3>2
  <2>6. w.high \in Int /\ w.high >= 0 /\ id > w.high
    BY <1>2, <2>2, BitsAssumption
  <2> HIDE DEF w
  <2>7. /\ WindowExact(window_test_and_set(w.high, w.words, id), S \union {id})
        /\ window_test_and_set(w.high, w.words, id).high \in Int
        /\ window_test_and_set(w.high, w.words, id).words \in SUBSET Positions
    BY <2>3, <2>4, <2>5, <2>6, WindowRecords
  <2> QED
    BY <2>1, <2>7 DEF Exact, IsBitmap, WindowExact
<1>3. CASE WindowExact(b, S)
  <2>1. test_and_set(b, id) = window_test_and_set(b.high, b.words, id)
    BY <1>3 DEF test_and_set, WindowExact
  <2>2. /\ WindowExact(window_test_and_set(b.high, b.words, id), S \union {id})
        /\ window_test_and_set(b.high, b.words, id).high \in Int
        /\ window_test_and_set(b.high, b.words, id).words \in SUBSET Positions
    <3>1. /\ b.high \in Int /\ b.words \in SUBSET Positions /\ b.high >= 0 /\ b.high \in S
          /\ \A x \in S : x <= b.high
          /\ \A x \in (b.high - WINDOW_BITS + 1)..b.high :
                x >= 0 => (x % WINDOW_BITS \in b.words <=> x \in S)
      BY <1>3 DEF WindowExact, IsBitmap
    <3> QED
      BY <3>1, WindowRecords
  <2> QED
    BY <2>1, <2>2 DEF Exact, IsBitmap, WindowExact
<1> QED
  BY <1>1, <1>2, <1>3 DEF Exact

\* What test_and_set reports of an exact bitmap: never a duplicate that is not
\* one, and a duplicate as new only beyond the window.
LEMMA SeenExact ==
    ASSUME NEW S \in SUBSET Nat, NEW b, IsBitmap(b), Exact(b, S), NEW id \in Nat
    PROVE  /\ Seen(b, id) => id \in S
           /\ ~Seen(b, id) /\ id \in S => \E h \in S : h - id >= WINDOW_BITS
<1>1. CASE InlineExact(b, S)
  BY <1>1 DEF InlineExact, Seen
<1>2. CASE WindowExact(b, S)
  <2>1. Seen(b, id) <=> WindowSeen(b.high, b.words, id)
    BY <1>2 DEF WindowExact, Seen
  <2>2. b.high \in S /\ b.high \in Nat /\ WINDOW_BITS \in Nat
    BY <1>2, BitsAssumption DEF WindowExact
  <2>3. CASE id <= b.high /\ b.high - id < WINDOW_BITS
    <3>1. id \in (b.high - WINDOW_BITS + 1)..b.high /\ id >= 0
      BY <2>2, <2>3
    <3>2. id % WINDOW_BITS \in b.words <=> id \in S
      BY <1>2, <3>1 DEF WindowExact
    <3> QED
      BY <2>1, <2>3, <3>2 DEF WindowSeen
  <2>4. CASE ~(id <= b.high /\ b.high - id < WINDOW_BITS)
    <3>1. ~Seen(b, id)
      BY <2>1, <2>4 DEF WindowSeen
    <3>2. id \in S => b.high - id >= WINDOW_BITS
      BY <1>2, <2>2, <2>4 DEF WindowExact
    <3> QED
      BY <2>2, <3>1, <3>2
  <2> QED
    BY <2>3, <2>4
<1> QED
  BY <1>1, <1>2 DEF Exact

\* A group's first Object leaves a bitmap that describes it alone.
LEMMA NewBitsExact ==
    ASSUME NEW id \in Nat
    PROVE  Exact(NewBits(id), {id}) /\ IsBitmap(NewBits(id))
<1>1. CASE id < INLINE_BITS
  BY <1>1, BitsAssumption
  DEF NewBits, test_and_set, InlineBits, Exact, InlineExact, IsBitmap, Positions
<1>2. CASE ~(id < INLINE_BITS)
  <2>1. NewBits(id) = window_test_and_set(id, {}, id)
    BY <1>2 DEF NewBits, test_and_set, WindowBits
  <2>2. ~(id - id >= WINDOW_BITS) /\ ~(id > id)
    BY BitsAssumption
  <2>3. NewBits(id) = WindowBits(id, {id % WINDOW_BITS})
    BY <2>1, <2>2 DEF window_test_and_set
  <2>4. ASSUME NEW x \in (id - WINDOW_BITS + 1)..id, x >= 0
        PROVE  x % WINDOW_BITS = id % WINDOW_BITS <=> x = id
    <3>1. x \in Nat /\ x <= id /\ id - x < WINDOW_BITS
      BY <2>4, BitsAssumption
    <3> QED
      BY <3>1, ModUnique
  <2>5. id % WINDOW_BITS \in Positions
    BY ModRange
  <2> QED
    BY <2>3, <2>4, <2>5 DEF WindowBits, Exact, WindowExact, IsBitmap
<1> QED
  BY <1>1, <1>2
-----------------------------------------------------------------------------
\* The inductive invariant.  NoObjectLost and ExactWithinBounds speak of what
\* arrived; SlotsExact ties the bitmaps, on which the verdicts rest, to it.
IInv == TypeOK /\ NoObjectLost /\ ExactWithinBounds /\ SlotsExact

\* A verdict that is right of what arrived keeps the histories right.
LEMMA ReportKeeps ==
    ASSUME IInv, NEW loc \in Location, NEW duplicate \in BOOLEAN,
           Report(loc, duplicate), retained' = retained,
           duplicate => loc \in ingested,
           ~duplicate /\ loc \in ingested =>
               \/ SlotTakenOver(loc)
               \/ \E l \in ingested : l[1] = loc[1] /\ l[2] - loc[2] >= WINDOW_BITS
    PROVE  /\ ingested' \in SUBSET Location
           /\ forwarded' \in SUBSET ingested'
           /\ reforwarded' \in SUBSET forwarded'
           /\ NoObjectLost'
           /\ ExactWithinBounds'
<1>1. ingested' = ingested \union {loc}
  BY DEF Report
<1>2. forwarded' = ingested'
  BY DEF Report, IInv, TypeOK, NoObjectLost
<1>3. reforwarded' \in SUBSET forwarded' /\ reforwarded' \in SUBSET (reforwarded \union {loc})
  BY <1>2 DEF Report, IInv, TypeOK
<1>4. loc \in reforwarded' /\ loc \notin reforwarded => ~duplicate /\ loc \in ingested
  BY DEF Report, IInv, TypeOK
<1>5. ASSUME NEW l \in reforwarded'
      PROVE  \/ SlotTakenOver(l)'
             \/ \E m \in ingested' : m[1] = l[1] /\ m[2] - l[2] >= WINDOW_BITS
  <2>1. \/ SlotTakenOver(l)
        \/ \E m \in ingested : m[1] = l[1] /\ m[2] - l[2] >= WINDOW_BITS
    BY <1>3, <1>4, <1>5 DEF IInv, ExactWithinBounds, Behind
  <2>2. SlotTakenOver(l) => SlotTakenOver(l)'
    BY <1>1 DEF SlotTakenOver, Index
  <2> QED
    BY <1>1, <2>1, <2>2
<1>6. ExactWithinBounds'
  BY <1>5 DEF ExactWithinBounds, Behind
<1> QED
  BY <1>1, <1>2, <1>3, <1>6 DEF NoObjectLost, IInv, TypeOK

\* The slot of a Location's group.
LEMMA SlotIndex ==
    ASSUME TypeOK, retained > 0, NEW g \in Groups
    PROVE  /\ g \in Nat
           /\ Index(g) \in 0..(retained - 1)
           /\ DOMAIN slots = 0..(retained - 1)
           /\ slots[Index(g)] \in Bitmap
<1>1. g \in Nat /\ retained \in Nat
  BY IdsAssumption DEF TypeOK
<1>2. g % retained \in 0..(retained - 1)
  BY <1>1
<1> QED
  BY <1>1, <1>2 DEF Index, TypeOK

\* Writing the slot of an arrived Object's group with an exact bitmap keeps
\* every slot exact: no other slot holds that group.
LEMMA SlotWriteKeeps ==
    ASSUME IInv, retained > 0, NEW loc \in Location, NEW b, IsBitmap(b),
           ingested' = ingested \union {loc}, retained' = retained,
           slots' = [slots EXCEPT ![Index(loc[1])] = GroupState(loc[1], b)],
           slots[Index(loc[1])].group <= loc[1],
           Exact(b, IdsOf(ingested, loc[1]) \union {loc[2]})
    PROVE  SlotsExact' /\ slots' \in [0..(retained' - 1) -> Bitmap]
<1> DEFINE g == loc[1]
           k == Index(g)
           s == GroupState(g, b)
<1>1. g \in Groups /\ loc[2] \in Objects /\ loc = <<g, loc[2]>>
  BY DEF Location
<1>2. /\ g \in Nat
      /\ k \in 0..(retained - 1)
      /\ DOMAIN slots = 0..(retained - 1)
      /\ slots[k] \in Bitmap
  BY <1>1, SlotIndex DEF IInv
<1>3. s.kind = b.kind /\ s.group = g /\ s.high = b.high /\ s.words = b.words
  BY DEF GroupState
<1>4. s \in Bitmap
  BY <1>2 DEF GroupState, IsBitmap, Bitmap
<1>5. slots' \in [0..(retained' - 1) -> Bitmap] /\ slots'[k] = s
      /\ \A i \in 0..(retained - 1) : i # k => slots'[i] = slots[i]
  <2> HIDE DEF s, g, k
  <2>1. slots \in [0..(retained - 1) -> Bitmap]
    BY DEF IInv, TypeOK
  <2>2. slots' = [slots EXCEPT ![k] = s]
    BY DEF k, s, g
  <2> QED
    BY <1>2, <1>4, <2>1, <2>2
<1>6. IdsOf(ingested', g) = IdsOf(ingested, g) \union {loc[2]}
  BY <1>1 DEF IdsOf
<1>7. \A h \in Groups : h # g => IdsOf(ingested', h) = IdsOf(ingested, h)
  <2> SUFFICES ASSUME NEW h \in Groups, h # g
               PROVE  \A id \in Objects : <<h, id>> \in ingested' <=> <<h, id>> \in ingested
    BY DEF IdsOf
  <2> QED
    BY <1>1
<1>8. \A h \in Groups : Index(h)' = Index(h)
  BY DEF Index
<1>9. ASSUME NEW i \in DOMAIN slots'
      PROVE  SlotExact(slots[i], i, ingested)'
  <2>1. i \in 0..(retained - 1)
    BY <1>5
  <2>2. CASE i = k
    <3>1. slots'[i] = s
      BY <1>5, <2>2
    <3>2. InlineExact(s, IdsOf(ingested', g)) \/ WindowExact(s, IdsOf(ingested', g))
      BY <1>3, <1>6 DEF Exact, InlineExact, WindowExact
    <3>3. g % retained = i
      BY <2>2 DEF Index
    <3> HIDE DEF s, g, k
    <3> QED
      BY <1>1, <1>3, <1>6, <3>1, <3>2, <3>3 DEF SlotExact
  <2>3. CASE i # k
    <3>1. slots'[i] = slots[i]
      BY <1>5, <2>1, <2>3
    <3>2. SlotExact(slots[i], i, ingested)
      BY <1>2, <2>1 DEF IInv, SlotsExact
    <3>3. slots[i] # NoGroup =>
              slots[i].group \in Groups /\ slots[i].group # g
      BY <2>3, <3>2 DEF SlotExact, Index
    <3> HIDE DEF g, k
    <3> QED
      BY <1>7, <3>1, <3>2, <3>3 DEF SlotExact
  <2> QED
    BY <2>2, <2>3
<1>10. ASSUME NEW l \in ingested'
       PROVE  /\ slots'[Index(l[1])'].kind # "none"
              /\ slots'[Index(l[1])'].group >= l[1]
  <2>1. l[1] \in Groups
    BY <1>1 DEF IInv, TypeOK, Location
  <2>2. Index(l[1])' = Index(l[1]) /\ Index(l[1]) \in 0..(retained - 1) /\ l[1] \in Nat
    BY <1>8, <2>1, SlotIndex DEF IInv
  <2>3. CASE l \in ingested /\ Index(l[1]) # k
    BY <1>5, <2>2, <2>3 DEF IInv, SlotsExact
  <2>4. CASE l \in ingested /\ Index(l[1]) = k
    <3>1. slots[k].group >= l[1] /\ slots[k].group \in Int
      BY <1>2, <2>4 DEF IInv, SlotsExact, Bitmap
    <3>2. g >= l[1]
      BY <1>2, <2>2, <3>1
    <3>3. slots'[k].kind \in {"inline", "window"}
      BY <1>3, <1>5 DEF IsBitmap
    <3> QED
      BY <1>3, <1>5, <2>2, <2>4, <3>2, <3>3
  <2>5. CASE l = loc
    BY <1>2, <1>3, <1>5, <2>2, <2>5 DEF IsBitmap
  <2> QED
    BY <2>3, <2>4, <2>5
<1> HIDE DEF g, k, s
<1> QED
  BY <1>5, <1>9, <1>10 DEF SlotsExact

\* An Object of a group newer than its slot's, or of the first group to come to
\* the slot, has not arrived before.
LEMMA SlotBehind ==
    ASSUME IInv, retained > 0, NEW loc \in Location,
           slots[Index(loc[1])].kind = "none" \/ loc[1] > slots[Index(loc[1])].group
    PROVE  loc \notin ingested /\ IdsOf(ingested, loc[1]) = {}
<1>1. loc[1] \in Groups /\ loc[1] \in Nat /\ slots[Index(loc[1])] \in Bitmap
  BY SlotIndex DEF IInv, Location
<1>2. ASSUME NEW l \in ingested, l[1] = loc[1]
      PROVE  FALSE
  BY <1>1, <1>2 DEF IInv, SlotsExact, Bitmap
<1> QED
  BY <1>2 DEF IdsOf

\* An arrival keeps every fact the histories and the ring rest on.
LEMMA ArriveKeeps ==
    ASSUME IInv, NEW loc \in Location, is_duplicate(loc)
    PROVE  IInv'
<1> DEFINE g == loc[1]
           slot == slots[Index(g)]
<1>1. g \in Groups /\ loc[2] \in Objects /\ g \in Nat /\ loc[2] \in Nat /\ loc = <<g, loc[2]>>
  <2>1. g \in Groups /\ loc[2] \in Objects /\ loc = <<g, loc[2]>>
    BY DEF Location
  <2> QED
    BY <2>1, IdsAssumption
<1>2. retained \in RetainedChoices /\ retained \in Nat
  BY IdsAssumption DEF IInv, TypeOK
<1>3. ASSUME retained > 0
      PROVE  /\ Index(g) \in DOMAIN slots
             /\ slot \in Bitmap
             /\ SlotExact(slot, Index(g), ingested)
  BY <1>1, <1>3, SlotIndex DEF IInv, SlotsExact
<1>4. CASE DetectionOff(loc)
  <2>1. retained' = retained /\ slots' = slots /\ retained = 0 /\ Report(loc, FALSE)
    BY <1>4 DEF DetectionOff
  <2>2. SlotTakenOver(loc)
    BY <2>1 DEF SlotTakenOver
  <2>3. /\ ingested' \in SUBSET Location
        /\ forwarded' \in SUBSET ingested'
        /\ reforwarded' \in SUBSET forwarded'
        /\ NoObjectLost'
        /\ ExactWithinBounds'
    BY <2>1, <2>2, ReportKeeps
  <2>4. DOMAIN slots' = {}
    BY <2>1 DEF IInv, TypeOK
  <2>5. SlotsExact'
    BY <2>1, <2>4 DEF SlotsExact
  <2> QED
    BY <2>1, <2>3, <2>5 DEF IInv, TypeOK
<1>5. CASE SameGroup(loc)
  <2>1. /\ retained' = retained /\ retained > 0
        /\ slot.kind # "none" /\ slot.group = g
        /\ slots' = [slots EXCEPT ![Index(g)] = GroupState(g, test_and_set(slot, loc[2]))]
        /\ Report(loc, Seen(slot, loc[2]))
    BY <1>5 DEF SameGroup
  <2> DEFINE S == IdsOf(ingested, g)
  <2>2. S \in SUBSET Nat /\ (\A x \in S : <<g, x>> \in ingested) /\ (loc \in ingested => loc[2] \in S)
    BY <1>1, IdsAssumption DEF IdsOf
  <2>3. IsBitmap(slot) /\ Exact(slot, S)
    BY <1>3, <2>1 DEF IsBitmap, Bitmap, Exact, SlotExact, NoGroup
  <2>4. /\ Exact(test_and_set(slot, loc[2]), S \union {loc[2]})
        /\ IsBitmap(test_and_set(slot, loc[2]))
    BY <1>1, <2>2, <2>3, TestAndSetExact
  <2>5. /\ Seen(slot, loc[2]) => loc[2] \in S
        /\ ~Seen(slot, loc[2]) /\ loc[2] \in S => \E h \in S : h - loc[2] >= WINDOW_BITS
    BY <1>1, <2>2, <2>3, SeenExact
  <2>6. Seen(slot, loc[2]) \in BOOLEAN
    BY DEF Seen, WindowSeen
  <2>7. Seen(slot, loc[2]) => loc \in ingested
    BY <1>1, <2>2, <2>5
  <2>8. ~Seen(slot, loc[2]) /\ loc \in ingested =>
            \E l \in ingested : l[1] = loc[1] /\ l[2] - loc[2] >= WINDOW_BITS
    <3> SUFFICES ASSUME ~Seen(slot, loc[2]), loc \in ingested
                 PROVE  \E l \in ingested : l[1] = loc[1] /\ l[2] - loc[2] >= WINDOW_BITS
      OBVIOUS
    <3>1. PICK h \in S : h - loc[2] >= WINDOW_BITS
      BY <2>2, <2>5
    <3>2. <<g, h>> \in ingested /\ <<g, h>>[1] = loc[1] /\ <<g, h>>[2] = h
      BY <2>2
    <3> QED
      BY <3>1, <3>2
  <2>9. slots[Index(loc[1])].group <= loc[1] /\ ingested' = ingested \union {loc}
    BY <1>1, <2>1 DEF Report
  <2> HIDE DEF S
  <2>10. /\ ingested' \in SUBSET Location
         /\ forwarded' \in SUBSET ingested'
         /\ reforwarded' \in SUBSET forwarded'
         /\ NoObjectLost'
         /\ ExactWithinBounds'
    BY <2>1, <2>6, <2>7, <2>8, ReportKeeps
  <2>11. SlotsExact' /\ slots' \in [0..(retained' - 1) -> Bitmap]
    BY <2>1, <2>4, <2>9, SlotWriteKeeps DEF S
  <2> QED
    BY <1>2, <2>1, <2>10, <2>11 DEF IInv, TypeOK
<1>6. CASE NewerGroup(loc) \/ FirstUse(loc)
  <2>1. /\ retained' = retained /\ retained > 0
        /\ slot.kind = "none" \/ g > slot.group
        /\ slots' = [slots EXCEPT ![Index(g)] = GroupState(g, NewBits(loc[2]))]
        /\ Report(loc, FALSE)
    BY <1>6 DEF NewerGroup, FirstUse, NewGroupState
  <2>2. loc \notin ingested /\ IdsOf(ingested, g) = {}
    BY <2>1, SlotBehind
  <2>3. slot.group <= g
    <3>1. slot.kind = "none" => slot.group = -1
      BY <1>3, <2>1 DEF SlotExact, NoGroup, InlineExact, WindowExact
    <3> QED
      BY <1>1, <1>3, <2>1, <3>1 DEF Bitmap
  <2>4. Exact(NewBits(loc[2]), IdsOf(ingested, g) \union {loc[2]}) /\ IsBitmap(NewBits(loc[2]))
    BY <1>1, <2>2, NewBitsExact
  <2>5. ingested' = ingested \union {loc}
    BY <2>1 DEF Report
  <2>6. /\ ingested' \in SUBSET Location
        /\ forwarded' \in SUBSET ingested'
        /\ reforwarded' \in SUBSET forwarded'
        /\ NoObjectLost'
        /\ ExactWithinBounds'
    BY <2>1, <2>2, ReportKeeps
  <2>7. SlotsExact' /\ slots' \in [0..(retained' - 1) -> Bitmap]
    BY <2>1, <2>3, <2>4, <2>5, SlotWriteKeeps
  <2> QED
    BY <1>2, <2>1, <2>6, <2>7 DEF IInv, TypeOK
<1>7. CASE OlderGroup(loc)
  <2>1. /\ retained' = retained /\ slots' = slots /\ retained > 0
        /\ slot.kind # "none" /\ g < slot.group
        /\ Report(loc, FALSE)
    BY <1>7 DEF OlderGroup
  <2>2. /\ slot.group \in Groups /\ slot.group % retained = Index(g)
        /\ IdsOf(ingested, slot.group) # {}
    BY <1>3, <2>1 DEF SlotExact, NoGroup
  <2>3. PICK id \in Objects : <<slot.group, id>> \in ingested
    BY <2>2 DEF IdsOf
  <2>4. SlotTakenOver(loc)
    BY <1>3, <2>1, <2>2, <2>3 DEF SlotTakenOver, Index, Bitmap
  <2>5. ingested' = ingested \union {loc}
    BY <2>1 DEF Report
  <2>6. /\ ingested' \in SUBSET Location
        /\ forwarded' \in SUBSET ingested'
        /\ reforwarded' \in SUBSET forwarded'
        /\ NoObjectLost'
        /\ ExactWithinBounds'
    BY <2>1, <2>4, ReportKeeps
  <2>7. ASSUME NEW i \in DOMAIN slots
        PROVE  SlotExact(slots[i], i, ingested)'
    <3>1. SlotExact(slots[i], i, ingested)
      BY DEF IInv, SlotsExact
    <3>2. slots[i] # NoGroup => slots[i].group # g
      <4>1. slots[i] # NoGroup /\ slots[i].group = g => i = Index(g)
        BY <3>1 DEF SlotExact, Index
      <4> QED
        BY <1>1, <1>3, <2>1, <4>1 DEF Bitmap
    <3>3. slots[i] # NoGroup =>
              IdsOf(ingested', slots[i].group) = IdsOf(ingested, slots[i].group)
      BY <1>1, <2>5, <3>2 DEF IdsOf
    <3> QED
      BY <2>1, <3>1, <3>3 DEF SlotExact
  <2>8. \A l \in ingested' : /\ slots'[Index(l[1])'].kind # "none"
                             /\ slots'[Index(l[1])'].group >= l[1]
    <3>1. slot.group >= g
      BY <1>1, <1>3, <2>1 DEF Bitmap
    <3> QED
      BY <2>1, <2>5, <3>1 DEF IInv, SlotsExact, Index
  <2>9. SlotsExact'
    BY <2>1, <2>7, <2>8 DEF SlotsExact
  <2> QED
    BY <1>2, <2>1, <2>6, <2>9 DEF IInv, TypeOK
<1> QED
  BY <1>4, <1>5, <1>6, <1>7 DEF is_duplicate

\* Duplicate detection never drops a new Object, and never forwards one twice while
\* its group has its slot and it is less than WINDOW_BITS behind the highest id (the
\* code's bound; the documented one is an id wider): is_duplicate, for every ring.
THEOREM DetectionCorrect == Spec => [](TypeOK /\ NoObjectLost /\ ExactWithinBounds /\ SlotsExact)
<1>1. Init => IInv
  BY IdsAssumption DEF Init, IInv, TypeOK, NoObjectLost, ExactWithinBounds, SlotsExact,
     SlotExact, NoGroup, Bitmap
<1>2. IInv /\ [Next]_vars => IInv'
  <2> SUFFICES ASSUME IInv, [Next]_vars
               PROVE  IInv'
    OBVIOUS
  <2>1. CASE Next
    BY <2>1, ArriveKeeps DEF Next, Arrive
  <2>2. CASE UNCHANGED vars
    BY <2>2 DEF vars, IInv, TypeOK, NoObjectLost, ExactWithinBounds, Behind, SlotTakenOver,
       SlotsExact, SlotExact, Index
  <2> QED
    BY <2>1, <2>2
<1> QED
  BY <1>1, <1>2, PTL DEF Spec, IInv

\* An Object that arrives for the first time is never taken for a duplicate, however
\* groups share slots and windows move on: is_duplicate.
THEOREM NewObjectsPass == Spec => []NoObjectLost
BY DetectionCorrect, PTL

\* Recording an id never takes a window's newest id back.
LEMMA HighAdvances ==
    ASSUME NEW b, b.high \in Int, b.kind = "inline" => b.high = -1, NEW id \in Nat
    PROVE  test_and_set(b, id).high >= b.high
<1>1. ASSUME NEW high \in Int, NEW words
      PROVE  /\ window_test_and_set(high, words, id).high >= high
             /\ window_test_and_set(high, words, id).high \in Int
  BY DEF window_test_and_set, WindowBits
<1>2. CASE b.kind = "inline"
  <2>1. CASE id < INLINE_BITS
    BY <1>2, <2>1 DEF test_and_set, InlineBits
  <2>2. CASE ~(id < INLINE_BITS)
    <3> DEFINE w == promote(b.words)
    <3>1. w.high \in Int /\ w.high >= -1
      BY BitsAssumption DEF promote, WindowBits
    <3>2. test_and_set(b, id) = window_test_and_set(w.high, w.words, id)
      BY <1>2, <2>2 DEF test_and_set
    <3> HIDE DEF w
    <3> QED
      BY <1>1, <1>2, <3>1, <3>2
  <2> QED
    BY <2>1, <2>2
<1>3. CASE b.kind # "inline"
  BY <1>1, <1>3 DEF test_and_set
<1> QED
  BY <1>2, <1>3

\* A slot never goes back to an older group, nor a window to older ids, whatever
\* stragglers arrive: is_duplicate evicts only for newer groups.
THEOREM SlotsAdvance == Spec => NeverBackToOlderGroup
<1> DEFINE Advances ==
             \A i \in DOMAIN slots :
                /\ slots'[i].group >= slots[i].group
                /\ slots'[i].group = slots[i].group => slots'[i].high >= slots[i].high
<1>1. TypeOK /\ SlotsExact /\ [Next]_vars => [Advances]_vars
  <2> SUFFICES ASSUME TypeOK, SlotsExact, NEW loc \in Location, is_duplicate(loc)
               PROVE  Advances
    BY DEF Next, Arrive
  <2>1. loc[1] \in Groups /\ loc[1] \in Nat /\ loc[2] \in Nat
    BY IdsAssumption DEF Location
  <2>2. \A i \in DOMAIN slots : slots[i].group \in Int /\ slots[i].high \in Int
    BY DEF TypeOK, Bitmap
  <2>3. CASE UNCHANGED slots
    BY <2>2, <2>3
  <2>4. CASE retained > 0 /\ ~UNCHANGED slots
    <3> DEFINE k == Index(loc[1])
    <3>1. k \in DOMAIN slots /\ SlotExact(slots[k], k, ingested)
      BY <2>1, <2>4, SlotIndex DEF SlotsExact
    <3>2. PICK s : /\ slots' = [slots EXCEPT ![k] = s]
                   /\ s.group >= slots[k].group
                   /\ s.group = slots[k].group => s.high >= slots[k].high
      <4>1. CASE SameGroup(loc)
        <5> DEFINE b == test_and_set(slots[k], loc[2])
                   s == GroupState(loc[1], b)
        <5>1. slots[k].kind = "inline" => slots[k].high = -1
          BY <3>1 DEF SlotExact, NoGroup, InlineExact, WindowExact
        <5>2. b.high >= slots[k].high
          BY <2>1, <2>2, <3>1, <5>1, HighAdvances
        <5>3. slots' = [slots EXCEPT ![k] = s] /\ loc[1] = slots[k].group
          BY <4>1 DEF SameGroup
        <5> HIDE DEF b
        <5>4. s.group = loc[1] /\ s.high = b.high
          BY DEF GroupState
        <5>5. s.group >= slots[k].group /\ s.high >= slots[k].high
          BY <2>1, <5>2, <5>3, <5>4
        <5> HIDE DEF s, k
        <5> QED
          BY <5>3, <5>5
      <4>2. CASE NewerGroup(loc) \/ FirstUse(loc)
        <5> DEFINE s == NewGroupState(loc[1], loc[2])
        <5>1. slots' = [slots EXCEPT ![k] = s]
          BY <4>2 DEF NewerGroup, FirstUse
        <5>2. s.group = loc[1]
          BY DEF NewGroupState, GroupState
        <5>3. loc[1] > slots[k].group
          <6>1. CASE NewerGroup(loc)
            BY <6>1 DEF NewerGroup
          <6>2. CASE FirstUse(loc)
            <7>1. slots[k].group = -1
              BY <3>1, <6>2
              DEF FirstUse, SlotExact, NoGroup, InlineExact, WindowExact
            <7> QED
              BY <2>1, <7>1
          <6> QED
            BY <4>2, <6>1, <6>2
        <5>4. s.group >= slots[k].group /\ s.group # slots[k].group
          BY <2>1, <2>2, <3>1, <5>2, <5>3
        <5> HIDE DEF s, k
        <5> QED
          BY <5>1, <5>4
      <4> QED
        BY <2>4, <4>1, <4>2 DEF is_duplicate, DetectionOff, OlderGroup
    <3>3. \A i \in DOMAIN slots : slots'[i] = IF i = k THEN s ELSE slots[i]
      BY <3>2 DEF TypeOK
    <3> QED
      BY <2>2, <3>2, <3>3
  <2> QED
    BY <2>3, <2>4 DEF is_duplicate, DetectionOff, SameGroup, NewerGroup, OlderGroup, FirstUse
<1> QED
  BY <1>1, DetectionCorrect, PTL DEF Spec, NeverBackToOlderGroup
=============================================================================
