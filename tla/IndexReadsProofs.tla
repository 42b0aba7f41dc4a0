--------------------------- MODULE IndexReadsProofs ---------------------------
(***************************************************************************)
(* The time index, and the reads through it and the tag index.  As long as *)
(* the time index has keys its list agrees with them, the keys are in      *)
(* order, and every block of a call that returned has one; with that, and  *)
(* filters that only grow, no read misses what its indexes point to.       *)
(***************************************************************************)
EXTENDS IndexReads, FiniteSetTheorems, SequenceTheorems, WellFoundedInduction, TLAPS

\* A key for each of the first blocks of the list, and for every listed block.
Aligned ==
    /\ Len(min_keys) =< Len(blocks)
    /\ \A i \in DOMAIN min_keys : min_keys[i] = blocks[i].min_ts

InOrder == \A i, j \in DOMAIN min_keys : i < j => min_keys[i] =< min_keys[j]

Keyed == \A b \in listed : \E i \in DOMAIN min_keys : blocks[i] = b

TimeType ==
    /\ blocks \in Seq(Block) /\ min_keys \in Seq(Time)
    /\ listed \subseteq Block

TimeInv == TimeType /\ Aligned /\ InOrder /\ Keyed

-----------------------------------------------------------------------------
(* bisect: the keys up to x are exactly those before the place it returns *)

LEMMA CountOfInitialSegment ==
    ASSUME NEW n \in Nat, NEW D, D \subseteq 1..n,
           \A i \in D : \A j \in 1..n : j < i => j \in D
    PROVE  /\ Cardinality(D) \in 0..n
           /\ \A i \in 1..n : i \in D <=> i =< Cardinality(D)
<1>1. IsFiniteSet(1..n) /\ Cardinality(1..n) = n
  BY FS_Interval
<1>2. IsFiniteSet(D) /\ Cardinality(D) \in Nat /\ Cardinality(D) =< n
  BY <1>1, FS_Subset, FS_CardinalityType
<1>3. ASSUME NEW i \in D
      PROVE  i =< Cardinality(D)
  <2>1. 1..i \subseteq D
    BY <1>3
  <2>2. Cardinality(1..i) = i
    BY FS_Interval
  <2> QED BY <1>2, <2>1, <2>2, FS_Subset
<1>4. ASSUME NEW i \in 1..n, i \notin D
      PROVE  ~(i =< Cardinality(D))
  <2>1. D \subseteq 1..(i - 1)
    BY <1>4
  <2>2. IsFiniteSet(1..(i - 1)) /\ Cardinality(1..(i - 1)) = i - 1
    BY FS_Interval
  <2>3. Cardinality(D) =< i - 1
    BY <2>1, <2>2, FS_Subset
  <2> QED BY <1>2, <2>3
<1> QED BY <1>2, <1>3, <1>4

LEMMA BisectLeftFacts ==
    ASSUME NEW keys \in Seq(Int), NEW x \in Int,
           \A i, j \in DOMAIN keys : i < j => keys[i] =< keys[j]
    PROVE  /\ BisectLeft(keys, x) \in 0..Len(keys)
           /\ \A i \in DOMAIN keys : keys[i] < x <=> i =< BisectLeft(keys, x)
<1> DEFINE D == {i \in DOMAIN keys : keys[i] < x}
<1>1. DOMAIN keys = 1..Len(keys) /\ Len(keys) \in Nat
  OBVIOUS
<1>2. D \subseteq 1..Len(keys) /\ \A i \in D : \A j \in 1..Len(keys) : j < i => j \in D
  BY <1>1
<1>3. /\ Cardinality(D) \in 0..Len(keys)
      /\ \A i \in 1..Len(keys) : i \in D <=> i =< Cardinality(D)
  <2> HIDE DEF D
  <2> QED BY <1>1, <1>2, CountOfInitialSegment
<1> QED BY <1>1, <1>3 DEF BisectLeft

LEMMA BisectRightFacts ==
    ASSUME NEW keys \in Seq(Int), NEW x \in Int,
           \A i, j \in DOMAIN keys : i < j => keys[i] =< keys[j]
    PROVE  /\ BisectRight(keys, x) \in 0..Len(keys)
           /\ \A i \in DOMAIN keys : keys[i] =< x <=> i =< BisectRight(keys, x)
<1> DEFINE D == {i \in DOMAIN keys : keys[i] =< x}
<1>1. DOMAIN keys = 1..Len(keys) /\ Len(keys) \in Nat
  OBVIOUS
<1>2. D \subseteq 1..Len(keys) /\ \A i \in D : \A j \in 1..Len(keys) : j < i => j \in D
  BY <1>1
<1>3. /\ Cardinality(D) \in 0..Len(keys)
      /\ \A i \in 1..Len(keys) : i \in D <=> i =< Cardinality(D)
  <2> HIDE DEF D
  <2> QED BY <1>1, <1>2, CountOfInitialSegment
<1> QED BY <1>1, <1>3 DEF BisectRight

LEMMA InsertFacts ==
    ASSUME NEW S, NEW s \in Seq(S), NEW e \in S, NEW i \in 1..(Len(s) + 1)
    PROVE  /\ InsertAt(s, i, e) \in Seq(S)
           /\ Len(InsertAt(s, i, e)) = Len(s) + 1
           /\ \A k \in 1..(Len(s) + 1) :
                 InsertAt(s, i, e)[k] = IF k < i THEN s[k] ELSE IF k = i THEN e ELSE s[k - 1]
<1>1. SubSeq(s, 1, i - 1) \in Seq(S) /\ Len(SubSeq(s, 1, i - 1)) = i - 1
  OBVIOUS
<1>2. SubSeq(s, i, Len(s)) \in Seq(S) /\ Len(SubSeq(s, i, Len(s))) = Len(s) - i + 1
  OBVIOUS
<1>3. \A k \in 1..(i - 1) : SubSeq(s, 1, i - 1)[k] = s[k]
  OBVIOUS
<1>4. \A k \in 1..(Len(s) - i + 1) : SubSeq(s, i, Len(s))[k] = s[i + k - 1]
  OBVIOUS
<1> DEFINE front == SubSeq(s, 1, i - 1)  back == SubSeq(s, i, Len(s))
<1> HIDE DEF front, back
<1>5. InsertAt(s, i, e) = front \o <<e>> \o back
  BY DEF InsertAt, front, back
<1>6. /\ front \in Seq(S) /\ Len(front) = i - 1
      /\ back \in Seq(S) /\ Len(back) = Len(s) - i + 1
  BY <1>1, <1>2 DEF front, back
<1>7. /\ \A k \in 1..(i - 1) : front[k] = s[k]
      /\ \A k \in 1..(Len(s) - i + 1) : back[k] = s[i + k - 1]
  BY <1>3, <1>4 DEF front, back
<1> DEFINE head == front \o <<e>>
<1>8. /\ head \in Seq(S) /\ Len(head) = i
      /\ \A k \in 1..i : head[k] = IF k < i THEN s[k] ELSE e
  BY <1>6, <1>7
<1> HIDE DEF head
<1>9. InsertAt(s, i, e) = head \o back
  BY <1>5 DEF head
<1>10. head \o back \in Seq(S) /\ Len(head \o back) = Len(s) + 1
  <2>1. head \o back \in Seq(S) /\ Len(head \o back) = Len(head) + Len(back)
    BY <1>6, <1>8, ConcatProperties, Zenon
  <2> QED BY <1>6, <1>8, <2>1
<1>11. \A k \in 1..(Len(s) + 1) : (head \o back)[k] = IF k =< i THEN head[k] ELSE back[k - i]
  BY <1>6, <1>8, ConcatProperties
<1>12. ASSUME NEW k \in 1..(Len(s) + 1)
       PROVE  (head \o back)[k] = IF k < i THEN s[k] ELSE IF k = i THEN e ELSE s[k - 1]
  <2>1. CASE k =< i
    BY <1>8, <1>11, <2>1
  <2>2. CASE ~(k =< i)
    <3>1. k - i \in 1..(Len(s) - i + 1) /\ i + (k - i) - 1 = k - 1
      BY <2>2
    <3>2. (head \o back)[k] = back[k - i] /\ back[k - i] = s[k - 1]
      BY <1>7, <1>11, <2>2, <3>1
    <3> QED BY <2>2, <3>2
  <2> QED BY <2>1, <2>2
<1> QED BY <1>9, <1>10, <1>12

LEMMA KeysAreIntegers ==
    ASSUME TimeType
    PROVE  min_keys \in Seq(Int) /\ \A b \in Block : b.min_ts \in Int /\ b.max_ts \in Int
<1>1. Time \subseteq Int
  BY TimeAssumption DEF TimeAssumption
<1>2. \A i \in 1..Len(min_keys) : min_keys[i] \in Int
  <2>1. \A i \in 1..Len(min_keys) : min_keys[i] \in Time
    BY DEF TimeType
  <2> QED BY <1>1, <2>1
<1>3. min_keys \in Seq(Int)
  BY <1>2 DEF TimeType
<1>4. \A b \in Block : b.min_ts \in Int /\ b.max_ts \in Int
  BY <1>1 DEF Block
<1> QED BY <1>3, <1>4

-----------------------------------------------------------------------------
(* The steps *)

LEMMA PlaceAfter ==
    ASSUME NEW n \in Nat, NEW p \in 0..n
    PROVE  p + 1 \in 1..(n + 1) /\ \A k \in 1..n : k =< p <=> k < p + 1
OBVIOUS

LEMMA AddBlockKeeps ==
    ASSUME TimeInv, NEW b \in Block, AddBlock(b)
    PROVE  TimeInv'
<1> DEFINE n == Len(min_keys)
           x == b.min_ts
           i == BisectLeft(min_keys, x) + 1
<1>1. /\ blocks \in Seq(Block) /\ min_keys \in Seq(Int) /\ x \in Int
      /\ n =< Len(blocks) /\ n \in Nat /\ Len(blocks) \in Nat /\ DOMAIN min_keys = 1..n
      /\ x \in Time /\ min_keys \in Seq(Time)
  BY KeysAreIntegers DEF TimeInv, TimeType, Aligned, Block
<1>2. /\ i \in 1..(n + 1)
      /\ \A k \in 1..n : min_keys[k] < x <=> k < i
  <2>1. /\ BisectLeft(min_keys, x) \in 0..n
        /\ \A k \in DOMAIN min_keys : min_keys[k] < x <=> k =< BisectLeft(min_keys, x)
    BY <1>1, BisectLeftFacts DEF TimeInv, InOrder
  <2> DEFINE p == BisectLeft(min_keys, x)
  <2>2. n \in Nat /\ p \in 0..n /\ \A k \in 1..n : min_keys[k] < x <=> k =< p
    BY <1>1, <2>1, Zenon
  <2>3. i = p + 1
    OBVIOUS
  <2> HIDE DEF n, x, i, p
  <2>4. p + 1 \in 1..(n + 1) /\ \A k \in 1..n : k =< p <=> k < p + 1
    BY <2>2, PlaceAfter, Zenon
  <2> QED BY <2>2, <2>3, <2>4, Zenon
<1> HIDE DEF i, x
<1>3. blocks' = InsertAt(blocks, i, b) /\ min_keys' = InsertAt(min_keys, i, x)
  BY DEF AddBlock, i, x
<1>4. /\ blocks' \in Seq(Block) /\ Len(blocks') = Len(blocks) + 1
      /\ \A k \in 1..(Len(blocks) + 1) :
            blocks'[k] = IF k < i THEN blocks[k] ELSE IF k = i THEN b ELSE blocks[k - 1]
  <2>1. i \in 1..(Len(blocks) + 1)
    BY <1>1, <1>2
  <2>2. /\ InsertAt(blocks, i, b) \in Seq(Block)
        /\ Len(InsertAt(blocks, i, b)) = Len(blocks) + 1
        /\ \A k \in 1..(Len(blocks) + 1) :
              InsertAt(blocks, i, b)[k]
                 = IF k < i THEN blocks[k] ELSE IF k = i THEN b ELSE blocks[k - 1]
    BY <1>1, <2>1, InsertFacts
  <2> QED BY <1>3, <2>2
<1>5. /\ min_keys' \in Seq(Time) /\ Len(min_keys') = n + 1
      /\ \A k \in 1..(n + 1) :
            min_keys'[k] = IF k < i THEN min_keys[k] ELSE IF k = i THEN x ELSE min_keys[k - 1]
  <2>1. i \in 1..(Len(min_keys) + 1)
    BY <1>2
  <2>2. /\ InsertAt(min_keys, i, x) \in Seq(Time)
        /\ Len(InsertAt(min_keys, i, x)) = Len(min_keys) + 1
        /\ \A k \in 1..(Len(min_keys) + 1) :
              InsertAt(min_keys, i, x)[k]
                 = IF k < i THEN min_keys[k] ELSE IF k = i THEN x ELSE min_keys[k - 1]
    BY <1>1, <2>1, InsertFacts
  <2> QED BY <1>3, <2>2
<1>6. DOMAIN min_keys' = 1..(n + 1)
  BY <1>5
<1>7. TimeType'
  BY <1>4, <1>5 DEF TimeInv, TimeType, AddBlock
<1>8. Aligned'
  <2>1. ASSUME NEW k \in 1..(n + 1)
        PROVE  min_keys'[k] = blocks'[k].min_ts
    <3>1. \A m \in 1..n : min_keys[m] = blocks[m].min_ts
      BY <1>1 DEF TimeInv, Aligned
    <3>2. k \in 1..(Len(blocks) + 1) /\ (k < i => k \in 1..n) /\ (k > i => k - 1 \in 1..n)
      BY <1>1, <1>2
    <3>3. CASE k < i
      BY <1>4, <1>5, <3>1, <3>2, <3>3
    <3>4. CASE k = i
      BY <1>4, <1>5, <3>2, <3>4 DEF x
    <3>5. CASE k > i
      BY <1>2, <1>4, <1>5, <3>1, <3>2, <3>5
    <3> QED BY <1>2, <3>3, <3>4, <3>5
  <2> QED BY <1>1, <1>4, <1>5, <1>6, <2>1 DEF Aligned
<1>9. InOrder'
  <2> SUFFICES ASSUME NEW j \in 1..(n + 1), NEW k \in 1..(n + 1), j < k
               PROVE  min_keys'[j] =< min_keys'[k]
    BY <1>6 DEF InOrder
  <2>1. \A p, q \in 1..n : p < q => min_keys[p] =< min_keys[q]
    BY <1>1 DEF TimeInv, InOrder
  <2>2. \A p \in 1..n : min_keys[p] \in Int
    BY <1>1
  <2>3. CASE k < i
    BY <1>1, <1>2, <1>5, <2>1, <2>3
  <2>4. CASE k = i
    BY <1>1, <1>2, <1>5, <2>2, <2>4
  <2>5. CASE k > i /\ j < i
    <3>1. k - 1 \in 1..n /\ j \in 1..n /\ j =< k - 1
      BY <1>1, <1>2, <2>5
    <3>2. min_keys'[j] = min_keys[j] /\ min_keys'[k] = min_keys[k - 1]
      BY <1>2, <1>5, <2>5
    <3> QED BY <2>1, <2>2, <3>1, <3>2
  <2>6. CASE k > i /\ j = i
    <3>1. k - 1 \in 1..n /\ ~(k - 1 < i)
      BY <1>1, <1>2, <2>6
    <3>2. min_keys'[j] = x /\ min_keys'[k] = min_keys[k - 1]
      BY <1>2, <1>5, <2>6
    <3> QED BY <1>1, <1>2, <2>2, <3>1, <3>2
  <2>7. CASE j > i
    <3>1. k - 1 \in 1..n /\ j - 1 \in 1..n /\ j - 1 < k - 1
      BY <1>1, <1>2, <2>7
    <3>2. min_keys'[j] = min_keys[j - 1] /\ min_keys'[k] = min_keys[k - 1]
      BY <1>2, <1>5, <2>7
    <3> QED BY <2>1, <3>1, <3>2
  <2> QED BY <1>2, <2>3, <2>4, <2>5, <2>6, <2>7
<1>10. Keyed'
  <2> SUFFICES ASSUME NEW c \in listed \cup {b}
               PROVE  \E k \in 1..(n + 1) : blocks'[k] = c
    BY <1>6 DEF Keyed, AddBlock
  <2>1. CASE c = b
    BY <1>1, <1>2, <1>4, <2>1
  <2>2. CASE c \in listed
    <3>1. PICK m \in 1..n : blocks[m] = c
      BY <1>1, <2>2 DEF TimeInv, Keyed
    <3>2. CASE m < i
      BY <1>1, <1>4, <3>1, <3>2
    <3>3. CASE ~(m < i)
      <4>1. m + 1 \in 1..(n + 1) /\ m + 1 > i /\ m + 1 \in 1..(Len(blocks) + 1)
        BY <1>1, <1>2, <3>3
      <4>2. blocks'[m + 1] = blocks[m]
        BY <1>2, <1>4, <4>1
      <4> QED BY <3>1, <4>1, <4>2
    <3> QED BY <3>2, <3>3
  <2> QED BY <2>1, <2>2
<1> QED BY <1>7, <1>8, <1>9, <1>10 DEF TimeInv

LEMMA AddBlocksKeeps ==
    ASSUME TimeInv, NEW new \in Seq(Block), AddBlocks(new)
    PROVE  TimeInv'
<1> DEFINE bs == blocks \o new
           n == Len(blocks) + Len(new)
<1>1. /\ bs \in Seq(Block) /\ Len(bs) = n /\ DOMAIN bs = 1..n /\ n \in Nat
      /\ \A i \in DOMAIN blocks : i \in 1..n /\ bs[i] = blocks[i]
      /\ \A i \in DOMAIN new : Len(blocks) + i \in 1..n /\ bs[Len(blocks) + i] = new[i]
  BY DEF TimeInv, TimeType
<1>2. PICK p \in [1..n -> 1..n] :
         /\ \A k \in 1..n : \E i \in 1..n : p[i] = k
         /\ \A i, j \in 1..n : i < j => Precedes(bs[p[i]], bs[p[j]])
         /\ blocks' = [i \in 1..n |-> bs[p[i]]]
  <2>1. blocks' \in Sortings(bs)
    BY DEF AddBlocks
  <2> HIDE DEF bs
  <2>2. PICK q \in [DOMAIN bs -> DOMAIN bs] :
           /\ \A k \in DOMAIN bs : \E i \in DOMAIN bs : q[i] = k
           /\ \A i, j \in DOMAIN bs : i < j => Precedes(bs[q[i]], bs[q[j]])
           /\ blocks' = [i \in DOMAIN bs |-> bs[q[i]]]
    BY <2>1, Zenon DEF Sortings
  <2>3. DOMAIN bs = 1..n
    BY <1>1
  <2> HIDE DEF n
  <2>4. q \in [1..n -> 1..n]
    BY <2>3, Zenon
  <2>5. /\ \A k \in 1..n : \E i \in 1..n : q[i] = k
        /\ \A i, j \in 1..n : i < j => Precedes(bs[q[i]], bs[q[j]])
    BY <2>2, <2>3, Zenon
  <2>6. blocks' = [i \in 1..n |-> bs[q[i]]]
    BY <2>2, <2>3
  <2> QED BY <2>4, <2>5, <2>6, Zenon
<1>3. /\ min_keys' = MinKeys(blocks')
      /\ listed' = listed \cup {new[i] : i \in DOMAIN new}
  BY DEF AddBlocks
<1> HIDE DEF bs, n
<1>4. \A i \in 1..n : bs[i] \in Block
  BY <1>1
<1>5. /\ blocks' \in Seq(Block) /\ Len(blocks') = n /\ DOMAIN blocks' = 1..n
      /\ \A i \in 1..n : blocks'[i] = bs[p[i]] /\ blocks'[i] \in Block
  <2>1. \A i \in 1..n : p[i] \in 1..n
    OBVIOUS
  <2>2. \A i \in 1..n : blocks'[i] = bs[p[i]] /\ blocks'[i] \in Block
    BY <1>2, <1>4, <2>1, Zenon
  <2>3. blocks' \in [1..n -> Block]
    BY <1>2, <1>4, <2>1, Zenon
  <2> QED BY <1>1, <2>2, <2>3
<1>6. /\ min_keys' \in Seq(Time) /\ Len(min_keys') = n /\ DOMAIN min_keys' = 1..n
      /\ \A i \in 1..n : min_keys'[i] = blocks'[i].min_ts
  <2>1. min_keys' = [i \in 1..n |-> blocks'[i].min_ts]
    BY <1>3, <1>5 DEF MinKeys
  <2>2. \A i \in 1..n : blocks'[i].min_ts \in Time
    BY <1>5 DEF Block
  <2> QED BY <1>1, <2>1, <2>2
<1>7. TimeType'
  <2>1. \A i \in DOMAIN new : new[i] \in Block
    OBVIOUS
  <2> QED BY <1>3, <1>5, <1>6, <2>1 DEF TimeInv, TimeType
<1>8. Aligned'
  BY <1>1, <1>5, <1>6 DEF Aligned
<1>9. InOrder'
  <2> SUFFICES ASSUME NEW i \in 1..n, NEW j \in 1..n, i < j
               PROVE  min_keys'[i] =< min_keys'[j]
    BY <1>6 DEF InOrder
  <2>1. Precedes(bs[p[i]], bs[p[j]]) /\ bs[p[i]] \in Block /\ bs[p[j]] \in Block
    BY <1>2, <1>4
  <2>2. \A a, b \in Block : Precedes(a, b) => a.min_ts =< b.min_ts
    BY KeysAreIntegers DEF TimeInv, Precedes
  <2> QED BY <1>5, <1>6, <2>1, <2>2
<1>10. Keyed'
  <2> SUFFICES ASSUME NEW c \in listed'
               PROVE  \E i \in 1..n : blocks'[i] = c
    BY <1>6 DEF Keyed
  <2>1. \E k \in 1..n : bs[k] = c
    <3>1. CASE c \in listed
      <4>1. PICK k \in DOMAIN min_keys : blocks[k] = c
        BY <3>1 DEF TimeInv, Keyed
      <4>2. k \in DOMAIN blocks
        BY DEF TimeInv, TimeType, Aligned
      <4> QED BY <1>1, <4>1, <4>2
    <3>2. CASE \E k \in DOMAIN new : new[k] = c
      BY <1>1, <3>2
    <3> QED BY <1>3, <3>1, <3>2
  <2> QED BY <1>2, <1>5, <2>1
<1> QED BY <1>7, <1>8, <1>9, <1>10 DEF TimeInv

LEMMA AddBlocksRaisesKeeps ==
    ASSUME TimeInv, NEW new \in Seq(Block), AddBlocksRaises(new)
    PROVE  TimeInv'
<1>1. PICK k \in DOMAIN new : blocks' = blocks \o SubSeq(new, 1, k - 1)
  BY DEF AddBlocksRaises
<1>2. SubSeq(new, 1, k - 1) \in Seq(Block)
  OBVIOUS
<1>3. /\ blocks' \in Seq(Block) /\ Len(blocks') >= Len(blocks)
      /\ \A i \in DOMAIN blocks : blocks'[i] = blocks[i]
  BY <1>1, <1>2 DEF TimeInv, TimeType
<1>4. min_keys' = min_keys /\ listed' = listed
  BY DEF AddBlocksRaises
<1>5. DOMAIN min_keys \subseteq DOMAIN blocks
  BY DEF TimeInv, TimeType, Aligned
<1>6. TimeType' /\ InOrder'
  BY <1>3, <1>4 DEF TimeInv, TimeType, InOrder
<1>7. Aligned'
  BY <1>3, <1>4, <1>5 DEF TimeInv, TimeType, Aligned
<1>8. Keyed'
  BY <1>3, <1>4, <1>5 DEF TimeInv, Keyed
<1> QED BY <1>6, <1>7, <1>8 DEF TimeInv

-----------------------------------------------------------------------------
LEMMA TimeInvComplete == TimeInv => SearchComplete
<1> SUFFICES ASSUME TimeInv, NEW start \in Time, NEW end \in Time, start =< end
             PROVE  /\ \A b \in listed : Overlaps(b, start, end) =>
                           \E i \in Hits(start, end) : blocks[i] = b
                    /\ \A i \in Hits(start, end) : Overlaps(blocks[i], start, end)
                    /\ \A i, j \in Hits(start, end) :
                          i < j => blocks[i].min_ts =< blocks[j].min_ts
  BY DEF SearchComplete
<1>1. /\ min_keys \in Seq(Int) /\ end \in Int /\ Len(min_keys) \in Nat
      /\ DOMAIN min_keys = 1..Len(min_keys)
  BY KeysAreIntegers, TimeAssumption DEF TimeInv, TimeAssumption
<1>2. /\ BisectRight(min_keys, end) \in 0..Len(min_keys)
      /\ \A i \in DOMAIN min_keys : min_keys[i] =< end <=> i =< BisectRight(min_keys, end)
  BY <1>1, BisectRightFacts DEF TimeInv, InOrder
<1>3. \A i \in 1..BisectRight(min_keys, end) :
         i \in DOMAIN min_keys /\ min_keys[i] =< end /\ min_keys[i] = blocks[i].min_ts
  BY <1>1, <1>2 DEF TimeInv, Aligned
<1>4. ASSUME NEW b \in listed, Overlaps(b, start, end)
      PROVE  \E i \in Hits(start, end) : blocks[i] = b
  <2>1. PICK i \in DOMAIN min_keys : blocks[i] = b
    BY DEF TimeInv, Keyed
  <2>2. i \in 1..BisectRight(min_keys, end)
    BY <1>1, <1>2, <1>4, <2>1 DEF TimeInv, Aligned, Overlaps
  <2> QED BY <1>4, <2>1, <2>2 DEF Hits, Overlaps
<1>5. \A i \in Hits(start, end) : Overlaps(blocks[i], start, end)
  BY <1>3 DEF Hits, Overlaps
<1>6. \A i, j \in Hits(start, end) : i < j => blocks[i].min_ts =< blocks[j].min_ts
  BY <1>3 DEF Hits, TimeInv, InOrder
<1> QED BY <1>4, <1>5, <1>6

\* In every state the index can reach, by any sequence of single and bulk
\* additions, failed ones included, a search misses no block of a call that
\* returned, returns only blocks that overlap, and in the order of their start.
THEOREM Search_is_complete == TimeSpec => []SearchComplete
<1>1. TimeInit => TimeInv
  BY DEF TimeInit, TimeInv, TimeType, Aligned, InOrder, Keyed
<1>2. TimeInv /\ [TimeNext]_timeVars => TimeInv'
  <2> SUFFICES ASSUME TimeInv, [TimeNext]_timeVars
               PROVE  TimeInv'
    OBVIOUS
  <2>1. CASE \E b \in Block : AddBlock(b)
    BY <2>1, AddBlockKeeps
  <2>2. CASE \E new \in Seq(Block) : AddBlocks(new)
    BY <2>2, AddBlocksKeeps
  <2>3. CASE \E new \in Seq(Block) : AddBlocksRaises(new)
    BY <2>3, AddBlocksRaisesKeeps
  <2>4. CASE UNCHANGED timeVars
    BY <2>4 DEF timeVars, TimeInv, TimeType, Aligned, InOrder, Keyed
  <2> QED BY <2>1, <2>2, <2>3, <2>4 DEF TimeNext
<1> QED BY <1>1, <1>2, TimeInvComplete, PTL DEF TimeSpec

-----------------------------------------------------------------------------
(* Locations found in a range: the places of a set of hits, counted *)

PlaceOf(hits, k) == CHOOSE h \in hits : Cardinality({j \in hits : j < h}) = k - 1

LEMMA PlacesOfHits ==
    ASSUME NEW n \in Nat, NEW hits \in SUBSET (1..n), NEW i \in hits
    PROVE  \E k \in 1..Cardinality(hits) : PlaceOf(hits, k) = i
<1> DEFINE Below(h) == {j \in hits : j < h}
<1>1. IsFiniteSet(hits) /\ hits \subseteq Int
  <2>1. 1 \in Int /\ n \in Int
    OBVIOUS
  <2>2. IsFiniteSet(1..n)
    BY <2>1, FS_Interval, Zenon
  <2>3. IsFiniteSet(hits)
    BY <2>2, FS_Subset, Zenon
  <2> QED BY <2>3
<1>2. \A h \in hits : IsFiniteSet(Below(h)) /\ Cardinality(Below(h)) \in Nat
  BY <1>1, FS_Subset, FS_CardinalityType
<1>3. ASSUME NEW g \in hits, NEW h \in hits, g < h
      PROVE  Cardinality(Below(g)) < Cardinality(Below(h))
  <2>1. Below(g) \subseteq Below(h) /\ g \in Below(h) /\ g \notin Below(g)
    <3>1. \A j \in hits : j < g => j < h
      BY <1>1, <1>3
    <3>2. ~(g < g)
      BY <1>1
    <3> QED BY <1>3, <3>1, <3>2
  <2> HIDE DEF Below
  <2>2. Below(g) \subseteq Below(h) /\ Below(g) # Below(h)
    BY <2>1
  <2>3. /\ Cardinality(Below(g)) =< Cardinality(Below(h))
        /\ Cardinality(Below(g)) = Cardinality(Below(h)) => Below(g) = Below(h)
    BY <1>2, <2>2, FS_Subset
  <2> QED BY <1>2, <2>2, <2>3
<1>4. Cardinality(Below(i)) < Cardinality(hits) /\ Cardinality(hits) \in Nat
  <2>1. Below(i) \subseteq hits /\ i \notin Below(i)
    BY <1>1
  <2> HIDE DEF Below
  <2>2. Below(i) \subseteq hits /\ Below(i) # hits
    BY <2>1
  <2>3. /\ Cardinality(Below(i)) =< Cardinality(hits)
        /\ Cardinality(Below(i)) = Cardinality(hits) => Below(i) = hits
    BY <1>1, <2>2, FS_Subset
  <2>4. Cardinality(hits) \in Nat
    BY <1>1, FS_CardinalityType
  <2> QED BY <1>2, <2>2, <2>3, <2>4
<1>5. \A h \in hits : Cardinality(Below(h)) = Cardinality(Below(i)) => h = i
  <2> SUFFICES ASSUME NEW h \in hits, Cardinality(Below(h)) = Cardinality(Below(i))
               PROVE  h = i
    OBVIOUS
  <2> HIDE DEF Below
  <2>1. ~(h < i) /\ ~(i < h)
    BY <1>2, <1>3
  <2> QED BY <1>1, <2>1
<1> HIDE DEF Below
<1>6. PICK c \in Nat : c = Cardinality(Below(i))
  BY <1>2
<1>7. (CHOOSE h \in hits : Cardinality(Below(h)) = c) = i
  BY <1>5, <1>6
<1>8. c + 1 \in 1..Cardinality(hits) /\ (c + 1) - 1 = c
  BY <1>4, <1>6
<1>9. (CHOOSE h \in hits : Cardinality(Below(h)) = (c + 1) - 1) = i
  BY <1>7, <1>8
<1> QED BY <1>8, <1>9 DEF Below, PlaceOf

\* A listed block that overlaps has its location among those found.
LEMMA FoundInRange ==
    ASSUME TimeInv, NEW start \in Int, NEW end \in Int, NEW b \in listed,
           Overlaps(b, start, end)
    PROVE  b.location \in ToSet(FindLocationsInRange(start, end))
<1>1. /\ min_keys \in Seq(Int) /\ Len(min_keys) \in Nat
      /\ DOMAIN min_keys = 1..Len(min_keys)
  BY KeysAreIntegers, TimeAssumption DEF TimeInv, TimeAssumption
<1>2. /\ BisectRight(min_keys, end) \in 0..Len(min_keys)
      /\ \A i \in DOMAIN min_keys : min_keys[i] =< end <=> i =< BisectRight(min_keys, end)
  BY <1>1, BisectRightFacts DEF TimeInv, InOrder
<1>3. PICK i \in DOMAIN min_keys : blocks[i] = b
  BY DEF TimeInv, Keyed
<1>4. i \in Hits(start, end)
  <2>1. i \in 1..BisectRight(min_keys, end)
    BY <1>1, <1>2, <1>3 DEF TimeInv, Aligned, Overlaps
  <2> QED BY <1>3, <2>1 DEF Hits, Overlaps
<1>5. PICK n \in Nat : n = BisectRight(min_keys, end) /\ Hits(start, end) \subseteq 1..n
  BY <1>2 DEF Hits
<1>6. PICK hits : hits = Hits(start, end)
  OBVIOUS
<1>7. PICK k \in 1..Cardinality(hits) : PlaceOf(hits, k) = i
  BY <1>4, <1>5, <1>6, PlacesOfHits
<1>8. FindBlocksInRange(start, end) = [m \in 1..Cardinality(hits) |-> blocks[PlaceOf(hits, m)]]
  BY <1>6 DEF FindBlocksInRange, PlaceOf
<1>9. /\ DOMAIN FindBlocksInRange(start, end) = 1..Cardinality(hits)
      /\ FindBlocksInRange(start, end)[k] = b
  BY <1>3, <1>7, <1>8
<1>10. PICK found : found = FindBlocksInRange(start, end)
  OBVIOUS
<1>11. FindLocationsInRange(start, end) = [m \in DOMAIN found |-> found[m].location]
  BY <1>10 DEF FindLocationsInRange
<1>12. k \in DOMAIN found /\ found[k] = b
  BY <1>7, <1>9, <1>10
<1> QED BY <1>11, <1>12 DEF ToSet

-----------------------------------------------------------------------------
(* The reads *)

ReadsType ==
    /\ content \in [Location -> Seq(Sample)]
    /\ \A l \in Location : Len(content[l]) =< MaxPoints
    /\ entries \subseteq Entry
    /\ filters \in [Location -> (SUBSET Bit) \cup {NoFilter}]

\* What came through index_location is listed, and its filter has its bits.
FilterInv ==
    /\ indexed \subseteq entries
    /\ \A e \in indexed : filters[e.location] # NoFilter /\ Hash[e.tag] \subseteq filters[e.location]

IInv == TimeInv /\ ReadsType /\ FilterInv

LEMMA ReadsInitIInv == ReadsInit => IInv
<1> SUFFICES ASSUME ReadsInit PROVE IInv
  OBVIOUS
<1>1. TimeInv
  BY DEF ReadsInit, TimeInit, TimeInv, TimeType, Aligned, InOrder, Keyed
<1>2. <<>> \in Seq(Sample) /\ Len(<<>>) =< MaxPoints
  BY ReadsAssumption, EmptySeq DEF ReadsAssumption
<1>3. ReadsType /\ FilterInv
  <2>1. PICK none : none = <<>>
    OBVIOUS
  <2>2. content = [l \in Location |-> none] /\ none \in Seq(Sample) /\ Len(none) =< MaxPoints
    BY <1>2, <2>1 DEF ReadsInit
  <2>3. /\ content \in [Location -> Seq(Sample)]
        /\ \A l \in Location : Len(content[l]) =< MaxPoints
    BY <2>2
  <2>4. /\ entries = {} /\ indexed = {} /\ filters = [l \in Location |-> NoFilter]
    BY DEF ReadsInit
  <2>5. filters \in [Location -> (SUBSET Bit) \cup {NoFilter}]
    BY <2>4
  <2> QED BY <2>3, <2>4, <2>5 DEF ReadsType, FilterInv
<1> QED BY <1>1, <1>3 DEF IInv

LEMMA SampleType ==
    ASSUME ReadsType, NEW l \in Location, NEW i \in DOMAIN content[l]
    PROVE  content[l][i].ts \in Time /\ content[l][i].tags \subseteq Tag
<1>1. content[l] \in Seq(Sample)
  BY DEF ReadsType
<1>2. content[l][i] \in Sample
  BY <1>1, ElementOfSeq
<1> QED BY <1>2, ReadsAssumption DEF ReadsAssumption

LEMMA TimeStep ==
    ASSUME IInv, ReadsNext
    PROVE  TimeInv'
<1>1. CASE UNCHANGED timeVars
  BY <1>1 DEF IInv, timeVars, TimeInv, TimeType, Aligned, InOrder, Keyed
<1>2. ASSUME NEW l \in Location, RegisterBlock(l) PROVE TimeInv'
  <2>1. content[l] \in Seq(Sample) /\ content[l] # <<>>
    BY <1>2 DEF IInv, ReadsType, RegisterBlock
  <2>2. 1 \in DOMAIN content[l] /\ Len(content[l]) \in DOMAIN content[l]
    BY <2>1
  <2> DEFINE new == [location |-> l, min_ts |-> content[l][1].ts,
                     max_ts |-> content[l][Len(content[l])].ts]
  <2>3. new \in Block
    BY <2>2, SampleType DEF IInv, Block
  <2>4. AddBlock(new)
    BY <1>2 DEF RegisterBlock
  <2> HIDE DEF new
  <2> QED BY <2>3, <2>4, AddBlockKeeps DEF IInv
<1>3. CASE RegisterAll
  <2>1. PICK new \in [1..2 -> BlocksPresent] : AddBlocks(new) \/ AddBlocksRaises(new)
    BY <1>3 DEF RegisterAll
  <2>2. new \in Seq(Block)
    <3>1. new \in [1..2 -> Block]
      BY DEF BlocksPresent
    <3>2. 2 \in Nat
      OBVIOUS
    <3> QED BY <3>1, <3>2, SeqDef
  <2> QED BY <2>1, <2>2, AddBlocksKeeps, AddBlocksRaisesKeeps DEF IInv
<1> QED BY <1>1, <1>2, <1>3
        DEF ReadsNext, DropLocation, WritePoint, IndexLocation, IndexPoint

LEMMA ReadsStep ==
    ASSUME IInv, ReadsNext
    PROVE  ReadsType' /\ FilterInv'
<1>0. ReadsType /\ FilterInv
  BY DEF IInv
<1>1. CASE UNCHANGED <<content, entries, filters, indexed>>
  BY <1>0, <1>1 DEF ReadsType, FilterInv
<1>2. ASSUME NEW l \in Location, NEW p \in Sample, WritePoint(l, p)
      PROVE  ReadsType' /\ FilterInv'
  <2>1. /\ Append(content[l], p) \in Seq(Sample)
        /\ Len(Append(content[l], p)) =< MaxPoints
    <3>1. content[l] \in Seq(Sample) /\ Len(content[l]) < MaxPoints
      BY <1>0, <1>2 DEF ReadsType, WritePoint
    <3> QED BY <3>1, ReadsAssumption, LenProperties, AppendProperties DEF ReadsAssumption
  <2>2. /\ content' = [content EXCEPT ![l] = Append(content[l], p)]
        /\ UNCHANGED <<entries, filters, indexed>>
    BY <1>2 DEF WritePoint
  <2>3. PICK s : s = Append(content[l], p)
    OBVIOUS
  <2> QED BY <1>0, <2>1, <2>2, <2>3 DEF ReadsType, FilterInv
<1>3. ASSUME NEW l \in Location, NEW i \in DOMAIN content[l], IndexLocation(l, content[l][i].tags)
      PROVE  ReadsType' /\ FilterInv'
  <2>1. PICK tags : tags = content[l][i].tags /\ tags \subseteq Tag
    BY <1>0, SampleType
  <2>2. PICK old \in SUBSET Bit :
           /\ old = IF filters[l] = NoFilter THEN {} ELSE filters[l]
           /\ filters[l] # NoFilter => filters[l] \subseteq old
    <3>1. filters[l] \in (SUBSET Bit) \cup {NoFilter}
      BY <1>0 DEF ReadsType
    <3>2. CASE filters[l] = NoFilter
      BY <3>2
    <3>3. CASE filters[l] # NoFilter
      <4>1. filters[l] \in SUBSET Bit
        BY <3>1, <3>3, Zenon
      <4> QED BY <3>3, <4>1, Zenon
    <3> QED BY <3>2, <3>3
  <2>3. UNION {Hash[t] : t \in tags} \subseteq Bit /\ \A t \in tags : Hash[t] \subseteq UNION {Hash[u] : u \in tags}
    BY <2>1, ReadsAssumption DEF ReadsAssumption
  <2>4. PICK bits : bits = old \cup UNION {Hash[t] : t \in tags}
    OBVIOUS
  <2>5. bits \in SUBSET Bit /\ bits # NoFilter /\ \A t \in tags : Hash[t] \subseteq bits
    BY <2>2, <2>3, <2>4, ReadsAssumption DEF ReadsAssumption
  <2>6. /\ filters' = [filters EXCEPT ![l] = bits] /\ content' = content
        /\ entries' = entries \cup Pairs(tags, l) /\ indexed' = indexed \cup Pairs(tags, l)
    BY <1>3, <2>1, <2>2, <2>4 DEF IndexLocation
  <2>7. Pairs(tags, l) \subseteq Entry
    BY <2>1 DEF Pairs, Entry
  <2>8. ReadsType'
    BY <1>0, <2>5, <2>6, <2>7 DEF ReadsType
  <2>9. ASSUME NEW e \in indexed'
        PROVE  filters'[e.location] # NoFilter /\ Hash[e.tag] \subseteq filters'[e.location]
    <3>1. e \in Entry /\ e.location \in Location
      BY <1>0, <2>6, <2>7, <2>9 DEF ReadsType, FilterInv, Entry
    <3>2. filters'[e.location] = IF e.location = l THEN bits ELSE filters[e.location]
      BY <1>0, <2>6, <3>1 DEF ReadsType
    <3>3. CASE e \in indexed
      BY <1>0, <2>2, <2>4, <2>5, <3>2, <3>3 DEF FilterInv
    <3>4. CASE e \in Pairs(tags, l)
      BY <2>5, <3>2, <3>4 DEF Pairs
    <3> QED BY <2>6, <2>9, <3>3, <3>4
  <2> QED BY <1>0, <2>6, <2>8, <2>9 DEF FilterInv
<1>4. ASSUME NEW l \in Location, NEW i \in DOMAIN content[l], IndexPoint(l, content[l][i])
      PROVE  ReadsType' /\ FilterInv'
  <2>1. content[l][i].tags \subseteq Tag
    BY <1>0, SampleType
  <2>2. /\ entries' = entries \cup {[tag |-> t, location |-> l] : t \in content[l][i].tags}
        /\ UNCHANGED <<content, filters, indexed>>
    BY <1>4 DEF IndexPoint, AddDataPoint
  <2> QED BY <1>0, <2>1, <2>2 DEF ReadsType, FilterInv, Entry
<1>5. ASSUME NEW l \in Location, DropLocation(l)
      PROVE  ReadsType' /\ FilterInv'
  <2>1. <<>> \in Seq(Sample) /\ Len(<<>>) =< MaxPoints
    BY ReadsAssumption, EmptySeq DEF ReadsAssumption
  <2>2. /\ content' = [content EXCEPT ![l] = <<>>] /\ filters' = filters
        /\ entries' = {e \in entries : e.location # l}
        /\ indexed' = {e \in indexed : e.location # l}
    BY <1>5 DEF DropLocation, RemoveLocation
  <2> QED BY <1>0, <2>1, <2>2 DEF ReadsType, FilterInv
<1> QED BY <1>1, <1>2, <1>3, <1>4, <1>5 DEF ReadsNext, RegisterBlock, RegisterAll

LEMMA ReadsInductive == ReadsSpec => []IInv
<1>1. ASSUME IInv, [ReadsNext]_readVars PROVE IInv'
  <2>1. CASE ReadsNext
    BY <1>1, <2>1, TimeStep, ReadsStep DEF IInv
  <2>2. CASE UNCHANGED readVars
    BY <1>1, <2>2 DEF readVars, timeVars, IInv, ReadsType, FilterInv, TimeInv, TimeType, Aligned,
                      InOrder, Keyed
  <2> QED BY <1>1, <2>1, <2>2
<1> QED BY <1>1, ReadsInitIInv, PTL DEF ReadsSpec

\* A query sees every point it asks for that its indexes lead to.
LEMMA PlanReaches ==
    ASSUME IInv, NEW q \in Query, q.start =< q.end,
           q.tags # {} \/ {q.start, q.end} # {NegInf, Inf},
           NEW l \in Location, NEW i \in DOMAIN content[l], Wanted(q, content[l][i]),
           {q.start, q.end} # {NegInf, Inf} => Covered(l, content[l][i]),
           Pairs(q.tags, l) \subseteq entries
    PROVE  l \in Plan(q)
<1>1. /\ q.start \in Int /\ q.end \in Int /\ content[l][i].ts \in Int
      /\ Bounded(q) <=> {q.start, q.end} # {NegInf, Inf}
  <2>1. q.start \in Time \cup {NegInf} /\ q.end \in Time \cup {Inf}
    BY DEF Query
  <2>2. Time \subseteq Int /\ content[l][i].ts \in Time
    BY TimeAssumption, SampleType DEF TimeAssumption, IInv
  <2>3. NegInf \in Int /\ Inf \in Int /\ NegInf < Inf /\ \A x \in Time : NegInf < x /\ x < Inf
    BY ReadsAssumption DEF ReadsAssumption
  <2>4. q.start \in Int /\ q.end \in Int /\ content[l][i].ts \in Int
    BY <2>1, <2>2, <2>3
  <2>5. Bounded(q) => {q.start, q.end} # {NegInf, Inf}
    <3> SUFFICES ASSUME q.start # NegInf \/ q.end # Inf, {q.start, q.end} = {NegInf, Inf}
                 PROVE  FALSE
      BY DEF Bounded
    <3>1. q.start \in {NegInf, Inf} /\ q.end \in {NegInf, Inf}
      BY Zenon
    <3>2. q.start # Inf
      BY <2>1, <2>2, <2>3
    <3>3. q.end # NegInf
      BY <2>1, <2>2, <2>3
    <3> QED BY <3>1, <3>2, <3>3
  <2>6. {q.start, q.end} # {NegInf, Inf} => Bounded(q)
    BY DEF Bounded
  <2> QED BY <2>4, <2>5, <2>6
<1>2. Bounded(q) => l \in ToSet(FindLocationsInRange(q.start, q.end))
  <2> SUFFICES ASSUME Bounded(q)
               PROVE  l \in ToSet(FindLocationsInRange(q.start, q.end))
    OBVIOUS
  <2>1. PICK b \in listed :
           b.location = l /\ b.min_ts =< content[l][i].ts /\ content[l][i].ts =< b.max_ts
    BY <1>1 DEF Covered
  <2>2. b.min_ts \in Int /\ b.max_ts \in Int
    BY TimeAssumption DEF TimeAssumption, IInv, TimeInv, TimeType, Block
  <2>3. q.start =< content[l][i].ts /\ content[l][i].ts =< q.end
    BY DEF Wanted
  <2>4. Overlaps(b, q.start, q.end)
    BY <1>1, <2>1, <2>2, <2>3 DEF Overlaps
  <2> QED BY <1>1, <2>1, <2>4, FoundInRange DEF IInv
<1>3. q.tags # {} => l \in LookupMultiple(entries, q.tags, "and")
  <2>1. ASSUME NEW t \in q.tags PROVE l \in Lookup(entries, t)
    <3>1. [tag |-> t, location |-> l] \in entries
      BY DEF Pairs
    <3>2. [tag |-> t, location |-> l].tag = t /\ [tag |-> t, location |-> l].location = l
      OBVIOUS
    <3> QED BY <3>1, <3>2 DEF Lookup
  <2> QED BY <2>1 DEF LookupMultiple
<1>4. q.tags # {} \/ Bounded(q)
  BY <1>1
<1>5. CASE q.tags # {} /\ Bounded(q)
  BY <1>2, <1>3, <1>5 DEF Plan
<1>6. CASE q.tags # {} /\ ~Bounded(q)
  BY <1>3, <1>6 DEF Plan
<1>7. CASE q.tags = {} /\ Bounded(q)
  BY <1>2, <1>7 DEF Plan
<1> QED BY <1>4, <1>5, <1>6, <1>7

LEMMA IInvReads == IInv => ReadsComplete
<1> SUFFICES ASSUME IInv, NEW q \in Query, q.start =< q.end,
                    q.tags # {} \/ {q.start, q.end} # {NegInf, Inf},
                    NEW l \in Location, NEW i \in DOMAIN content[l]
             PROVE  /\ (/\ Wanted(q, content[l][i])
                        /\ {q.start, q.end} # {NegInf, Inf} => Covered(l, content[l][i])
                        /\ Pairs(q.tags, l) \subseteq entries) => <<l, i>> \in Execute(q)
                    /\ <<l, i>> \in Execute(q) => Wanted(q, content[l][i])
  BY DEF ReadsComplete
<1>1. i \in 1..MaxPoints
  <2>1. content[l] \in Seq(Sample) /\ Len(content[l]) =< MaxPoints
    BY DEF IInv, ReadsType
  <2> QED BY <2>1, ReadsAssumption DEF ReadsAssumption
<1>2. <<l, i>> \in Execute(q) <=> l \in Plan(q) /\ Wanted(q, content[l][i])
  BY <1>1 DEF Execute
<1> QED BY <1>2, PlanReaches

\* Bounded, tagged and filtered queries return every point that matches and that
\* the indexes lead to, and nothing else, while locations are written, indexed,
\* registered in bulk by calls that may raise, and dropped.
THEOREM Reads_are_complete == ReadsSpec => []ReadsComplete
<1> QED BY ReadsInductive, IInvReads, PTL

\* The Bloom filter of a location lets through every tag it was indexed with,
\* whatever was indexed before and after and though removal leaves it alone.
THEOREM Filter_skips_nothing == ReadsSpec => []SkipsNothingIndexed
<1>1. IInv => SkipsNothingIndexed
  <2> SUFFICES ASSUME IInv, NEW e \in indexed
               PROVE  e.location \in LookupWithSkip(e.tag, Location)
    BY DEF SkipsNothingIndexed
  <2>1. e \in entries /\ e.location \in Location
    BY DEF IInv, ReadsType, FilterInv, Entry
  <2>2. e.location \in Lookup(entries, e.tag)
    BY <2>1 DEF Lookup
  <2> QED BY <2>1, <2>2 DEF LookupWithSkip, MightHave, IInv, FilterInv
<1> QED BY <1>1, ReadsInductive, PTL

-----------------------------------------------------------------------------
(* Range queries: locations are in the order of time *)

InTime ==
    \A l \in Location : \A i, j \in DOMAIN content[l] :
        i < j => content[l][i].ts =< content[l][j].ts

LEMMA InTimeStep == ASSUME IInv, InTime, [ReadsNext]_readVars PROVE InTime'
<1>1. CASE UNCHANGED content
  BY <1>1 DEF InTime
<1>2. ASSUME NEW l \in Location, NEW p \in Sample, WritePoint(l, p) PROVE InTime'
  <2>1. /\ content[l] \in Seq(Sample) /\ content' = [content EXCEPT ![l] = Append(content[l], p)]
        /\ content \in [Location -> Seq(Sample)]
        /\ \A i \in DOMAIN content[l] : content[l][i].ts =< p.ts
    BY <1>2 DEF IInv, ReadsType, WritePoint
  <2>2. PICK old \in Seq(Sample) : old = content[l]
    BY <2>1
  <2>3. PICK new : new = Append(old, p)
    OBVIOUS
  <2>4. ASSUME NEW i \in DOMAIN new, NEW j \in DOMAIN new, i < j
        PROVE  new[i].ts =< new[j].ts
    <3>1. /\ DOMAIN old = 1..Len(old) /\ Len(old) \in Nat /\ DOMAIN new = 1..(Len(old) + 1)
          /\ new[Len(old) + 1] = p /\ \A k \in 1..Len(old) : new[k] = old[k]
      BY <2>3
    <3>2. i \in 1..Len(old) /\ new[i] = old[i] /\ (j = Len(old) + 1 \/ j \in 1..Len(old))
      BY <2>4, <3>1
    <3>3. CASE j = Len(old) + 1
      BY <2>1, <2>2, <3>1, <3>2, <3>3
    <3>4. CASE j \in 1..Len(old)
      <4>1. old[i].ts =< old[j].ts
        BY <2>2, <2>4, <3>1, <3>2, <3>4 DEF InTime
      <4> QED BY <3>1, <3>2, <3>4, <4>1
    <3> QED BY <3>2, <3>3, <3>4
  <2>5. \A m \in Location : content'[m] = IF m = l THEN new ELSE content[m]
    BY <2>1, <2>2, <2>3
  <2> QED BY <2>4, <2>5 DEF InTime
<1>3. ASSUME NEW l \in Location, DropLocation(l) PROVE InTime'
  <2>1. \A m \in Location : content'[m] = IF m = l THEN <<>> ELSE content[m]
    BY <1>3 DEF DropLocation, IInv, ReadsType
  <2>2. DOMAIN <<>> = {}
    OBVIOUS
  <2> QED BY <2>1, <2>2 DEF InTime
<1> QED
  BY <1>1, <1>2, <1>3
     DEF ReadsNext, readVars, RegisterBlock, RegisterAll, IndexLocation, IndexPoint

LEMMA LeastOfNaturals ==
    ASSUME NEW T \in SUBSET Nat, T # {}
    PROVE  \E x \in T : \A y \in T : x =< y
<1> DEFINE R == {ss \in Nat \X Nat : ss[1] < ss[2]}
<1>1. IsWellFoundedOn(R, Nat)
  BY NatLessThanWellFounded DEF OpToRel
<1>2. \A x, y \in Nat : <<y, x>> \in R <=> y < x
  OBVIOUS
<1> HIDE DEF R
<1>3. PICK x \in T : \A y \in T : ~(<<y, x>> \in R)
  BY <1>1, WFMin
<1>4. x \in Nat /\ \A y \in T : y \in Nat /\ ~(y < x)
  BY <1>2, <1>3, Zenon
<1>5. \A y \in T : x =< y
  BY <1>4
<1> QED BY <1>5

LEMMA FirstStop ==
    ASSUME NEW n \in Nat, NEW stop \in SUBSET (1..n), stop # {}
    PROVE  Min(stop) \in stop /\ \A i \in stop : Min(stop) =< i
<1>1. stop \in SUBSET Nat
  OBVIOUS
<1>2. \E x \in stop : \A y \in stop : x =< y
  BY <1>1, LeastOfNaturals
<1> QED BY <1>2 DEF Min

\* The points a scan kept of the first n: in order, from start on.
KeptOf(points, start, n, out) ==
    /\ out \in Seq(Sample)
    /\ \A i, j \in DOMAIN out : i < j => out[i].ts =< out[j].ts
    /\ \A i \in DOMAIN out : \E k \in 1..n : points[k].ts >= start /\ out[i] = points[k]
    /\ \A k \in 1..n : points[k].ts >= start => \E i \in DOMAIN out : out[i] = points[k]

LEMMA KeepsOne ==
    ASSUME NEW points \in Seq(Sample), NEW start \in Int, NEW n \in DOMAIN points,
           \A i, j \in DOMAIN points : i < j => points[i].ts =< points[j].ts,
           NEW out, KeptOf(points, start, n - 1, out)
    PROVE  KeptOf(points, start, n, IF points[n].ts >= start THEN Append(out, points[n]) ELSE out)
<1>1. n \in Nat \ {0} /\ n =< Len(points) /\ DOMAIN points = 1..Len(points) /\ Len(points) \in Nat
  OBVIOUS
<1>2. \A k \in 1..n : k \in 1..(n - 1) \/ k = n
  BY <1>1
<1>3. \A k \in 1..(n - 1) : k \in 1..n /\ k \in DOMAIN points /\ k < n
  BY <1>1
<1>4. CASE ~(points[n].ts >= start)
  BY <1>1, <1>2, <1>3, <1>4 DEF KeptOf
<1>5. CASE points[n].ts >= start
  <2>1. PICK new : new = Append(out, points[n])
    OBVIOUS
  <2>2. out \in Seq(Sample) /\ points[n] \in Sample
    BY DEF KeptOf
  <2>3. /\ new \in Seq(Sample) /\ DOMAIN out = 1..Len(out) /\ Len(out) \in Nat
        /\ DOMAIN new = 1..(Len(out) + 1) /\ new[Len(out) + 1] = points[n]
        /\ \A i \in 1..Len(out) : new[i] = out[i]
    BY <2>1, <2>2
  <2>4. \A i \in DOMAIN new : i \in DOMAIN out \/ i = Len(out) + 1
    BY <2>3
  <2>5. \A i \in DOMAIN out : i \in DOMAIN new /\ i < Len(out) + 1
    BY <2>3
  <2>6. \A i \in DOMAIN out : out[i].ts =< points[n].ts
    <3> SUFFICES ASSUME NEW i \in DOMAIN out PROVE out[i].ts =< points[n].ts
      OBVIOUS
    <3>1. PICK k \in 1..(n - 1) : out[i] = points[k]
      BY DEF KeptOf
    <3>2. points[k].ts =< points[n].ts
      BY <1>3
    <3> QED BY <3>1, <3>2
  <2>7. ASSUME NEW i \in DOMAIN new, NEW j \in DOMAIN new, i < j
        PROVE  new[i].ts =< new[j].ts
    <3>1. i \in DOMAIN out
      BY <2>3, <2>7
    <3>2. CASE j \in DOMAIN out
      <4>1. new[i] = out[i] /\ new[j] = out[j] /\ out[i].ts =< out[j].ts
        BY <2>3, <2>7, <3>1, <3>2 DEF KeptOf
      <4> QED BY <4>1
    <3>3. CASE j = Len(out) + 1
      BY <2>3, <2>6, <3>1, <3>3
    <3> QED BY <2>4, <3>2, <3>3
  <2>8. \A i \in DOMAIN new : \E k \in 1..n : points[k].ts >= start /\ new[i] = points[k]
    BY <1>1, <1>3, <1>5, <2>3, <2>4 DEF KeptOf
  <2>9. \A k \in 1..n : points[k].ts >= start => \E i \in DOMAIN new : new[i] = points[k]
    <3> SUFFICES ASSUME NEW k \in 1..n, points[k].ts >= start
                 PROVE  \E i \in DOMAIN new : new[i] = points[k]
      OBVIOUS
    <3>1. CASE k = n
      <4>1. Len(out) + 1 \in DOMAIN new
        BY <2>3
      <4> QED BY <2>3, <3>1, <4>1
    <3>2. CASE k \in 1..(n - 1)
      <4>1. PICK i \in DOMAIN out : out[i] = points[k]
        BY <3>2 DEF KeptOf
      <4> QED BY <2>3, <2>5, <4>1
    <3> QED BY <1>2, <3>1, <3>2
  <2>10. KeptOf(points, start, n, new)
    BY <2>3, <2>7, <2>8, <2>9 DEF KeptOf
  <2> QED BY <1>5, <2>1, <2>10
<1> QED BY <1>4, <1>5

\* What a scan of a location in the order of time keeps.
LEMMA ScannedKeeps ==
    ASSUME NEW l, content[l] \in Seq(Sample), NEW start \in Int,
           \A i, j \in DOMAIN content[l] : i < j => content[l][i].ts =< content[l][j].ts,
           NEW stop \in SUBSET DOMAIN content[l]
    PROVE  \E upto \in 0..Len(content[l]) :
              /\ \A i \in DOMAIN content[l] : i =< upto <=> \A j \in stop : i < j
              /\ KeptOf(content[l], start, upto, Scanned(l, stop, start))
<1>1. PICK points \in Seq(Sample) : points = content[l]
  OBVIOUS
<1>2. PICK total \in Nat : total = Len(points) /\ DOMAIN points = 1..total
  OBVIOUS
<1>3. PICK upto \in 0..total :
         /\ upto = IF stop = {} THEN Len(content[l]) ELSE Min(stop) - 1
         /\ \A i \in DOMAIN points : i =< upto <=> \A j \in stop : i < j
  <2>1. CASE stop = {}
    BY <1>1, <1>2, <2>1
  <2>2. CASE stop # {}
    <3>1. PICK m \in stop : m = Min(stop) /\ \A i \in stop : m =< i
      BY <1>1, <1>2, <2>2, FirstStop
    <3>2. m \in 1..total /\ \A i \in stop : i \in Int
      BY <1>1, <1>2
    <3>3. \A i \in 1..total : i =< m - 1 <=> \A j \in stop : i < j
      BY <3>1, <3>2
    <3> QED BY <1>2, <2>2, <3>1, <3>2, <3>3
  <2> QED BY <2>1, <2>2
<1> DEFINE E(n, out) == IF content[l][n].ts >= start THEN Append(out, content[l][n]) ELSE out
           Folds(f, m) == f = [n \in 0..m |-> IF n = 0 THEN <<>> ELSE E(n, f[n - 1])]
           kept == CHOOSE f : Folds(f, upto)
<1> HIDE DEF E
<1>8. \E f : Folds(f, upto)
  <2> DEFINE T == {m \in Nat : ~ \E f : Folds(f, m)}
  <2> SUFFICES ASSUME ~ \E f : Folds(f, upto) PROVE FALSE
    OBVIOUS
  <2>0. T # {} /\ T \in SUBSET Nat
    <3>1. upto \in Nat
      OBVIOUS
    <3> HIDE DEF Folds
    <3>2. upto \in T
      BY <3>1
    <3>3. T \in SUBSET Nat
      OBVIOUS
    <3> QED BY <3>2, <3>3
  <2>1. PICK m \in T : \A y \in T : m =< y
    <3> HIDE DEF T
    <3> QED BY <2>0, LeastOfNaturals
  <2>2. CASE m = 0
    <3>1. [n \in 0..0 |-> <<>>] = [n \in 0..0 |-> IF n = 0 THEN <<>> ELSE E(n, [k \in 0..0 |-> <<>>][n - 1])]
      OBVIOUS
    <3>2. Folds([n \in 0..0 |-> <<>>], 0)
      BY <3>1
    <3> QED BY <2>1, <2>2, <3>2
  <2>3. CASE m # 0
    <3>1. m - 1 \in Nat /\ ~(m =< m - 1)
      BY <2>3
    <3>2. PICK f : Folds(f, m - 1)
      BY <2>1, <3>1
    <3> DEFINE g == [n \in 0..m |-> IF n = m THEN E(m, f[m - 1]) ELSE f[n]]
    <3>3. \A n \in 0..m : n # 0 => n - 1 \in 0..(m - 1) /\ g[n - 1] = f[n - 1]
      OBVIOUS
    <3>4. \A n \in 0..m : n # m => n \in 0..(m - 1)
      OBVIOUS
    <3>5. \A n \in 0..(m - 1) : f[n] = IF n = 0 THEN <<>> ELSE E(n, f[n - 1])
      BY <3>2
    <3>6. \A n \in 0..m : g[n] = IF n = 0 THEN <<>> ELSE E(n, g[n - 1])
      BY <2>3, <3>3, <3>4, <3>5
    <3>7. g = [n \in 0..m |-> g[n]]
      OBVIOUS
    <3> HIDE DEF g
    <3>8. Folds(g, m)
      BY <3>6, <3>7
    <3> QED BY <2>1, <3>8
  <2> QED BY <2>2, <2>3
<1>4. Folds(kept, upto)
  <2> HIDE DEF Folds
  <2> QED BY <1>8, Zenon
<1>5. Scanned(l, stop, start) = kept[upto]
  BY <1>3 DEF Scanned, E
<1> USE DEF E
<1>6. \A n \in 0..upto : KeptOf(points, start, n, kept[n])
  <2> DEFINE T == {n \in 0..upto : ~KeptOf(points, start, n, kept[n])}
  <2> SUFFICES ASSUME T # {} PROVE FALSE
    OBVIOUS
  <2> HIDE DEF kept
  <2>1. PICK n \in T : \A y \in T : n =< y
    <3>1. T \in SUBSET Nat
      OBVIOUS
    <3> QED BY <3>1, LeastOfNaturals
  <2>2. CASE n = 0
    <3>1. kept[0] = <<>>
      BY <1>4
    <3>2. KeptOf(points, start, 0, <<>>)
      BY DEF KeptOf
    <3> QED BY <2>1, <2>2, <3>1, <3>2
  <2>3. CASE n # 0
    <3>1. n \in DOMAIN points /\ n - 1 \in 0..upto /\ n \in 0..upto /\ ~(n =< n - 1)
      BY <1>2, <2>3
    <3>2. KeptOf(points, start, n - 1, kept[n - 1])
      BY <2>1, <3>1
    <3>3. kept[n] = IF points[n].ts >= start THEN Append(kept[n - 1], points[n]) ELSE kept[n - 1]
      BY <1>1, <1>4, <2>3, <3>1
    <3>4. PICK out : out = kept[n - 1]
      OBVIOUS
    <3>5. KeptOf(points, start, n, IF points[n].ts >= start THEN Append(out, points[n]) ELSE out)
      BY <1>1, <3>1, <3>2, <3>4, KeepsOne
    <3> QED BY <2>1, <3>3, <3>4, <3>5
  <2> QED BY <2>2, <2>3
<1>7. KeptOf(points, start, upto, Scanned(l, stop, start))
  BY <1>5, <1>6
<1> QED BY <1>1, <1>2, <1>3, <1>7

OrderedInTime(s) == \A i, j \in DOMAIN s : i < j => s[i].ts =< s[j].ts

\* The stream of a location is in order, in range, and has what is in range.
LEMMA StreamOfLocation ==
    ASSUME IInv, InTime, NEW l \in Location, NEW start \in Int, NEW end \in Int,
           NEW out, out = LocationStream(l, start, end)
    PROVE  /\ out \in Seq(Sample) /\ OrderedInTime(out)
           /\ \A i \in DOMAIN out : start =< out[i].ts /\ out[i].ts =< end
           /\ \A i \in DOMAIN content[l] :
                 start =< content[l][i].ts /\ content[l][i].ts =< end =>
                    \E k \in DOMAIN out : out[k] = content[l][i]
<1>1. PICK points \in Seq(Sample) : points = content[l]
  BY DEF IInv, ReadsType
<1>2. \A i \in DOMAIN points : points[i].ts \in Int
  BY <1>1, SampleType, TimeAssumption DEF IInv, TimeAssumption
<1>3. \A i, j \in DOMAIN points : i < j => points[i].ts =< points[j].ts
  BY <1>1 DEF InTime
<1>4. PICK stop \in SUBSET DOMAIN points : stop = {i \in DOMAIN points : points[i].ts > end}
  OBVIOUS
<1>5. out = Scanned(l, stop, start)
  BY <1>1, <1>4 DEF LocationStream
<1>6. \E n \in 0..Len(content[l]) :
         /\ \A i \in DOMAIN content[l] : i =< n <=> \A j \in stop : i < j
         /\ KeptOf(content[l], start, n, Scanned(l, stop, start))
  BY <1>1, <1>3, <1>4, ScannedKeeps
<1>7. PICK upto \in 0..Len(points) :
         /\ \A i \in DOMAIN points : i =< upto <=> \A j \in stop : i < j
         /\ KeptOf(points, start, upto, out)
  BY <1>1, <1>5, <1>6
<1>8. DOMAIN points = 1..Len(points) /\ Len(points) \in Nat
  OBVIOUS
<1>9. \A k \in 1..upto : k \in DOMAIN points /\ points[k].ts =< end
  <2> SUFFICES ASSUME NEW k \in 1..upto PROVE k \in DOMAIN points /\ points[k].ts =< end
    OBVIOUS
  <2>1. k \in DOMAIN points /\ k =< upto /\ k \in Int
    BY <1>8
  <2>2. k \notin stop
    BY <1>7, <2>1
  <2> QED BY <1>2, <1>4, <2>1, <2>2
<1>10. \A k \in DOMAIN points : points[k].ts =< end => k \in 1..upto
  <2> SUFFICES ASSUME NEW k \in DOMAIN points, points[k].ts =< end PROVE k \in 1..upto
    OBVIOUS
  <2>1. \A j \in stop : k < j
    <3> SUFFICES ASSUME NEW j \in stop, ~(k < j) PROVE FALSE
      OBVIOUS
    <3>1. j \in DOMAIN points /\ points[j].ts > end /\ points[j].ts \in Int /\ points[k].ts \in Int
      BY <1>2, <1>4
    <3>2. j = k \/ j < k
      BY <1>8, <3>1
    <3>3. points[j].ts =< points[k].ts
      BY <1>3, <3>1, <3>2
    <3> QED BY <3>1, <3>3
  <2>2. k =< upto
    BY <1>7, <2>1
  <2> QED BY <1>8, <2>2
<1>11. out \in Seq(Sample) /\ OrderedInTime(out)
  BY <1>7 DEF KeptOf, OrderedInTime
<1>12. \A i \in DOMAIN out : start =< out[i].ts /\ out[i].ts =< end
  <2> SUFFICES ASSUME NEW i \in DOMAIN out PROVE start =< out[i].ts /\ out[i].ts =< end
    OBVIOUS
  <2>1. PICK k \in 1..upto : points[k].ts >= start /\ out[i] = points[k]
    BY <1>7 DEF KeptOf
  <2>2. points[k].ts \in Int /\ points[k].ts =< end
    BY <1>2, <1>9
  <2> QED BY <2>1, <2>2
<1>13. \A i \in DOMAIN points : start =< points[i].ts /\ points[i].ts =< end =>
          \E k \in DOMAIN out : out[k] = points[i]
  <2> SUFFICES ASSUME NEW i \in DOMAIN points, start =< points[i].ts, points[i].ts =< end
               PROVE  \E k \in DOMAIN out : out[k] = points[i]
    OBVIOUS
  <2>1. i \in 1..upto /\ points[i].ts >= start
    BY <1>2, <1>10
  <2> QED BY <1>7, <2>1 DEF KeptOf
<1> QED BY <1>1, <1>11, <1>12, <1>13

\* A heap is not without a top: the least key, of the first stream that has it.
LEMMA HeapTop ==
    ASSUME NEW n \in Nat, NEW heap \in SUBSET (1..n), heap # {},
           NEW key, \A i \in heap : key[i] \in Int
    PROVE  \E i \in heap : \A j \in heap : key[i] < key[j] \/ (key[i] = key[j] /\ i =< j)
<1> DEFINE Before(j) == {i \in heap : key[i] < key[j] \/ (key[i] = key[j] /\ i < j)}
<1>1. IsFiniteSet(heap)
  <2>1. 1 \in Int /\ n \in Int
    OBVIOUS
  <2>2. IsFiniteSet(1..n)
    BY <2>1, FS_Interval, Zenon
  <2> QED BY <2>2, FS_Subset, Zenon
<1>2. \A j \in heap : IsFiniteSet(Before(j)) /\ Cardinality(Before(j)) \in Nat
  <2> SUFFICES ASSUME NEW j \in heap PROVE IsFiniteSet(Before(j)) /\ Cardinality(Before(j)) \in Nat
    OBVIOUS
  <2>1. Before(j) \subseteq heap
    OBVIOUS
  <2> HIDE DEF Before
  <2> QED BY <1>1, <2>1, FS_Subset, FS_CardinalityType
<1> DEFINE T == {c \in Nat : \E j \in heap : c = Cardinality(Before(j))}
<1>3. PICK c \in T : \A y \in T : c =< y
  <2>1. T # {} /\ T \in SUBSET Nat
    BY <1>2
  <2> HIDE DEF T
  <2> QED BY <2>1, LeastOfNaturals
<1>4. PICK i \in heap : c = Cardinality(Before(i))
  OBVIOUS
<1>5. ASSUME NEW j \in heap, ~(key[i] < key[j] \/ (key[i] = key[j] /\ i =< j))
      PROVE  FALSE
  <2>1. key[i] \in Int /\ key[j] \in Int /\ i \in Int /\ j \in Int
    OBVIOUS
  <2>2. key[j] < key[i] \/ (key[j] = key[i] /\ j < i)
    BY <1>5, <2>1
  <2>3. j \in Before(i) /\ j \notin Before(j)
    BY <2>1, <2>2
  <2>4. Before(j) \subseteq Before(i)
    <3> SUFFICES ASSUME NEW k \in Before(j) PROVE k \in Before(i)
      OBVIOUS
    <3>1. key[k] \in Int /\ k \in Int /\ k \in heap
      OBVIOUS
    <3> QED BY <2>1, <2>2, <3>1
  <2> HIDE DEF Before
  <2>5. Before(j) \subseteq Before(i) /\ Before(j) # Before(i)
    BY <2>3, <2>4
  <2>6. /\ Cardinality(Before(j)) =< Cardinality(Before(i))
        /\ Cardinality(Before(j)) = Cardinality(Before(i)) => Before(j) = Before(i)
    BY <1>2, <2>5, FS_Subset
  <2>7. Cardinality(Before(j)) \in T
    BY <1>2
  <2>8. c =< Cardinality(Before(j))
    BY <1>3, <2>7
  <2> QED BY <1>2, <1>4, <2>5, <2>6, <2>8
<1> QED BY <1>5

\* Every place has a hit.
LEMMA HitAtPlace ==
    ASSUME NEW n \in Nat, NEW hits \in SUBSET (1..n), NEW k \in 1..Cardinality(hits)
    PROVE  PlaceOf(hits, k) \in hits
<1>1. IsFiniteSet(hits) /\ Cardinality(hits) \in Nat
  <2>1. 1 \in Int /\ n \in Int
    OBVIOUS
  <2>2. IsFiniteSet(1..n)
    BY <2>1, FS_Interval, Zenon
  <2> QED BY <2>2, FS_Subset, FS_CardinalityType, Zenon
<1>2. PICK N \in Nat : N = Cardinality(hits)
  BY <1>1
<1>3. IsFiniteSet(1..N) /\ Cardinality(1..N) = N
  <2>1. 1 \in Int /\ N \in Int /\ (IF 1 > N THEN 0 ELSE N - 1 + 1) = N
    OBVIOUS
  <2>2. IsFiniteSet(1..N) /\ Cardinality(1..N) = IF 1 > N THEN 0 ELSE N - 1 + 1
    BY <2>1, FS_Interval, Zenon
  <2> QED BY <2>1, <2>2
<1>4. \A i \in hits : \E m \in 1..N : PlaceOf(hits, m) = i
  <2> SUFFICES ASSUME NEW i \in hits PROVE \E m \in 1..N : PlaceOf(hits, m) = i
    OBVIOUS
  <2>1. \E m \in 1..Cardinality(hits) : PlaceOf(hits, m) = i
    BY PlacesOfHits
  <2> QED BY <1>2, <2>1
<1>5. PICK e : e \in hits
  <2>1. hits # {}
    BY <1>1, FS_EmptySet
  <2> QED BY <2>1
<1> DEFINE f == [m \in 1..N |-> IF PlaceOf(hits, m) \in hits THEN PlaceOf(hits, m) ELSE e]
<1>6. f \in Surjection(1..N, hits)
  BY <1>4, <1>5 DEF Surjection
<1> HIDE DEF f
<1>7. f \in Injection(1..N, hits)
  BY <1>2, <1>3, <1>6, FS_Surjection
<1>8. ASSUME PlaceOf(hits, k) \notin hits PROVE FALSE
  <2>1. PICK m \in 1..N : PlaceOf(hits, m) = e
    BY <1>4, <1>5
  <2>2. f[m] = e /\ f[k] = e /\ m # k /\ k \in 1..N
    BY <1>2, <1>5, <1>8, <2>1 DEF f
  <2> QED BY <1>7, <2>2 DEF Injection, IsInjective
<1> QED BY <1>8

\* The search names locations.
LEMMA FoundAreLocations ==
    ASSUME TimeInv, NEW start \in Int, NEW end \in Int
    PROVE  FindLocationsInRange(start, end) \in Seq(Location)
<1>1. /\ min_keys \in Seq(Int) /\ Len(min_keys) \in Nat
      /\ DOMAIN min_keys = 1..Len(min_keys)
  BY KeysAreIntegers, TimeAssumption DEF TimeInv, TimeAssumption
<1>2. BisectRight(min_keys, end) \in 0..Len(min_keys)
  BY <1>1, BisectRightFacts DEF TimeInv, InOrder
<1>3. PICK n \in Nat : n = BisectRight(min_keys, end) /\ Hits(start, end) \subseteq 1..n
  BY <1>2 DEF Hits
<1>4. Hits(start, end) \subseteq DOMAIN blocks /\ blocks \in Seq(Block)
  BY <1>1, <1>2 DEF Hits, TimeInv, TimeType, Aligned
<1>5. PICK hits : hits = Hits(start, end)
  OBVIOUS
<1>6. Cardinality(hits) \in Nat
  <2>1. 1 \in Int /\ n \in Int
    OBVIOUS
  <2>2. IsFiniteSet(1..n)
    BY <2>1, FS_Interval, Zenon
  <2> QED BY <1>3, <1>5, <2>2, FS_Subset, FS_CardinalityType, Zenon
<1>7. \A k \in 1..Cardinality(hits) : PlaceOf(hits, k) \in hits
  BY <1>3, <1>5, HitAtPlace
<1>8. FindBlocksInRange(start, end) = [k \in 1..Cardinality(hits) |-> blocks[PlaceOf(hits, k)]]
  BY <1>5 DEF FindBlocksInRange, PlaceOf
<1>9. \A k \in 1..Cardinality(hits) : blocks[PlaceOf(hits, k)].location \in Location
  <2> SUFFICES ASSUME NEW k \in 1..Cardinality(hits) PROVE blocks[PlaceOf(hits, k)].location \in Location
    OBVIOUS
  <2>1. PICK h \in DOMAIN blocks : h = PlaceOf(hits, k)
    BY <1>4, <1>5, <1>7
  <2>2. blocks[h] \in Block
    BY <1>4
  <2> QED BY <2>1, <2>2 DEF Block
<1>10. PICK found : found = FindBlocksInRange(start, end)
  OBVIOUS
<1>11. FindLocationsInRange(start, end) = [m \in DOMAIN found |-> found[m].location]
  BY <1>10 DEF FindLocationsInRange
<1>12. FindLocationsInRange(start, end) \in [1..Cardinality(hits) -> Location]
  BY <1>8, <1>9, <1>10, <1>11
<1> QED BY <1>6, <1>12, SeqDef

-----------------------------------------------------------------------------
(* The merge of the streams *)

Passed(streams, at) == {x \in Places(streams) : x[2] < at[x[1]]}

MergeHeap(streams, at) == {i \in DOMAIN streams : at[i] =< Len(streams[i])}

MergeTop(streams, at) ==
    CHOOSE i \in MergeHeap(streams, at) : \A j \in MergeHeap(streams, at) :
        \/ streams[i][at[i]].ts < streams[j][at[j]].ts
        \/ streams[i][at[i]].ts = streams[j][at[j]].ts /\ i =< j

\* One turn of the loop over the heap.
MergeTurn(streams, m) ==
    LET top == MergeTop(streams, m.at)
    IN [out |-> Append(m.out, streams[top][m.at[top]]), at |-> [m.at EXCEPT ![top] = @ + 1]]

\* After n turns: n items are passed, they are what came out, in order, and
\* none of the others is earlier than any of them.
MergeInv(streams, n, m) ==
    /\ m.out \in Seq(Sample) /\ OrderedInTime(m.out)
    /\ m.at \in [DOMAIN streams -> Nat \ {0}]
    /\ \A i \in DOMAIN streams : m.at[i] =< Len(streams[i]) + 1
    /\ Cardinality(Passed(streams, m.at)) = n
    /\ \A k \in DOMAIN m.out : \E x \in Passed(streams, m.at) : m.out[k] = streams[x[1]][x[2]]
    /\ \A x \in Passed(streams, m.at) : \E k \in DOMAIN m.out : m.out[k] = streams[x[1]][x[2]]
    /\ \A k \in DOMAIN m.out : \A x \in Places(streams) \ Passed(streams, m.at) :
          m.out[k].ts =< streams[x[1]][x[2]].ts

LEMMA PlaceIs ==
    ASSUME NEW streams
    PROVE  /\ \A i \in DOMAIN streams : \A j \in DOMAIN streams[i] : <<i, j>> \in Places(streams)
           /\ \A x \in Places(streams) :
                 /\ x = <<x[1], x[2]>> /\ x[1] \in DOMAIN streams /\ x[2] \in DOMAIN streams[x[1]]
BY DEF Places

LEMMA PlacesFinite ==
    ASSUME NEW streams \in Seq(Seq(Sample))
    PROVE  IsFiniteSet(Places(streams))
<1> DEFINE f == [i \in DOMAIN streams |-> {i} \X DOMAIN streams[i]]
           T == {{i} \X DOMAIN streams[i] : i \in DOMAIN streams}
<1>1. f \in Surjection(DOMAIN streams, T)
  BY DEF Surjection
<1>2. IsFiniteSet(DOMAIN streams)
  <2>1. DOMAIN streams = 1..Len(streams) /\ 1 \in Int /\ Len(streams) \in Int
    OBVIOUS
  <2> QED BY <2>1, FS_Interval, Zenon
<1>3. IsFiniteSet(T)
  <2> HIDE DEF f, T
  <2> QED BY <1>1, <1>2, FS_Surjection
<1>4. ASSUME NEW i \in DOMAIN streams PROVE IsFiniteSet({i} \X DOMAIN streams[i])
  <2>1. streams[i] \in Seq(Sample)
    OBVIOUS
  <2>2. DOMAIN streams[i] = 1..Len(streams[i]) /\ 1 \in Int /\ Len(streams[i]) \in Int
    BY <2>1
  <2>3. IsFiniteSet(DOMAIN streams[i])
    BY <2>2, FS_Interval, Zenon
  <2> QED BY <2>3, FS_Product, FS_Singleton
<1>5. \A t \in T : IsFiniteSet(t)
  BY <1>4
<1>6. IsFiniteSet(UNION T)
  <2> HIDE DEF T
  <2> QED BY <1>3, <1>5, FS_UNION
<1> QED BY <1>6 DEF Places

\* One turn keeps it, while there are items left.
LEMMA MergeTurnKeeps ==
    ASSUME NEW streams \in Seq(Seq(Sample)), \A i \in DOMAIN streams : OrderedInTime(streams[i]),
           \A i \in DOMAIN streams : \A j \in DOMAIN streams[i] : streams[i][j].ts \in Int,
           NEW n \in Nat, n < Cardinality(Places(streams)),
           NEW m, MergeInv(streams, n, m)
    PROVE  MergeInv(streams, n + 1, MergeTurn(streams, m))
<1>1. PICK out \in Seq(Sample) : out = m.out
  BY DEF MergeInv
<1>2. PICK at \in [DOMAIN streams -> Nat \ {0}] : at = m.at
  BY DEF MergeInv
<1>3. PICK P : P = Passed(streams, at)
  OBVIOUS
<1>4. \A i \in DOMAIN streams : DOMAIN streams[i] = 1..Len(streams[i]) /\ Len(streams[i]) \in Nat
  <2> SUFFICES ASSUME NEW i \in DOMAIN streams
               PROVE  DOMAIN streams[i] = 1..Len(streams[i]) /\ Len(streams[i]) \in Nat
    OBVIOUS
  <2>1. streams[i] \in Seq(Sample)
    OBVIOUS
  <2> QED BY <2>1
<1>5. /\ OrderedInTime(out) /\ Cardinality(P) = n
      /\ \A i \in DOMAIN streams : at[i] =< Len(streams[i]) + 1
      /\ \A k \in DOMAIN out : \E x \in P : out[k] = streams[x[1]][x[2]]
      /\ \A x \in P : \E k \in DOMAIN out : out[k] = streams[x[1]][x[2]]
      /\ \A k \in DOMAIN out : \A x \in Places(streams) \ P : out[k].ts =< streams[x[1]][x[2]].ts
  BY <1>1, <1>2, <1>3 DEF MergeInv
<1>6. IsFiniteSet(P) /\ P \subseteq Places(streams)
  <2>1. P \subseteq Places(streams)
    BY <1>3 DEF Passed
  <2> QED BY <2>1, PlacesFinite, FS_Subset
<1>7. PICK heap \in SUBSET DOMAIN streams : heap = MergeHeap(streams, at)
  BY DEF MergeHeap
<1>8. heap # {}
  <2>1. P # Places(streams)
    BY <1>5
  <2>2. PICK x \in Places(streams) : x \notin P
    BY <1>6, <2>1
  <2>3. x[1] \in DOMAIN streams /\ x[2] \in DOMAIN streams[x[1]] /\ ~(x[2] < at[x[1]])
    BY <1>3, <2>2, PlaceIs DEF Passed
  <2>4. at[x[1]] =< Len(streams[x[1]])
    BY <1>4, <2>3
  <2> QED BY <1>7, <2>3, <2>4 DEF MergeHeap
<1>9. \A i \in heap : /\ i \in DOMAIN streams /\ at[i] \in DOMAIN streams[i]
                      /\ streams[i][at[i]].ts \in Int
  <2> SUFFICES ASSUME NEW i \in heap
               PROVE  /\ i \in DOMAIN streams /\ at[i] \in DOMAIN streams[i]
                      /\ streams[i][at[i]].ts \in Int
    OBVIOUS
  <2>1. i \in DOMAIN streams /\ at[i] =< Len(streams[i]) /\ at[i] \in Nat \ {0}
    BY <1>7 DEF MergeHeap
  <2>2. at[i] \in DOMAIN streams[i]
    BY <1>4, <2>1
  <2> QED BY <2>1, <2>2
<1>10. PICK top \in heap : /\ top = MergeTop(streams, at)
                           /\ \A j \in heap : streams[top][at[top]].ts =< streams[j][at[j]].ts
  <2> DEFINE key == [i \in heap |-> streams[i][at[i]].ts]
  <2>1. \A i \in heap : key[i] \in Int
    BY <1>9
  <2>2. heap \in SUBSET (1..Len(streams)) /\ Len(streams) \in Nat
    OBVIOUS
  <2>3. \E i \in heap : \A j \in heap : key[i] < key[j] \/ (key[i] = key[j] /\ i =< j)
    <3> HIDE DEF key
    <3> QED BY <1>8, <2>1, <2>2, HeapTop
  <2>4. \E i \in heap : \A j \in heap :
            \/ streams[i][at[i]].ts < streams[j][at[j]].ts
            \/ streams[i][at[i]].ts = streams[j][at[j]].ts /\ i =< j
    BY <2>3
  <2>5. PICK top \in heap : /\ top = MergeTop(streams, at)
                            /\ \A j \in heap :
                                  \/ streams[top][at[top]].ts < streams[j][at[j]].ts
                                  \/ streams[top][at[top]].ts = streams[j][at[j]].ts /\ top =< j
    BY <1>7, <2>4 DEF MergeTop
  <2>6. \A j \in heap : streams[top][at[top]].ts =< streams[j][at[j]].ts
    <3> SUFFICES ASSUME NEW j \in heap PROVE streams[top][at[top]].ts =< streams[j][at[j]].ts
      OBVIOUS
    <3>1. PICK a \in Int : a = streams[top][at[top]].ts
      BY <1>9
    <3>2. PICK b \in Int : b = streams[j][at[j]].ts
      BY <1>9
    <3>3. \/ streams[top][at[top]].ts < streams[j][at[j]].ts
          \/ streams[top][at[top]].ts = streams[j][at[j]].ts /\ top =< j
      BY <2>5
    <3>4. a < b \/ a = b
      BY <3>1, <3>2, <3>3, Zenon
    <3>5. a =< b
      BY <3>4
    <3> QED BY <3>1, <3>2, <3>5
  <2> QED BY <2>5, <2>6
<1>11. PICK item \in Sample : item = streams[top][at[top]]
  BY <1>9
<1>12. PICK x0 : x0 = <<top, at[top]>>
  OBVIOUS
<1>13. x0 \in Places(streams) /\ x0 \notin P /\ streams[x0[1]][x0[2]] = item
  <2>1. x0 \in Places(streams)
    BY <1>9, <1>12, PlaceIs
  <2>2. x0[1] = top /\ x0[2] = at[top] /\ at[top] \in Nat
    BY <1>9, <1>12
  <2>3. x0 \notin P
    BY <1>3, <2>2 DEF Passed
  <2> QED BY <1>11, <2>1, <2>2, <2>3
<1>14. PICK at2 : at2 = [at EXCEPT ![top] = @ + 1]
  OBVIOUS
<1>15. /\ at2 \in [DOMAIN streams -> Nat \ {0}]
       /\ \A i \in DOMAIN streams : at2[i] = IF i = top THEN at[i] + 1 ELSE at[i]
       /\ top \in DOMAIN streams
  BY <1>9, <1>14
<1>16. \A i \in DOMAIN streams : at2[i] =< Len(streams[i]) + 1
  <2>1. at[top] =< Len(streams[top])
    BY <1>7 DEF MergeHeap
  <2>2. at[top] \in Int /\ Len(streams[top]) \in Int
    BY <1>4, <1>15
  <2>3. at[top] + 1 =< Len(streams[top]) + 1
    BY <2>1, <2>2
  <2> QED BY <1>5, <1>15, <2>3
<1>17. Passed(streams, at2) = P \cup {x0}
  <2>1. ASSUME NEW x \in Places(streams)
        PROVE  x[2] < at2[x[1]] <=> (x \in P \/ x = x0)
    <3>1. x = <<x[1], x[2]>> /\ x[1] \in DOMAIN streams /\ x[2] \in Int /\ at[x[1]] \in Int
      BY <1>4, PlaceIs
    <3>2. x \in P <=> x[2] < at[x[1]]
      BY <1>3 DEF Passed
    <3>3. CASE x[1] = top
      <4>1. at2[x[1]] = at[top] + 1
        BY <1>15, <3>1, <3>3
      <4>2. x = x0 <=> x[2] = at[top]
        BY <1>12, <3>1, <3>3
      <4> QED BY <3>1, <3>2, <3>3, <4>1, <4>2
    <3>4. CASE x[1] # top
      <4>1. at2[x[1]] = at[x[1]] /\ x # x0
        BY <1>12, <1>15, <3>1, <3>4
      <4> QED BY <3>2, <4>1
    <3> QED BY <3>3, <3>4
  <2>2. \A x \in Passed(streams, at2) : x \in P \cup {x0}
    BY <2>1 DEF Passed
  <2>3. \A x \in P \cup {x0} : x \in Passed(streams, at2)
    BY <1>6, <1>13, <2>1 DEF Passed
  <2> QED BY <2>2, <2>3
<1>18. Cardinality(P \cup {x0}) = n + 1
  BY <1>5, <1>6, <1>13, FS_AddElement
<1>19. PICK new : new = Append(out, item)
  OBVIOUS
<1>20. /\ new \in Seq(Sample) /\ DOMAIN out = 1..Len(out) /\ Len(out) \in Nat
       /\ DOMAIN new = 1..(Len(out) + 1) /\ new[Len(out) + 1] = item
       /\ \A i \in 1..Len(out) : new[i] = out[i]
  BY <1>19
<1>21. \A i \in DOMAIN new : (i \in DOMAIN out /\ new[i] = out[i]) \/ (i = Len(out) + 1 /\ new[i] = item)
  BY <1>20
<1>22. /\ \A i \in DOMAIN out : i \in DOMAIN new /\ new[i] = out[i]
       /\ Len(out) + 1 \in DOMAIN new
  BY <1>20
<1>23. \A i \in DOMAIN out : out[i].ts =< item.ts
  BY <1>5, <1>13
<1>24. OrderedInTime(new)
  <2> SUFFICES ASSUME NEW i \in DOMAIN new, NEW j \in DOMAIN new, i < j
               PROVE  new[i].ts =< new[j].ts
    BY DEF OrderedInTime
  <2>1. i \in DOMAIN out /\ new[i] = out[i]
    BY <1>20
  <2>2. CASE j \in DOMAIN out /\ new[j] = out[j]
    BY <1>5, <2>1, <2>2 DEF OrderedInTime
  <2>3. CASE j = Len(out) + 1 /\ new[j] = item
    BY <1>23, <2>1, <2>3
  <2> QED BY <1>21, <2>2, <2>3
<1>25. \A k \in DOMAIN new : \E x \in P \cup {x0} : new[k] = streams[x[1]][x[2]]
  <2> SUFFICES ASSUME NEW k \in DOMAIN new
               PROVE  \E x \in P \cup {x0} : new[k] = streams[x[1]][x[2]]
    OBVIOUS
  <2>1. CASE k \in DOMAIN out /\ new[k] = out[k]
    BY <1>5, <2>1
  <2>2. CASE new[k] = item
    BY <1>13, <2>2
  <2> QED BY <1>21, <2>1, <2>2
<1>26. \A x \in P \cup {x0} : \E k \in DOMAIN new : new[k] = streams[x[1]][x[2]]
  BY <1>5, <1>13, <1>20, <1>22
<1>27. \A x \in Places(streams) \ P : item.ts =< streams[x[1]][x[2]].ts
  <2> SUFFICES ASSUME NEW x \in Places(streams), x \notin P
               PROVE  item.ts =< streams[x[1]][x[2]].ts
    OBVIOUS
  <2>1. PICK i \in DOMAIN streams : i = x[1]
    BY PlaceIs
  <2>2. PICK j \in DOMAIN streams[i] : j = x[2]
    BY <2>1, PlaceIs
  <2>3. ~(j < at[i])
    BY <1>3, <2>1, <2>2 DEF Passed
  <2>4. at[i] =< Len(streams[i])
    BY <1>4, <2>3
  <2>5. i \in heap
    BY <1>7, <2>4 DEF MergeHeap
  <2>6. item.ts =< streams[i][at[i]].ts /\ at[i] \in DOMAIN streams[i]
    BY <1>9, <1>10, <1>11, <2>5
  <2>7. at[i] = j \/ at[i] < j
    BY <1>4, <2>3
  <2>8. streams[i][at[i]].ts =< streams[i][j].ts
    BY <1>9, <2>5, <2>6, <2>7 DEF OrderedInTime
  <2>9. item.ts \in Int /\ streams[i][at[i]].ts \in Int /\ streams[i][j].ts \in Int
    BY <1>9, <1>11, <2>5
  <2>10. item.ts =< streams[i][j].ts
    <3>1. PICK a \in Int : a = item.ts
      BY <2>9
    <3>2. PICK b \in Int : b = streams[i][at[i]].ts
      BY <2>9
    <3>3. PICK c \in Int : c = streams[i][j].ts
      BY <2>9
    <3>4. a =< b /\ b =< c
      BY <2>6, <2>8, <3>1, <3>2, <3>3
    <3> QED BY <3>1, <3>3, <3>4
  <2> QED BY <2>1, <2>2, <2>10
<1>28. \A k \in DOMAIN new : \A x \in Places(streams) \ (P \cup {x0}) :
          new[k].ts =< streams[x[1]][x[2]].ts
  BY <1>5, <1>21, <1>27
<1>29. PICK m2 : m2 = [out |-> new, at |-> at2]
  OBVIOUS
<1>30. m2.out = new /\ m2.at = at2
  BY <1>29
<1>31. MergeInv(streams, n + 1, m2)
  <2>1. /\ m2.out \in Seq(Sample) /\ OrderedInTime(m2.out)
        /\ m2.at \in [DOMAIN streams -> Nat \ {0}]
        /\ \A i \in DOMAIN streams : m2.at[i] =< Len(streams[i]) + 1
    BY <1>15, <1>16, <1>20, <1>24, <1>30
  <2>2. Passed(streams, m2.at) = P \cup {x0}
    BY <1>17, <1>30
  <2>3. Cardinality(Passed(streams, m2.at)) = n + 1
    BY <1>18, <2>2
  <2>4. \A k \in DOMAIN m2.out : \E x \in Passed(streams, m2.at) : m2.out[k] = streams[x[1]][x[2]]
    BY <1>25, <1>30, <2>2
  <2>5. \A x \in Passed(streams, m2.at) : \E k \in DOMAIN m2.out : m2.out[k] = streams[x[1]][x[2]]
    BY <1>26, <1>30, <2>2
  <2>6. \A k \in DOMAIN m2.out : \A x \in Places(streams) \ Passed(streams, m2.at) :
           m2.out[k].ts =< streams[x[1]][x[2]].ts
    BY <1>28, <1>30, <2>2
  <2> QED BY <2>1, <2>3, <2>4, <2>5, <2>6 DEF MergeInv
<1>32. MergeTurn(streams, m) = m2
  BY <1>1, <1>2, <1>10, <1>11, <1>14, <1>19, <1>29 DEF MergeTurn
<1> QED BY <1>31, <1>32

YieldsAll(streams, out) ==
    /\ OrderedInTime(out)
    /\ \A k \in DOMAIN out : \E x \in Places(streams) : out[k] = streams[x[1]][x[2]]
    /\ \A x \in Places(streams) : \E k \in DOMAIN out : out[k] = streams[x[1]][x[2]]

\* The merge yields the items of all streams, those and no others, in order.
LEMMA MergedInOrder ==
    ASSUME NEW streams \in Seq(Seq(Sample)), \A i \in DOMAIN streams : OrderedInTime(streams[i]),
           \A i \in DOMAIN streams : \A j \in DOMAIN streams[i] : streams[i][j].ts \in Int,
           NEW out, out = MergeSortedStreams(streams)
    PROVE  YieldsAll(streams, out)
<1>1. PICK total \in Nat : total = Cardinality(Places(streams)) /\ IsFiniteSet(Places(streams))
  BY PlacesFinite, FS_CardinalityType
<1> DEFINE First == [out |-> <<>>, at |-> [i \in DOMAIN streams |-> 1]]
           Turn(m) == MergeTurn(streams, m)
           Folds(f, k) == f = [n \in 0..k |-> IF n = 0 THEN First ELSE Turn(f[n - 1])]
           merged == CHOOSE f : Folds(f, total)
<1>2. Folds(merged, total)
  <2> DEFINE T == {m \in Nat : ~ \E f : Folds(f, m)}
  <2> SUFFICES ASSUME T # {} PROVE FALSE
    OBVIOUS
  <2> HIDE DEF Turn, First
  <2>1. PICK m \in T : \A y \in T : m =< y
    BY LeastOfNaturals
  <2>2. CASE m = 0
    <3>1. [n \in 0..0 |-> First]
             = [n \in 0..0 |-> IF n = 0 THEN First ELSE Turn([k \in 0..0 |-> First][n - 1])]
      OBVIOUS
    <3>2. Folds([n \in 0..0 |-> First], 0)
      BY <3>1
    <3> QED BY <2>1, <2>2, <3>2
  <2>3. CASE m # 0
    <3>1. m - 1 \in Nat /\ ~(m =< m - 1)
      BY <2>3
    <3>2. PICK f : Folds(f, m - 1)
      BY <2>1, <3>1
    <3> DEFINE g == [n \in 0..m |-> IF n = m THEN Turn(f[m - 1]) ELSE f[n]]
    <3>3. \A n \in 0..m : n # 0 => n - 1 \in 0..(m - 1) /\ g[n - 1] = f[n - 1]
      OBVIOUS
    <3>4. \A n \in 0..m : n # m => n \in 0..(m - 1)
      OBVIOUS
    <3>5. \A n \in 0..(m - 1) : f[n] = IF n = 0 THEN First ELSE Turn(f[n - 1])
      BY <3>2
    <3>6. \A n \in 0..m : g[n] = IF n = 0 THEN First ELSE Turn(g[n - 1])
      BY <2>3, <3>3, <3>4, <3>5
    <3>7. g = [n \in 0..m |-> g[n]]
      OBVIOUS
    <3> HIDE DEF g
    <3>8. Folds(g, m)
      BY <3>6, <3>7
    <3> QED BY <2>1, <3>8
  <2> QED BY <2>2, <2>3
<1>3. MergeSortedStreams(streams) = merged[total].out
  BY <1>1 DEF MergeSortedStreams, MergeTurn, MergeTop, MergeHeap
<1>4. MergeInv(streams, 0, First)
  <2>1. PICK at : at = [i \in DOMAIN streams |-> 1]
    OBVIOUS
  <2>2. PICK none : none = <<>>
    OBVIOUS
  <2>3. First.out = none /\ First.at = at
    BY <2>1, <2>2
  <2>4. none \in Seq(Sample) /\ DOMAIN none = {}
    BY <2>2
  <2>5. at \in [DOMAIN streams -> Nat \ {0}] /\ \A i \in DOMAIN streams : at[i] = 1
    BY <2>1
  <2>6. ASSUME NEW i \in DOMAIN streams
        PROVE  DOMAIN streams[i] = 1..Len(streams[i]) /\ Len(streams[i]) \in Nat
    <3>1. streams[i] \in Seq(Sample)
      OBVIOUS
    <3> QED BY <3>1
  <2>7. Passed(streams, at) = {}
    <3> SUFFICES ASSUME NEW x \in Passed(streams, at) PROVE FALSE
      OBVIOUS
    <3>1. x[1] \in DOMAIN streams /\ x[2] \in DOMAIN streams[x[1]] /\ x[2] < at[x[1]]
      BY PlaceIs DEF Passed
    <3>2. x[2] \in 1..Len(streams[x[1]]) /\ at[x[1]] = 1
      BY <2>5, <2>6, <3>1
    <3> QED BY <3>1, <3>2
  <2>8. Cardinality(Passed(streams, at)) = 0
    BY <2>7, FS_EmptySet
  <2>9. \A i \in DOMAIN streams : at[i] =< Len(streams[i]) + 1
    BY <2>5, <2>6
  <2> HIDE DEF First
  <2> QED BY <2>3, <2>4, <2>5, <2>7, <2>8, <2>9 DEF MergeInv, OrderedInTime
<1>5. \A n \in 0..total : MergeInv(streams, n, merged[n])
  <2> DEFINE T == {n \in 0..total : ~MergeInv(streams, n, merged[n])}
  <2> SUFFICES ASSUME T # {} PROVE FALSE
    OBVIOUS
  <2> HIDE DEF merged, First
  <2>1. PICK n \in T : \A y \in T : n =< y
    <3>1. T \in SUBSET Nat
      OBVIOUS
    <3> QED BY <3>1, LeastOfNaturals
  <2>2. CASE n = 0
    <3>1. merged[0] = First
      BY <1>2
    <3> QED BY <1>4, <2>1, <2>2, <3>1
  <2>3. CASE n # 0
    <3>1. /\ n - 1 \in 0..total /\ n \in 0..total /\ ~(n =< n - 1)
          /\ n - 1 \in Nat /\ n - 1 < total /\ (n - 1) + 1 = n
      BY <2>3
    <3>2. MergeInv(streams, n - 1, merged[n - 1])
      BY <2>1, <3>1
    <3>3. merged[n] = MergeTurn(streams, merged[n - 1])
      BY <1>2, <2>3, <3>1
    <3>4. PICK m : m = merged[n - 1]
      OBVIOUS
    <3>5. PICK k \in Nat : k = n - 1 /\ k + 1 = n /\ k < Cardinality(Places(streams))
      BY <1>1, <3>1
    <3>6. MergeInv(streams, k, m)
      BY <3>2, <3>4, <3>5
    <3>7. MergeInv(streams, k + 1, MergeTurn(streams, m))
      BY <3>5, <3>6, MergeTurnKeeps
    <3>8. MergeInv(streams, n, merged[n])
      BY <3>3, <3>4, <3>5, <3>7
    <3> QED BY <2>1, <3>8
  <2> QED BY <2>2, <2>3
<1> HIDE DEF merged
<1>6. PICK m : m = merged[total] /\ MergeInv(streams, total, m) /\ m.out = out
  BY <1>3, <1>5
<1>7. Passed(streams, m.at) = Places(streams)
  <2>1. Passed(streams, m.at) \subseteq Places(streams)
    BY DEF Passed
  <2>2. Cardinality(Passed(streams, m.at)) = Cardinality(Places(streams))
    BY <1>1, <1>6 DEF MergeInv
  <2> QED BY <1>1, <2>1, <2>2, FS_Subset
<1> QED BY <1>6, <1>7 DEF MergeInv, YieldsAll

\* Wherever writes, registrations and drops have come to, a range query yields
\* its points in order and in range, and every covered one.
THEOREM Ranges_in_order == ReadsSpec => []RangesInOrder
<1>1. ReadsInit => InTime
  <2> SUFFICES ASSUME ReadsInit PROVE InTime
    OBVIOUS
  <2>1. \A l \in Location : content[l] = <<>>
    BY DEF ReadsInit
  <2>2. DOMAIN <<>> = {}
    OBVIOUS
  <2> QED BY <2>1, <2>2 DEF InTime
<1>2. IInv /\ InTime /\ [ReadsNext]_readVars => InTime'
  BY InTimeStep
<1>3. IInv /\ InTime => RangesInOrder
  <2> SUFFICES ASSUME IInv, InTime, NEW start \in Time, NEW end \in Time, start =< end
               PROVE  LET out == RangeQuery(start, end)
                      IN /\ \A i, j \in DOMAIN out : i < j => out[i].ts =< out[j].ts
                         /\ \A i \in DOMAIN out : start =< out[i].ts /\ out[i].ts =< end
                         /\ \A l \in Location : \A i \in DOMAIN content[l] :
                               LET p == content[l][i]
                               IN (start =< p.ts /\ p.ts =< end /\ Covered(l, p)) =>
                                     p \in {out[k] : k \in DOMAIN out}
    BY DEF RangesInOrder
  <2>1. PICK locations \in Seq(Location) : locations = FindLocationsInRange(start, end)
    BY FoundAreLocations, TimeAssumption DEF IInv, TimeAssumption
  <2>2. PICK streams :
           streams = [k \in DOMAIN locations |-> LocationStream(locations[k], start, end)]
    OBVIOUS
  <2>3. PICK out : out = MergeSortedStreams(streams) /\ out = RangeQuery(start, end)
    BY <2>1, <2>2 DEF RangeQuery
  <2>4. DOMAIN streams = DOMAIN locations
    BY <2>2
  <2>5. ASSUME NEW k \in DOMAIN streams
        PROVE  /\ locations[k] \in Location
               /\ streams[k] \in Seq(Sample) /\ OrderedInTime(streams[k])
               /\ \A i \in DOMAIN streams[k] : start =< streams[k][i].ts /\ streams[k][i].ts =< end
               /\ \A i \in DOMAIN content[locations[k]] :
                     start =< content[locations[k]][i].ts /\ content[locations[k]][i].ts =< end =>
                        \E j \in DOMAIN streams[k] : streams[k][j] = content[locations[k]][i]
    <3>1. PICK l \in Location : l = locations[k]
      BY <2>4
    <3>2. PICK stream : stream = streams[k]
      OBVIOUS
    <3>3. stream = LocationStream(l, start, end)
      BY <2>2, <2>4, <3>1, <3>2
    <3>4. start \in Int /\ end \in Int
      BY TimeAssumption DEF TimeAssumption
    <3>5. /\ stream \in Seq(Sample) /\ OrderedInTime(stream)
          /\ \A i \in DOMAIN stream : start =< stream[i].ts /\ stream[i].ts =< end
          /\ \A i \in DOMAIN content[l] :
                start =< content[l][i].ts /\ content[l][i].ts =< end =>
                   \E j \in DOMAIN stream : stream[j] = content[l][i]
      BY <3>3, <3>4, StreamOfLocation
    <3> QED BY <3>1, <3>2, <3>5
  <2>6. streams \in Seq(Seq(Sample))
    <3>1. streams \in [1..Len(locations) -> Seq(Sample)] /\ Len(locations) \in Nat
      BY <2>2, <2>4, <2>5
    <3> QED BY <3>1, SeqDef
  <2>7. \A k \in DOMAIN streams : \A j \in DOMAIN streams[k] : streams[k][j].ts \in Int
    <3> SUFFICES ASSUME NEW k \in DOMAIN streams, NEW j \in DOMAIN streams[k]
                 PROVE  streams[k][j].ts \in Int
      OBVIOUS
    <3>1. streams[k][j] \in Sample
      BY <2>5
    <3> QED BY <3>1, ReadsAssumption, TimeAssumption DEF ReadsAssumption, TimeAssumption
  <2>8. /\ OrderedInTime(out)
        /\ \A k \in DOMAIN out : \E x \in Places(streams) : out[k] = streams[x[1]][x[2]]
        /\ \A x \in Places(streams) : \E k \in DOMAIN out : out[k] = streams[x[1]][x[2]]
    <3>1. \A i \in DOMAIN streams : OrderedInTime(streams[i])
      BY <2>5
    <3>2. out = MergeSortedStreams(streams)
      BY <2>3
    <3>3. YieldsAll(streams, out)
      BY <2>6, <2>7, <3>1, <3>2, MergedInOrder
    <3> QED BY <3>3 DEF YieldsAll
  <2>9. \A i \in DOMAIN out : start =< out[i].ts /\ out[i].ts =< end
    <3> SUFFICES ASSUME NEW i \in DOMAIN out PROVE start =< out[i].ts /\ out[i].ts =< end
      OBVIOUS
    <3>1. PICK x \in Places(streams) : out[i] = streams[x[1]][x[2]]
      BY <2>8
    <3> QED BY <2>5, <3>1, PlaceIs
  <2>10. ASSUME NEW l \in Location, NEW i \in DOMAIN content[l],
                start =< content[l][i].ts, content[l][i].ts =< end, Covered(l, content[l][i])
         PROVE  \E k \in DOMAIN out : out[k] = content[l][i]
    <3>1. PICK b \in listed : b.location = l /\ b.min_ts =< content[l][i].ts /\ content[l][i].ts =< b.max_ts
      BY <2>10 DEF Covered
    <3>2. /\ start \in Int /\ end \in Int /\ content[l][i].ts \in Int
          /\ b.min_ts \in Int /\ b.max_ts \in Int
      BY SampleType, TimeAssumption DEF IInv, TimeAssumption, TimeInv, TimeType, Block
    <3>3. Overlaps(b, start, end)
      BY <2>10, <3>1, <3>2 DEF Overlaps
    <3>4. b.location \in ToSet(FindLocationsInRange(start, end))
      BY <3>2, <3>3, FoundInRange DEF IInv
    <3>5. PICK k \in DOMAIN locations : locations[k] = l
      BY <2>1, <3>1, <3>4 DEF ToSet
    <3>6. PICK j \in DOMAIN streams[k] : streams[k][j] = content[l][i]
      BY <2>4, <2>5, <2>10, <3>5
    <3>7. <<k, j>> \in Places(streams) /\ <<k, j>>[1] = k /\ <<k, j>>[2] = j
      BY <2>4, <3>5, PlaceIs
    <3> QED BY <2>8, <3>6, <3>7
  <2> QED BY <2>3, <2>8, <2>9, <2>10 DEF OrderedInTime
<1> QED BY <1>1, <1>2, <1>3, ReadsInductive, PTL DEF ReadsSpec
=============================================================================
