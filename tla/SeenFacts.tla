------------------------------ MODULE SeenFacts ------------------------------
(***************************************************************************)
(* What every module over a seen cache needs of it: the effect of one      *)
(* insert on the sequence of the keys, and that a cache with room for all  *)
(* keys that circulate forgets none of them.                               *)
(***************************************************************************)
EXTENDS Seen, FiniteSets, SequenceTheorems, FiniteSetTheorems, TLAPS

(***************************************************************************)
(* What one insert does to the sequence: at most one key leaves, at place  *)
(* p, the later ones move up, and the inserted key is appended.            *)
(***************************************************************************)

\* Where the key now at place i was before the one at place p left.
Old(p, i) == IF i < p THEN i ELSE i + 1

\* The number of places once the inserted key is appended; nothing leaves when p
\* is one past the end.
Remaining(L, p) == IF p = L + 1 THEN L + 1 ELSE L

\* `after` is `cache` without its place p, followed by key.
Moved(cache, after, key, p) ==
  /\ Len(after) = Remaining(Len(cache), p)
  /\ after[Len(after)] = key
  /\ \A i \in 1 .. Len(after) - 1 : after[i] = cache[Old(p, i)]

Distinct(cache) == \A i, j \in DOMAIN cache : cache[i] = cache[j] => i = j

\* Removing a place leaves the other keys in order.
LEMMA RemoveAtFacts ==
  ASSUME NEW S, NEW s \in Seq(S), NEW p \in 1 .. Len(s)
  PROVE  /\ RemoveAt(s, p) \in Seq(S)
         /\ Len(RemoveAt(s, p)) = Len(s) - 1
         /\ \A i \in 1 .. Len(s) - 1 : RemoveAt(s, p)[i] = s[Old(p, i)]
<1> DEFINE front == SubSeq(s, 1, p - 1)
           back == SubSeq(s, p + 1, Len(s))
<1>1. Len(s) \in Nat /\ \A i \in 1 .. Len(s) : s[i] \in S
  BY LenProperties, ElementOfSeq
<1>2. /\ front \in Seq(S)
      /\ Len(front) = p - 1
      /\ \A i \in 1 .. p - 1 : front[i] = s[i]
  <2>1. /\ front \in Seq(S)
        /\ Len(front) = IF 1 <= p - 1 THEN (p - 1) - 1 + 1 ELSE 0
        /\ \A i \in 1 .. (p - 1) - 1 + 1 : front[i] = s[1 + i - 1]
    BY <1>1, SubSeqProperties
  <2> QED
    BY <1>1, <2>1
<1>3. /\ back \in Seq(S)
      /\ Len(back) = Len(s) - p
      /\ \A i \in 1 .. Len(s) - p : back[i] = s[p + i]
  <2>1. /\ back \in Seq(S)
        /\ Len(back) = IF p + 1 <= Len(s) THEN Len(s) - (p + 1) + 1 ELSE 0
        /\ \A i \in 1 .. Len(s) - (p + 1) + 1 : back[i] = s[(p + 1) + i - 1]
    BY <1>1, SubSeqProperties
  <2> QED
    BY <1>1, <2>1
<1> DEFINE both == front \o back
<1> HIDE DEF front, back
<1>4. /\ both \in Seq(S)
      /\ Len(both) = Len(front) + Len(back)
      /\ \A i \in 1 .. Len(front) + Len(back) :
           both[i] = IF i <= Len(front) THEN front[i] ELSE back[i - Len(front)]
  BY <1>2, <1>3, ConcatProperties
<1> HIDE DEF both
<1>5. Len(both) = Len(s) - 1
  BY <1>1, <1>2, <1>3, <1>4
<1>6. ASSUME NEW i \in 1 .. Len(s) - 1
      PROVE  both[i] = s[Old(p, i)]
  <2>0. i \in 1 .. Len(front) + Len(back)
    BY <1>1, <1>2, <1>3
  <2>1. CASE i < p
    <3>1. i <= Len(front) /\ i \in 1 .. p - 1
      BY <1>1, <1>2, <2>1
    <3>2. both[i] = front[i]
      BY <1>4, <2>0, <3>1
    <3>3. Old(p, i) = i
      BY <2>1 DEF Old
    <3> QED
      BY <1>2, <3>1, <3>2, <3>3
  <2>2. CASE ~ (i < p)
    <3>1. /\ ~ (i <= Len(front))
          /\ i - Len(front) \in 1 .. Len(s) - p
          /\ p + (i - Len(front)) = i + 1
      BY <1>1, <1>2, <2>2
    <3>2. both[i] = back[i - Len(front)]
      BY <1>4, <2>0, <3>1
    <3>3. Old(p, i) = i + 1
      BY <2>2 DEF Old
    <3>4. back[i - Len(front)] = s[p + (i - Len(front))]
      BY <1>3, <3>1
    <3> QED
      BY <3>1, <3>2, <3>3, <3>4
  <2> QED
    BY <2>1, <2>2
<1>7. RemoveAt(s, p) = both
  BY DEF RemoveAt, both, front, back
<1> QED
  BY <1>4, <1>5, <1>6, <1>7

\* Which key an insert pushes out: the key itself when it is remembered, no key
\* while there is room, and the stalest one when there is none.
LEMMA InsertFacts ==
  ASSUME NEW S, NEW cache \in Seq(S), NEW key \in S, Len(cache) <= SEEN_CAPACITY
  PROVE  /\ Insert(cache, key) \in Seq(S)
         /\ \E p \in 1 .. Len(cache) + 1 :
              /\ Moved(cache, Insert(cache, key), key, p)
              /\ \/ p <= Len(cache) /\ cache[p] = key
                 \/ p = Len(cache) + 1 /\ ~ Contains(cache, key) /\ Len(cache) < SEEN_CAPACITY
                 \/ p = 1 /\ ~ Contains(cache, key) /\ Len(cache) = SEEN_CAPACITY
<1>1. Len(cache) \in Nat /\ DOMAIN cache = 1 .. Len(cache)
  BY LenProperties
<1>2. SEEN_CAPACITY \in Nat \ {0}
  BY CapacityAssumption
<1>3. CASE Contains(cache, key)
  <2> DEFINE p == Position(cache, key)
             rest == RemoveAt(cache, p)
  <2>1. p \in 1 .. Len(cache) /\ cache[p] = key
    BY <1>1, <1>3 DEF Contains, Position
  <2> HIDE DEF p
  <2>2. /\ rest \in Seq(S) /\ Len(rest) = Len(cache) - 1
        /\ \A i \in 1 .. Len(cache) - 1 : rest[i] = cache[Old(p, i)]
    BY <2>1, RemoveAtFacts
  <2> HIDE DEF rest
  <2>3. Insert(cache, key) = Append(rest, key)
    BY <1>3 DEF Insert, Refresh, p, rest
  <2>4. /\ Append(rest, key) \in Seq(S) /\ Len(Append(rest, key)) = Len(cache)
        /\ \A i \in 1 .. Len(cache) - 1 : Append(rest, key)[i] = rest[i]
        /\ Append(rest, key)[Len(cache)] = key
    <3>1. /\ Append(rest, key) \in Seq(S)
          /\ Len(Append(rest, key)) = Len(rest) + 1
          /\ \A i \in 1 .. Len(rest) : Append(rest, key)[i] = rest[i]
          /\ Append(rest, key)[Len(rest) + 1] = key
      BY <2>2, AppendProperties
    <3>2. Len(rest) + 1 = Len(cache)
      BY <1>1, <2>1, <2>2
    <3> QED
      BY <2>2, <3>1, <3>2
  <2>5. Moved(cache, Append(rest, key), key, p)
    <3>1. p # Len(cache) + 1
      BY <1>1, <2>1
    <3> QED
      BY <2>2, <2>4, <3>1 DEF Moved, Remaining
  <2> QED
    BY <1>1, <2>1, <2>3, <2>4, <2>5
<1>4. CASE ~ Contains(cache, key) /\ Len(cache) < SEEN_CAPACITY
  <2>1. Insert(cache, key) = Append(cache, key)
    BY <1>4 DEF Insert, Admit
  <2>2. /\ Append(cache, key) \in Seq(S) /\ Len(Append(cache, key)) = Len(cache) + 1
        /\ \A i \in 1 .. Len(cache) : Append(cache, key)[i] = cache[i]
        /\ Append(cache, key)[Len(cache) + 1] = key
    BY AppendProperties
  <2>3. Moved(cache, Append(cache, key), key, Len(cache) + 1)
    BY <1>1, <2>2 DEF Moved, Old, Remaining
  <2> QED
    BY <1>1, <1>4, <2>1, <2>2, <2>3
<1>5. CASE ~ Contains(cache, key) /\ Len(cache) = SEEN_CAPACITY
  <2>1. Insert(cache, key) = Append(Tail(cache), key)
    BY <1>2, <1>5 DEF Insert, Admit
  <2>2. cache # << >>
    BY <1>2, <1>5, EmptySeq
  <2>3. /\ Tail(cache) \in Seq(S) /\ Len(Tail(cache)) = Len(cache) - 1
        /\ \A i \in 1 .. Len(cache) - 1 : Tail(cache)[i] = cache[i + 1]
    BY <2>2, HeadTailProperties
  <2>4. /\ Append(Tail(cache), key) \in Seq(S)
        /\ Len(Append(Tail(cache), key)) = Len(cache)
        /\ \A i \in 1 .. Len(cache) - 1 : Append(Tail(cache), key)[i] = Tail(cache)[i]
        /\ Append(Tail(cache), key)[Len(cache)] = key
    BY <1>1, <1>2, <1>5, <2>3, AppendProperties
  <2>5. Moved(cache, Append(Tail(cache), key), key, 1)
    BY <1>1, <1>2, <1>5, <2>3, <2>4 DEF Moved, Old, Remaining
  <2> QED
    BY <1>1, <1>2, <1>5, <2>1, <2>4, <2>5
<1>6. Len(cache) < SEEN_CAPACITY \/ Len(cache) = SEEN_CAPACITY
  <2>1. \A m, n \in Nat : m <= n => m < n \/ m = n
    OBVIOUS
  <2> QED
    BY <1>1, <1>2, <2>1
<1> QED
  BY <1>3, <1>4, <1>5, <1>6, Zenon

\* Places keep their order, none is the place that left, and every other place
\* is still there.
LEMMA OldFacts ==
  ASSUME NEW L \in Nat, NEW p \in 1 .. L + 1, NEW n,
         n = Remaining(L, p)
  PROVE  /\ n \in Nat \ {0}
         /\ \A i \in 1 .. n - 1 : Old(p, i) \in 1 .. L /\ Old(p, i) # p
         /\ \A i, j \in 1 .. n - 1 : i < j <=> Old(p, i) < Old(p, j)
         /\ \A m \in 1 .. L : m # p => \E i \in 1 .. n - 1 : Old(p, i) = m
<1>. USE DEF Remaining
<1>1. n \in Nat \ {0}
  OBVIOUS
<1>2. ASSUME NEW i \in 1 .. n - 1 PROVE Old(p, i) \in 1 .. L /\ Old(p, i) # p
  BY DEF Old
<1>3. ASSUME NEW i \in 1 .. n - 1, NEW j \in 1 .. n - 1
      PROVE  i < j <=> Old(p, i) < Old(p, j)
  BY DEF Old
<1>4. ASSUME NEW m \in 1 .. L, m # p PROVE \E i \in 1 .. n - 1 : Old(p, i) = m
  <2>1. CASE m < p
    <3>1. m \in 1 .. n - 1 /\ Old(p, m) = m
      BY <2>1 DEF Old
    <3> QED
      BY <3>1
  <2>2. CASE m > p
    <3>1. m - 1 \in 1 .. n - 1 /\ Old(p, m - 1) = m
      BY <2>2 DEF Old
    <3> QED
      BY <3>1
  <2> QED
    BY <1>4, <2>1, <2>2
<1> QED
  BY <1>1, <1>2, <1>3, <1>4

(***************************************************************************)
(* The keys of a cache.                                                    *)
(***************************************************************************)

LEMMA EmptyCacheFacts ==
  ASSUME NEW S
  PROVE  /\ EmptyCache \in Seq(S) /\ Len(EmptyCache) <= SEEN_CAPACITY
         /\ Distinct(EmptyCache)
<1>1. EmptyCache \in Seq(S) /\ Len(EmptyCache) = 0
  BY EmptySeq DEF EmptyCache
<1>2. DOMAIN EmptyCache = {}
  BY DEF EmptyCache
<1> QED
  BY <1>1, <1>2, CapacityAssumption DEF Distinct

\* A cache never holds more keys than there are.
LEMMA DistinctFits ==
  ASSUME NEW S, IsFiniteSet(S), NEW cache \in Seq(S), Distinct(cache)
  PROVE  Len(cache) <= Cardinality(S)
<1> DEFINE L == Len(cache)
<1>1. /\ L \in Nat /\ cache \in [1 .. L -> S] /\ DOMAIN cache = 1 .. L
  BY LenProperties
<1>2. Cardinality(S) \in Nat
  BY FS_CardinalityType
<1>3. IsFiniteSet(1 .. L) /\ Cardinality(1 .. L) = L
  BY <1>1, FS_Interval
<1> HIDE DEF L
<1>4. CASE Cardinality(S) < L
  <2>1. \E i, j \in 1 .. L : i # j /\ cache[i] = cache[j]
    BY <1>1, <1>3, <1>4, FS_PigeonHole
  <2> QED
    BY <1>1, <2>1 DEF Distinct
<1>5. CASE Cardinality(S) >= L
  BY <1>5 DEF L
<1> QED
  BY <1>1, <1>2, <1>4, <1>5

\* An insert keeps the keys distinct and within the capacity.
LEMMA InsertKeepsCache ==
  ASSUME NEW S, NEW cache \in Seq(S), NEW key \in S, Len(cache) <= SEEN_CAPACITY,
         Distinct(cache)
  PROVE  /\ Insert(cache, key) \in Seq(S)
         /\ Len(Insert(cache, key)) <= SEEN_CAPACITY
         /\ Distinct(Insert(cache, key))
         /\ Contains(Insert(cache, key), key)
         /\ Contains(cache, key) \/ Len(cache) < SEEN_CAPACITY =>
              \A k : Contains(cache, k) => Contains(Insert(cache, key), k)
<1> DEFINE after == Insert(cache, key)
           L == Len(cache)
           n == Len(after)
<1>1. /\ L \in Nat /\ DOMAIN cache = 1 .. L /\ SEEN_CAPACITY \in Nat
  BY LenProperties, CapacityAssumption
<1>2. after \in Seq(S)
  BY InsertFacts
<1>3. PICK p \in 1 .. L + 1 :
        /\ Moved(cache, after, key, p)
        /\ \/ p <= L /\ cache[p] = key
           \/ p = L + 1 /\ ~ Contains(cache, key) /\ L < SEEN_CAPACITY
           \/ p = 1 /\ ~ Contains(cache, key) /\ L = SEEN_CAPACITY
  BY InsertFacts
<1>4. n \in Nat /\ DOMAIN after = 1 .. n
  BY <1>2, LenProperties
<1>5. /\ n = Remaining(L, p) /\ after[n] = key
      /\ \A i \in 1 .. n - 1 : after[i] = cache[Old(p, i)]
  BY <1>3 DEF Moved
<1> HIDE DEF after, L, n
<1>6. /\ n \in Nat \ {0}
      /\ \A i \in 1 .. n - 1 : Old(p, i) \in 1 .. L /\ Old(p, i) # p
      /\ \A i, j \in 1 .. n - 1 : i < j <=> Old(p, i) < Old(p, j)
      /\ \A m \in 1 .. L : m # p => \E i \in 1 .. n - 1 : Old(p, i) = m
  <2>1. L \in Nat /\ p \in 1 .. L + 1 /\ n = Remaining(L, p)
    BY <1>1, <1>5
  <2>2. n \in Nat \ {0}
    BY <2>1, OldFacts
  <2>3. \A i \in 1 .. n - 1 : Old(p, i) \in 1 .. L /\ Old(p, i) # p
    BY <2>1, OldFacts
  <2>4. \A i, j \in 1 .. n - 1 : i < j <=> Old(p, i) < Old(p, j)
    BY <2>1, OldFacts
  <2>5. ASSUME NEW m \in 1 .. L, m # p PROVE \E i \in 1 .. n - 1 : Old(p, i) = m
    <3>1. CASE m < p
      <4>1. m \in 1 .. n - 1 /\ Old(p, m) = m
        BY <2>1, <3>1 DEF Old, Remaining
      <4> QED
        BY <4>1
    <3>2. CASE m > p
      <4>1. m - 1 \in 1 .. n - 1 /\ Old(p, m - 1) = m
        BY <2>1, <3>2 DEF Old, Remaining
      <4> QED
        BY <4>1
    <3> QED
      BY <2>1, <2>5, <3>1, <3>2
  <2> QED
    BY <2>2, <2>3, <2>4, <2>5
<1>7. \A i, j \in 1 .. L : cache[i] = cache[j] => i = j
  BY <1>1 DEF Distinct
<1>8. \A m \in 1 .. L : m # p => cache[m] # key
  BY <1>1, <1>3, <1>7 DEF Contains
<1>9. n <= SEEN_CAPACITY
  <2>1. L <= SEEN_CAPACITY
    BY DEF L
  <2>2. p = L + 1 => L < SEEN_CAPACITY
    <3>1. p = L + 1 => p # 1 \/ L = 0
      BY <1>1
    <3>2. ~ (p = L + 1 /\ p <= L)
      BY <1>1
    <3>3. L = 0 => L # SEEN_CAPACITY
      BY CapacityAssumption
    <3> QED
      BY <1>3, <3>1, <3>2, <3>3, Zenon
  <2>3. n = IF p = L + 1 THEN L + 1 ELSE L
    BY <1>5 DEF Remaining
  <2> QED
    BY <1>1, <2>1, <2>2, <2>3
<1>10. ASSUME NEW i \in 1 .. n, NEW j \in 1 .. n, after[i] = after[j]
       PROVE  i = j
  <2>1. \A m \in 1 .. n - 1 : after[m] # key
    BY <1>5, <1>6, <1>8
  <2>2. CASE i \in 1 .. n - 1 /\ j \in 1 .. n - 1
    <3>1. cache[Old(p, i)] = cache[Old(p, j)]
      BY <1>5, <1>10, <2>2
    <3>2. Old(p, i) = Old(p, j) /\ Old(p, i) \in 1 .. L
      BY <1>6, <1>7, <2>2, <3>1
    <3>3. ~ (i < j) /\ ~ (j < i)
      <4>1. ~ (Old(p, i) < Old(p, j)) /\ ~ (Old(p, j) < Old(p, i))
        BY <3>2
      <4> QED
        BY <1>6, <2>2, <4>1
    <3> QED
      BY <2>2, <3>3
  <2>3. CASE i = n
    BY <1>5, <1>6, <1>10, <2>1, <2>3
  <2>4. CASE j = n
    BY <1>5, <1>6, <1>10, <2>1, <2>4
  <2> QED
    BY <1>6, <2>2, <2>3, <2>4
<1>11. Distinct(after)
  BY <1>4, <1>10 DEF Distinct
<1>12. Contains(after, key)
  <2>1. n \in 1 .. n /\ after[n] = key
    BY <1>5, <1>6
  <2> QED
    BY <1>4, <2>1 DEF Contains, n
<1>13. ASSUME Contains(cache, key) \/ L < SEEN_CAPACITY, NEW k, Contains(cache, k)
       PROVE  Contains(after, k)
  <2>1. PICK m \in 1 .. L : cache[m] = k
    BY <1>1, <1>13 DEF Contains
  <2>2. CASE m = p
    <3>1. cache[p] = key
      BY <1>1, <1>3, <1>13, <2>1, <2>2
    <3> QED
      BY <1>12, <2>1, <2>2, <3>1
  <2>3. CASE m # p
    <3>1. PICK i \in 1 .. n - 1 : Old(p, i) = m
      BY <1>6, <2>3
    <3>2. after[i] = k /\ i \in 1 .. n
      BY <1>5, <1>6, <2>1, <3>1
    <3> QED
      BY <1>4, <3>2 DEF Contains
  <2> QED
    BY <2>2, <2>3
<1> QED
  BY <1>2, <1>9, <1>11, <1>12, <1>13 DEF after, L, n

\* A cache with room for all keys there are forgets none.
LEMMA RoomForAll ==
  ASSUME NEW S, IsFiniteSet(S), Cardinality(S) <= SEEN_CAPACITY,
         NEW cache \in Seq(S), NEW key \in S, Distinct(cache)
  PROVE  /\ Len(cache) <= SEEN_CAPACITY
         /\ Contains(cache, key) \/ Len(cache) < SEEN_CAPACITY
<1>1. /\ Len(cache) \in Nat /\ Cardinality(S) \in Nat /\ SEEN_CAPACITY \in Nat
  BY LenProperties, FS_CardinalityType, CapacityAssumption
<1>2. Len(cache) <= Cardinality(S)
  BY DistinctFits
<1>3. CASE Contains(cache, key)
  BY <1>1, <1>2, <1>3
<1>4. CASE ~ Contains(cache, key)
  <2>1. /\ DOMAIN cache = 1 .. Len(cache) /\ cache \in [1 .. Len(cache) -> S]
    BY LenProperties
  <2>2. \A i \in 1 .. Len(cache) : cache[i] # key
    BY <1>4, <2>1 DEF Contains
  <2>3. cache \in [1 .. Len(cache) -> S \ {key}]
    BY <2>1, <2>2
  <2>4. cache \in Seq(S \ {key})
    BY <1>1, <2>3, SeqDef
  <2>5. /\ IsFiniteSet(S \ {key}) /\ Cardinality(S \ {key}) = Cardinality(S) - 1
    BY FS_RemoveElement
  <2>6. Len(cache) <= Cardinality(S \ {key})
    BY <2>4, <2>5, DistinctFits
  <2> QED
    BY <1>1, <2>5, <2>6
<1> QED
  BY <1>3, <1>4
============================================================================
