---------------------------- MODULE RouterProofs ----------------------------
(***************************************************************************)
(* The routers of a mesh and the cache in each of them.  What a seen cache *)
(* remembers, and that its two backends are one, for every capacity and    *)
(* every set of keys, finite or not.  What flooding makes of it, for every *)
(* topology, cache size and TTL: what a frame's TTL says of its travels    *)
(* (HopBudget), to whom a message is shown (ShownToTheRightUser), and that *)
(* caches that hold every message suppress every duplicate (AtMostOnce).   *)
(***************************************************************************)
EXTENDS Mesh, SeenBackends, SeenFacts, FunctionTheorems

(***************************************************************************)
(* The inductive invariant: the sequence lists the remembered keys in the  *)
(* order of their last hearing, and every key that was heard but is        *)
(* forgotten was heard before all of them.                                 *)
(***************************************************************************)

Ordered ==
  /\ \A i \in 1 .. Len(inner) :
       /\ inner[i] \in heard
       /\ \A j \in i + 1 .. Len(inner) : inner[j] \in since[inner[i]]
       /\ \A k \in since[inner[i]] : \E j \in i + 1 .. Len(inner) : inner[j] = k
  /\ \A k \in heard :
       ~ Contains(inner, k) =>
         /\ Len(inner) = SEEN_CAPACITY
         /\ \A i \in 1 .. Len(inner) : inner[i] \in since[k]
  /\ \A k \in Keys : IsFiniteSet(since[k])

RInv == RTypeOK /\ Ordered

LEMMA InitOrdered == RInit => RInv
<1> SUFFICES ASSUME RInit PROVE RInv
  OBVIOUS
<1>1. inner = << >> /\ heard = {} /\ since = [k \in Keys |-> {}] /\ answer = FALSE
  BY DEF RInit, CacheInit, EmptyCache
<1>2. inner \in Seq(Keys) /\ Len(inner) = 0
  BY <1>1, EmptySeq
<1>3. DOMAIN inner = 1 .. 0
  BY <1>2, LenProperties
<1>4. IsFiniteSet({})
  BY FS_EmptySet
<1>5. RTypeOK
  <2>1. \A i, j \in DOMAIN inner : inner[i] = inner[j] => i = j
    BY <1>3
  <2>2. Len(inner) <= SEEN_CAPACITY
    BY <1>2, CapacityAssumption
  <2>3. answer \in BOOLEAN /\ heard \subseteq Keys /\ since \in [Keys -> SUBSET Keys]
    BY <1>1
  <2> QED
    BY <1>2, <2>1, <2>2, <2>3 DEF RTypeOK, CacheOK
<1>6. Ordered
  BY <1>1, <1>2, <1>4 DEF Ordered
<1> QED
  BY <1>5, <1>6 DEF RInv

LEMMA HearOrdered ==
  ASSUME RInv, NEW key \in Keys, HearKey(key)
  PROVE  RInv'
<1> DEFINE L == Len(inner)
           n == Len(inner')
<1>1. /\ inner \in Seq(Keys) /\ L \in Nat /\ L <= SEEN_CAPACITY
      /\ \A i, j \in 1 .. L : inner[i] = inner[j] => i = j
      /\ heard \subseteq Keys /\ since \in [Keys -> SUBSET Keys]
      /\ \A i \in 1 .. L : inner[i] \in Keys
  BY LenProperties, ElementOfSeq DEF RInv, RTypeOK, CacheOK
<1>2. /\ inner' = Insert(inner, key)
      /\ answer' = NewlySeen(inner, key)
      /\ heard' = heard \cup {key}
      /\ since' = [k \in Keys |-> IF k = key THEN {} ELSE since[k] \cup {key}]
  BY DEF HearKey, Recorded, InsertKey
<1>3. /\ inner' \in Seq(Keys)
      /\ \E p \in 1 .. L + 1 :
           /\ Moved(inner, inner', key, p)
           /\ \/ p <= L /\ inner[p] = key
              \/ p = L + 1 /\ ~ Contains(inner, key) /\ L < SEEN_CAPACITY
              \/ p = 1 /\ ~ Contains(inner, key) /\ L = SEEN_CAPACITY
  BY <1>1, <1>2, InsertFacts
<1>4. PICK p \in 1 .. L + 1 :
        /\ Moved(inner, inner', key, p)
        /\ \/ p <= L /\ inner[p] = key
           \/ p = L + 1 /\ ~ Contains(inner, key) /\ L < SEEN_CAPACITY
           \/ p = 1 /\ ~ Contains(inner, key) /\ L = SEEN_CAPACITY
  BY <1>3
<1>5. /\ n = Remaining(L, p)
      /\ inner'[n] = key
      /\ \A i \in 1 .. n - 1 : inner'[i] = inner[Old(p, i)]
  BY <1>4 DEF Moved
<1>6. /\ n \in Nat \ {0}
      /\ \A i \in 1 .. n - 1 : Old(p, i) \in 1 .. L /\ Old(p, i) # p
      /\ \A i, j \in 1 .. n - 1 : i < j <=> Old(p, i) < Old(p, j)
      /\ \A m \in 1 .. L : m # p => \E i \in 1 .. n - 1 : Old(p, i) = m
  <2>1. L \in Nat /\ p \in 1 .. L + 1 /\ n = Remaining(L, p)
    BY <1>1, <1>5
  <2> HIDE DEF L, n
  <2> QED
    BY <2>1, OldFacts
\* Only the place that left may have held the inserted key.
<1>7. \A m \in 1 .. L : m # p => inner[m] # key
  BY <1>1, <1>4 DEF Contains
<1> HIDE DEF L, n
<1>8. SEEN_CAPACITY \in Nat \ {0}
  BY CapacityAssumption
<1>9. RTypeOK'
  <2>1. n <= SEEN_CAPACITY
    BY <1>1, <1>4, <1>5, <1>8 DEF Remaining
  <2>2. ASSUME NEW i \in 1 .. n, NEW j \in 1 .. n, inner'[i] = inner'[j]
        PROVE  i = j
    <3>1. CASE i < n /\ j < n
      <4>1. i \in 1 .. n - 1 /\ j \in 1 .. n - 1
        BY <1>6, <3>1
      <4>2. inner[Old(p, i)] = inner[Old(p, j)]
        BY <1>5, <2>2, <4>1
      <4>3. Old(p, i) = Old(p, j) /\ Old(p, i) \in Nat
        BY <1>1, <1>6, <4>1, <4>2
      <4>4. ~ (i < j) /\ ~ (j < i)
        BY <1>6, <4>1, <4>3
      <4> QED
        BY <4>1, <4>4
    <3>2. ASSUME NEW m \in 1 .. n - 1 PROVE inner'[m] # key
      BY <1>5, <1>6, <1>7
    <3>3. CASE i = n
      <4>1. ~ (j \in 1 .. n - 1)
        BY <1>5, <2>2, <3>2, <3>3
      <4> QED
        BY <1>6, <3>3, <4>1
    <3>4. CASE j = n
      <4>1. ~ (i \in 1 .. n - 1)
        BY <1>5, <2>2, <3>2, <3>4
      <4> QED
        BY <1>6, <3>4, <4>1
    <3> QED
      BY <1>6, <3>1, <3>3, <3>4
  <2>3. DOMAIN inner' = 1 .. n
    BY <1>3, LenProperties DEF n
  <2>4. answer' \in BOOLEAN
    BY <1>2 DEF NewlySeen, Contains
  <2>5. CacheOK'
    BY <1>3, <2>1, <2>2, <2>3, <2>4 DEF CacheOK, n
  <2>6. heard' \subseteq Keys /\ since' \in [Keys -> SUBSET Keys]
    BY <1>1, <1>2
  <2> QED
    BY <2>5, <2>6 DEF RTypeOK
\* The keys that keep their order.
<1>10. ASSUME NEW i \in 1 .. n
       PROVE  /\ inner'[i] \in heard'
              /\ \A j \in i + 1 .. n : inner'[j] \in since'[inner'[i]]
              /\ \A k \in since'[inner'[i]] : \E j \in i + 1 .. n : inner'[j] = k
  <2>1. CASE i = n
    <3>1. inner'[i] = key /\ since'[key] = {}
      BY <1>2, <1>5, <2>1
    <3> QED
      BY <1>2, <1>6, <2>1, <3>1
  <2>2. CASE i < n
    <3> DEFINE o == Old(p, i)
    <3>1. i \in 1 .. n - 1
      BY <1>6, <2>2
    <3>2. /\ o \in 1 .. L /\ o # p /\ inner'[i] = inner[o]
          /\ inner[o] # key /\ inner[o] \in Keys
      BY <1>1, <1>5, <1>6, <1>7, <3>1
    <3>3. since'[inner'[i]] = since[inner[o]] \cup {key}
      BY <1>2, <3>2
    <3>4. /\ inner[o] \in heard
          /\ \A j \in o + 1 .. L : inner[j] \in since[inner[o]]
          /\ \A k \in since[inner[o]] : \E j \in o + 1 .. L : inner[j] = k
      BY <3>2 DEF RInv, Ordered, L
    <3>5. \A j \in i + 1 .. n - 1 : Old(p, j) \in o + 1 .. L
      <4>1. ASSUME NEW j \in i + 1 .. n - 1 PROVE Old(p, j) \in o + 1 .. L
        <5>1. j \in 1 .. n - 1 /\ i < j
          BY <1>6, <3>1
        <5>2. o < Old(p, j) /\ Old(p, j) \in 1 .. L
          BY <1>6, <3>1, <5>1
        <5> QED
          BY <1>1, <3>2, <5>2
      <4> QED
        BY <4>1
    <3> HIDE DEF o
    <3>6. ASSUME NEW j \in i + 1 .. n PROVE inner'[j] \in since'[inner'[i]]
      <4>1. CASE j = n
        BY <1>5, <3>3, <4>1
      <4>2. CASE j < n
        <5>1. j \in i + 1 .. n - 1 /\ j \in 1 .. n - 1
          BY <1>6, <3>1, <4>2
        <5> QED
          BY <1>5, <3>3, <3>4, <3>5, <5>1
      <4> QED
        BY <1>6, <4>1, <4>2
    <3>7. ASSUME NEW k \in since'[inner'[i]]
          PROVE  \E j \in i + 1 .. n : inner'[j] = k
      <4>0. n \in i + 1 .. n
        BY <1>6, <2>2
      <4>1. CASE k = key
        BY <1>5, <4>0, <4>1
      <4>2. CASE k # key
        <5>1. PICK m \in o + 1 .. L : inner[m] = k
          BY <3>3, <3>4, <4>2
        <5>2. m \in 1 .. L
          BY <1>1, <3>2
        <5>3. m # p
          <6>1. CASE p <= L /\ inner[p] = key
            BY <4>2, <5>1, <6>1
          <6>2. CASE p = L + 1
            BY <1>1, <5>2, <6>2
          <6>3. CASE p = 1
            BY <1>1, <3>2, <6>3
          <6> QED
            BY <1>4, <6>1, <6>2, <6>3
        <5>4. PICK j \in 1 .. n - 1 : Old(p, j) = m
          BY <1>6, <5>2, <5>3
        <5>5. o < Old(p, j)
          BY <1>1, <3>2, <5>1, <5>4
        <5>6. i < j
          BY <1>6, <3>1, <5>4, <5>5 DEF o
        <5>7. j \in i + 1 .. n
          BY <1>6, <5>6
        <5>8. inner'[j] = k
          BY <1>5, <5>1, <5>4
        <5> QED
          BY <5>7, <5>8
      <4> QED
        BY <4>1, <4>2
    <3> QED
      BY <1>2, <3>2, <3>4, <3>6, <3>7
  <2> QED
    BY <1>6, <2>1, <2>2
\* The keys that are forgotten.
<1>11. ASSUME NEW k \in heard', ~ Contains(inner', k)
       PROVE  n = SEEN_CAPACITY /\ \A i \in 1 .. n : inner'[i] \in since'[k]
  <2>1. \A i \in 1 .. n : inner'[i] # k
    BY <1>11 DEF Contains, n
  <2>2. k # key
    BY <1>5, <1>6, <2>1
  <2>3. k \in heard /\ k \in Keys /\ since'[k] = since[k] \cup {key}
    BY <1>1, <1>2, <2>2
  <2>4. /\ p # L + 1 /\ L = SEEN_CAPACITY
        /\ \A m \in 1 .. L : m # p => inner[m] \in since[k]
    <3>1. CASE Contains(inner, k)
      <4>1. PICK q \in 1 .. L : inner[q] = k
        BY <3>1 DEF Contains, L
      <4>2. q = p
        <5>1. ASSUME q # p PROVE FALSE
          <6>1. PICK i \in 1 .. n - 1 : Old(p, i) = q
            BY <1>6, <5>1
          <6>2. inner'[i] = k /\ i \in 1 .. n
            BY <1>5, <1>6, <4>1, <6>1
          <6> QED
            BY <2>1, <6>2
        <5> QED
          BY <5>1
      <4>3. p = 1 /\ L = SEEN_CAPACITY
        BY <1>1, <1>4, <2>2, <4>1, <4>2
      <4>4. \A m \in 1 + 1 .. L : inner[m] \in since[k]
        BY <4>1, <4>2, <4>3 DEF RInv, Ordered, L
      <4>5. \A m \in 1 .. L : m # 1 => m \in 1 + 1 .. L
        BY <1>1
      <4> QED
        BY <1>1, <1>8, <4>3, <4>4, <4>5
    <3>2. CASE ~ Contains(inner, k)
      <4>1. L = SEEN_CAPACITY /\ \A m \in 1 .. L : inner[m] \in since[k]
        BY <2>3, <3>2 DEF RInv, Ordered, L
      <4>2. p # L + 1
        BY <1>1, <1>4, <1>8, <4>1
      <4> QED
        BY <4>1, <4>2
    <3> QED
      BY <3>1, <3>2
  <2>5. n = SEEN_CAPACITY
    BY <1>5, <2>4 DEF Remaining
  <2>6. ASSUME NEW i \in 1 .. n PROVE inner'[i] \in since'[k]
    <3>1. CASE i = n
      BY <1>5, <2>3, <3>1
    <3>2. CASE i < n
      <4>1. i \in 1 .. n - 1
        BY <1>6, <3>2
      <4> QED
        BY <1>5, <1>6, <2>3, <2>4, <4>1
    <3> QED
      BY <1>6, <3>1, <3>2
  <2> QED
    BY <2>5, <2>6
<1>12. ASSUME NEW k \in Keys PROVE IsFiniteSet(since'[k])
  <2>1. IsFiniteSet(since[k]) /\ IsFiniteSet({})
    BY FS_EmptySet DEF RInv, Ordered
  <2>2. IsFiniteSet(since[k] \cup {key})
    BY <2>1, FS_AddElement
  <2> QED
    BY <1>2, <2>1, <2>2
<1>13. Ordered'
  BY <1>10, <1>11, <1>12 DEF Ordered, n
<1> QED
  BY <1>9, <1>13 DEF RInv

(***************************************************************************)
(* The promises.                                                           *)
(***************************************************************************)

\* The set of remembered keys is exactly what fewer than SEEN_CAPACITY other
\* keys have followed.
LEMMA OrderedRemembers == RInv => RemembersMostRecent
<1> SUFFICES ASSUME RInv, NEW key \in Keys
             PROVE  Contains(inner, key) <=>
                      key \in heard /\ Cardinality(since[key]) < SEEN_CAPACITY
  BY DEF RemembersMostRecent
<1> DEFINE L == Len(inner)
<1>1. /\ inner \in Seq(Keys) /\ L \in Nat /\ L <= SEEN_CAPACITY
      /\ \A i, j \in 1 .. L : inner[i] = inner[j] => i = j
  BY LenProperties DEF RInv, RTypeOK, CacheOK
<1>2. IsFiniteSet(since[key]) /\ SEEN_CAPACITY \in Nat \ {0}
  BY CapacityAssumption DEF RInv, Ordered
<1>3. Cardinality(since[key]) \in Nat
  BY <1>2, FS_CardinalityType
<1>4. ASSUME Contains(inner, key)
      PROVE  key \in heard /\ Cardinality(since[key]) < SEEN_CAPACITY
  <2>1. PICK i \in 1 .. L : inner[i] = key
    BY <1>4 DEF Contains
  <2>2. /\ key \in heard
        /\ \A j \in i + 1 .. L : inner[j] \in since[key]
        /\ \A k \in since[key] : \E j \in i + 1 .. L : inner[j] = k
    BY <2>1 DEF RInv, Ordered
  <2> DEFINE later == [j \in i + 1 .. L |-> inner[j]]
  <2>3. later \in Surjection(i + 1 .. L, since[key])
    BY <2>2 DEF Surjection
  <2>4. /\ IsFiniteSet(i + 1 .. L)
        /\ Cardinality(i + 1 .. L) = IF i + 1 > L THEN 0 ELSE L - (i + 1) + 1
    <3>1. i + 1 \in Int /\ L \in Int
      BY <1>1, <2>1
    <3> HIDE DEF L
    <3> QED
      BY <3>1, FS_Interval
  <2>5. Cardinality(since[key]) <= Cardinality(i + 1 .. L)
    <3> HIDE DEF later
    <3> QED
      BY <2>3, <2>4, FS_Surjection
  <2>6. Cardinality(i + 1 .. L) \in Nat /\ Cardinality(i + 1 .. L) < L
    BY <1>1, <2>1, <2>4
  <2> HIDE DEF L
  <2>7. Cardinality(since[key]) < SEEN_CAPACITY
    BY <1>1, <1>2, <1>3, <2>5, <2>6
  <2> QED
    BY <2>2, <2>7
<1>5. ASSUME key \in heard, ~ Contains(inner, key)
      PROVE  ~ (Cardinality(since[key]) < SEEN_CAPACITY)
  <2>1. L = SEEN_CAPACITY /\ \A i \in 1 .. L : inner[i] \in since[key]
    BY <1>5 DEF RInv, Ordered
  <2> DEFINE all == [i \in 1 .. L |-> inner[i]]
  <2>2. all \in Injection(1 .. L, since[key])
    BY <1>1, <2>1 DEF Injection, IsInjective
  <2>3. Cardinality(1 .. L) <= Cardinality(since[key])
    <3> HIDE DEF all
    <3> QED
      BY <1>2, <2>2, FS_Injection
  <2>4. Cardinality(1 .. L) = L
    <3>1. Cardinality(1 .. L) = IF 1 > L THEN 0 ELSE L - 1 + 1
      BY <1>1, FS_Interval
    <3> QED
      BY <1>1, <3>1
  <2> QED
    BY <1>2, <1>3, <2>1, <2>3, <2>4
<1> QED
  BY <1>4, <1>5, Zenon

LEMMA NextOrdered == RInv /\ [RNext]_<<cache_vars, hearings>> => RInv'
<1> SUFFICES ASSUME RInv, [RNext]_<<cache_vars, hearings>> PROVE RInv'
  OBVIOUS
<1>1. ASSUME NEW key \in Keys, HearKey(key) PROVE RInv'
  BY <1>1, HearOrdered
<1>2. CASE UNCHANGED <<cache_vars, hearings>>
  <2>1. inner' = inner /\ answer' = answer /\ heard' = heard /\ since' = since
    BY <1>2 DEF cache_vars, hearings
  <2>2. RTypeOK'
    BY <2>1 DEF RInv, RTypeOK, CacheOK
  <2>3. Ordered'
    BY <2>1 DEF RInv, Ordered, Contains
  <2> QED
    BY <2>2, <2>3 DEF RInv
<1> QED
  BY <1>1, <1>2 DEF RNext

LEMMA AlwaysOrdered == RSpec => []RInv
BY InitOrdered, NextOrdered, PTL DEF RSpec

\* The cache never outgrows its capacity and holds no key twice, however often
\* keys are heard (SeenCache::insert).
THEOREM CacheTypeOK == RSpec => []RTypeOK
<1>1. RInv => RTypeOK
  BY DEF RInv
<1> QED
  BY <1>1, AlwaysOrdered, PTL

\* The cache holds exactly the SEEN_CAPACITY keys heard last (seen.rs:6-16).
THEOREM CacheRemembers == RSpec => []RemembersMostRecent
BY OrderedRemembers, AlwaysOrdered, PTL

\* A key is announced as new only if it was never heard or SEEN_CAPACITY others
\* were heard since: what keeps the router from showing or relaying a message
\* again while its frame is still on air (seen.rs:10-16).
THEOREM CacheAnswers == RSpec => NewOnlyWhenDisplaced
<1>1. ASSUME RInv, NEW key \in Keys, HearKey(key)
      PROVE  answer' <=> \/ key \notin heard
                         \/ Cardinality(since[key]) >= SEEN_CAPACITY
  <2>1. Contains(inner, key) <=>
          key \in heard /\ Cardinality(since[key]) < SEEN_CAPACITY
    BY <1>1, OrderedRemembers DEF RemembersMostRecent
  <2>2. answer' = ~ Contains(inner, key)
    BY <1>1 DEF HearKey, InsertKey, NewlySeen
  <2>3. IsFiniteSet(since[key])
    BY <1>1 DEF RInv, Ordered
  <2>4. Cardinality(since[key]) \in Nat /\ SEEN_CAPACITY \in Nat
    BY <2>3, FS_CardinalityType, CapacityAssumption
  <2>5. Cardinality(since[key]) < SEEN_CAPACITY <=>
          ~ (Cardinality(since[key]) >= SEEN_CAPACITY)
    BY <2>4
  <2> QED
    BY <2>1, <2>2, <2>5, Zenon
<1>2. ASSUME RInv, NEW k \in Keys, HearKey(k), NEW key \in Keys, Recorded(key)
      PROVE  k = key
  <2>1. since'[k] = {}
    BY <1>2 DEF HearKey, Recorded, RInv, RTypeOK
  <2>2. k # key => key \in since'[k]
    BY <1>2 DEF Recorded, RInv, RTypeOK
  <2> QED
    BY <2>1, <2>2
<1> DEFINE Answers == \A key \in Keys :
      Recorded(key) => (answer' <=> \/ key \notin heard
                                    \/ Cardinality(since[key]) >= SEEN_CAPACITY)
<1>3. RInv /\ RNext => Answers
  BY <1>1, <1>2 DEF RNext
<1>4. RInv /\ [RNext]_<<cache_vars, hearings>> => [Answers]_<<cache_vars, hearings>>
  BY <1>3
<1> QED
  BY <1>4, AlwaysOrdered, PTL DEF NewOnlyWhenDisplaced, RSpec

----------------------------------------------------------------------------
(***************************************************************************)
(* The two backends.  Places of the ring first: Phys and Logical are       *)
(* inverse to each other, and the next place is the next slot.             *)
(***************************************************************************)

LEMMA PlaceFacts ==
  ASSUME head \in Ring!Slots
  PROVE  /\ \A k \in Ring!Slots :
              /\ Ring!Phys(k) \in Ring!Slots
              /\ Ring!Logical(Ring!Phys(k)) = k
         /\ \A p \in Ring!Slots :
              /\ Ring!Logical(p) \in Ring!Slots
              /\ Ring!Phys(Ring!Logical(p)) = p
         /\ \A k \in Ring!Slots : k + 1 \in Ring!Slots =>
              (Ring!Phys(k) + 1) % SEEN_CAPACITY = Ring!Phys(k + 1)
         /\ Ring!Phys(0) = head
         /\ head = 0 => \A k \in Ring!Slots : Ring!Phys(k) = k
<1> DEFINE N == SEEN_CAPACITY
<1>1. N \in Nat \ {0} /\ head \in 0 .. N - 1 /\ Ring!Slots = 0 .. N - 1
  BY CapacityAssumption DEF Ring!Slots
<1>2. /\ \A k : Ring!Phys(k) = (head + k) % N
      /\ \A p : Ring!Logical(p) = (p + N - head) % N
  BY DEF Ring!Phys, Ring!Logical
<1> HIDE DEF N
<1>4. ASSUME NEW k \in 0 .. N - 1
      PROVE  /\ (head + k) % N = IF head + k < N THEN head + k ELSE head + k - N
             /\ (head + k) % N \in 0 .. N - 1
             /\ (k + N - head) % N = IF k < head THEN k + N - head ELSE k - head
             /\ (k + N - head) % N \in 0 .. N - 1
  <2>1. /\ head + k \in Nat /\ head + k < 2 * N
        /\ k + N - head \in Nat /\ k + N - head < 2 * N
    BY <1>1
  <2>2. /\ (head + k) % N \in 0 .. N - 1
        /\ head + k < N => (head + k) % N = head + k
        /\ head + k >= N => (head + k) % N = head + k - N
    BY <1>1, <2>1
  <2>3. /\ (k + N - head) % N \in 0 .. N - 1
        /\ k + N - head < N => (k + N - head) % N = k + N - head
        /\ k + N - head >= N => (k + N - head) % N = k + N - head - N
    BY <1>1, <2>1
  <2> QED
    BY <1>1, <2>2, <2>3
<1>5. ASSUME NEW k \in 0 .. N - 1, k + 1 \in 0 .. N - 1
      PROVE  (Ring!Phys(k) + 1) % N = Ring!Phys(k + 1)
  <2>1. /\ Ring!Phys(k) = IF head + k < N THEN head + k ELSE head + k - N
        /\ Ring!Phys(k + 1) = IF head + (k + 1) < N THEN head + (k + 1) ELSE head + (k + 1) - N
    BY <1>2, <1>4, <1>5
  <2>2. /\ Ring!Phys(k) + 1 \in Nat /\ Ring!Phys(k) + 1 < 2 * N
        /\ Ring!Phys(k) \in 0 .. N - 1
    BY <1>1, <1>2, <1>4
  <2>3. (Ring!Phys(k) + 1) % N = IF Ring!Phys(k) + 1 < N THEN Ring!Phys(k) + 1
                                 ELSE Ring!Phys(k) + 1 - N
    BY <1>1, <2>2
  <2> QED
    BY <1>1, <2>1, <2>2, <2>3
<1>6. ASSUME NEW k \in 0 .. N - 1
      PROVE  Ring!Logical(Ring!Phys(k)) = k /\ Ring!Phys(Ring!Logical(k)) = k
  <2>1. /\ Ring!Phys(k) = IF head + k < N THEN head + k ELSE head + k - N
        /\ Ring!Phys(k) \in 0 .. N - 1
        /\ Ring!Logical(k) = IF k < head THEN k + N - head ELSE k - head
        /\ Ring!Logical(k) \in 0 .. N - 1
    BY <1>2, <1>4
  <2>2. Ring!Logical(Ring!Phys(k)) =
          IF Ring!Phys(k) < head THEN Ring!Phys(k) + N - head ELSE Ring!Phys(k) - head
    BY <1>2, <1>4, <2>1
  <2>3. Ring!Phys(Ring!Logical(k)) =
          IF head + Ring!Logical(k) < N THEN head + Ring!Logical(k)
          ELSE head + Ring!Logical(k) - N
    BY <1>2, <1>4, <2>1
  <2> QED
    BY <1>1, <2>1, <2>2, <2>3
<1>7. Ring!Phys(0) = head /\ (head = 0 => \A k \in 0 .. N - 1 : Ring!Phys(k) = k)
  BY <1>1, <1>2, <1>4
<1> QED
  BY <1>1, <1>2, <1>4, <1>5, <1>6, <1>7 DEF N

(***************************************************************************)
(* The inductive invariant: the keys of the ring, in logical order, are    *)
(* those of the linked hash set.                                           *)
(***************************************************************************)

SameKeys ==
  /\ len = Len(inner)
  /\ \A k \in 0 .. len - 1 : slots[Ring!Phys(k)] = inner[k + 1]

BackendsInv ==
  /\ RInv
  /\ Ring!TypeOK
  /\ SameKeys
  /\ answer = ring_answer

\* What the invariant says of the two key sequences.
LEMMA SameKeysFacts ==
  ASSUME BackendsInv
  PROVE  /\ inner \in Seq(Keys) /\ len \in Nat /\ len = Len(inner)
         /\ len <= SEEN_CAPACITY /\ SEEN_CAPACITY \in Nat \ {0}
         /\ head \in Ring!Slots /\ Ring!Slots = 0 .. SEEN_CAPACITY - 1
         /\ \A i, j \in 1 .. len : inner[i] = inner[j] => i = j
         /\ \A i \in 1 .. len : inner[i] \in Keys
         /\ \A k \in 0 .. len - 1 : k \in Ring!Slots /\ slots[Ring!Phys(k)] = inner[k + 1]
<1>1. inner \in Seq(Keys) /\ Len(inner) \in Nat /\ DOMAIN inner = 1 .. Len(inner)
  BY LenProperties DEF BackendsInv, RInv, RTypeOK, CacheOK
<1>2. \A i \in 1 .. Len(inner) : inner[i] \in Keys
  BY <1>1, ElementOfSeq
<1>3. /\ len = Len(inner)
      /\ \A k \in 0 .. len - 1 : slots[Ring!Phys(k)] = inner[k + 1]
  BY DEF BackendsInv, SameKeys
<1>4. \A i, j \in 1 .. Len(inner) : inner[i] = inner[j] => i = j
  BY <1>1 DEF BackendsInv, RInv, RTypeOK, CacheOK
<1>5. SEEN_CAPACITY \in Nat \ {0} /\ len \in 0 .. SEEN_CAPACITY
      /\ head \in Ring!Slots /\ Ring!Slots = 0 .. SEEN_CAPACITY - 1
  BY CapacityAssumption DEF BackendsInv, Ring!TypeOK, Ring!Slots
<1>6. \A k \in 0 .. len - 1 : k \in Ring!Slots
  BY <1>5
<1> QED
  BY <1>1, <1>2, <1>3, <1>4, <1>5, <1>6

\* The search of `insert` finds a key exactly when the cache remembers it, and
\* at the place where the cache has it.
LEMMA FoundFacts ==
  ASSUME BackendsInv, NEW key \in Keys
  PROVE  /\ Ring!Found(key) = {k \in 0 .. len - 1 : inner[k + 1] = key}
         /\ Ring!Found(key) # {} <=> Contains(inner, key)
<1>1. /\ len \in Nat /\ len = Len(inner)
      /\ \A i, j \in 1 .. len : inner[i] = inner[j] => i = j
      /\ \A k \in 0 .. len - 1 : slots[Ring!Phys(k)] = inner[k + 1]
  BY SameKeysFacts
<1>2. ASSUME NEW k \in 0 .. len - 1, inner[k + 1] = key, NEW j \in 0 .. k - 1
      PROVE  slots[Ring!Phys(j)] # key
  <2>1. j \in 0 .. len - 1 /\ j + 1 \in 1 .. len /\ k + 1 \in 1 .. len /\ j + 1 # k + 1
    BY <1>1, <1>2
  <2>2. inner[j + 1] # key
    BY <1>1, <1>2, <2>1
  <2> QED
    BY <1>1, <2>1, <2>2
<1>3. Ring!Found(key) = {k \in 0 .. len - 1 : inner[k + 1] = key}
  BY <1>1, <1>2 DEF Ring!Found
<1>4. ASSUME NEW k \in Ring!Found(key) PROVE Contains(inner, key)
  <2>1. k + 1 \in 1 .. Len(inner) /\ inner[k + 1] = key
    BY <1>1, <1>3
  <2> QED
    BY <2>1 DEF Contains
<1>5. ASSUME Contains(inner, key) PROVE Ring!Found(key) # {}
  <2>1. PICK i \in 1 .. Len(inner) : inner[i] = key
    BY <1>5 DEF Contains
  <2>2. i - 1 \in 0 .. len - 1 /\ (i - 1) + 1 = i
    BY <1>1, <2>1
  <2>3. i - 1 \in Ring!Found(key)
    BY <1>3, <2>1, <2>2
  <2> QED
    BY <2>3
<1> QED
  BY <1>3, <1>4, <1>5

LEMMA InitBackends == BInit => BackendsInv
<1> SUFFICES ASSUME BInit PROVE BackendsInv
  OBVIOUS
<1>1. RInv
  BY InitOrdered DEF BInit
<1>2. /\ inner = << >> /\ answer = FALSE /\ ring_answer = FALSE
      /\ len = 0 /\ head = 0 /\ slots = [p \in Ring!Slots |-> ZeroKey]
  BY DEF BInit, RInit, CacheInit, EmptyCache, Ring!Init
<1>3. SEEN_CAPACITY \in Nat \ {0} /\ ZeroKey \in Keys
  BY CapacityAssumption, ZeroKeyAssumption
<1>4. Ring!TypeOK
  BY <1>2, <1>3 DEF Ring!TypeOK, Ring!Slots
<1>5. Len(inner) = 0
  BY <1>2, EmptySeq
<1>6. SameKeys
  BY <1>2, <1>5 DEF SameKeys
<1> QED
  BY <1>1, <1>2, <1>4, <1>6 DEF BackendsInv

\* A key that is remembered: the newer keys move one logical place down.
LEMMA RefreshAgrees ==
  ASSUME BackendsInv, NEW key \in Keys, InsertKey(key), Ring!Refresh(key)
  PROVE  Ring!TypeOK' /\ SameKeys' /\ answer' = ring_answer'
<1> DEFINE N == SEEN_CAPACITY
<1>1. /\ inner \in Seq(Keys) /\ len \in Nat /\ len = Len(inner) /\ len <= N /\ N \in Nat \ {0}
      /\ head \in Ring!Slots /\ Ring!Slots = 0 .. N - 1
      /\ \A i, j \in 1 .. len : inner[i] = inner[j] => i = j
      /\ \A i \in 1 .. len : inner[i] \in Keys
      /\ \A k \in 0 .. len - 1 : k \in Ring!Slots /\ slots[Ring!Phys(k)] = inner[k + 1]
  BY SameKeysFacts
<1>2. PICK found \in Ring!Found(key) :
        slots' = [p \in Ring!Slots |->
                   CASE Ring!Logical(p) = len - 1 -> key
                     [] Ring!Logical(p) \in found .. len - 2 -> slots[(p + 1) % N]
                     [] OTHER -> slots[p]]
  BY DEF Ring!Refresh
<1>3. ring_answer' = FALSE /\ len' = len /\ head' = head
  BY DEF Ring!Refresh
<1>4. found \in 0 .. len - 1 /\ inner[found + 1] = key
  BY FoundFacts
<1>5. Contains(inner, key)
  BY <1>2, FoundFacts
<1>6. \E q \in 1 .. len + 1 : /\ Moved(inner, inner', key, q)
                              /\ q <= len /\ inner[q] = key
  <2>1. \E q \in 1 .. Len(inner) + 1 :
           /\ Moved(inner, Insert(inner, key), key, q)
           /\ \/ q <= Len(inner) /\ inner[q] = key
              \/ q = Len(inner) + 1 /\ ~ Contains(inner, key) /\ Len(inner) < SEEN_CAPACITY
              \/ q = 1 /\ ~ Contains(inner, key) /\ Len(inner) = SEEN_CAPACITY
    BY <1>1, InsertFacts
  <2> QED
    BY <1>1, <1>5, <2>1 DEF InsertKey
<1>7. Moved(inner, inner', key, found + 1)
  BY <1>1, <1>4, <1>6
<1>8. /\ Len(inner') = len
      /\ inner'[len] = key
      /\ \A i \in 1 .. len - 1 : inner'[i] = inner[IF i < found + 1 THEN i ELSE i + 1]
  BY <1>1, <1>4, <1>7 DEF Moved, Remaining, Old
<1>9. /\ \A k \in Ring!Slots : Ring!Phys(k) \in Ring!Slots /\ Ring!Logical(Ring!Phys(k)) = k
      /\ \A k \in Ring!Slots : k + 1 \in Ring!Slots =>
              (Ring!Phys(k) + 1) % N = Ring!Phys(k + 1)
      /\ \A p \in Ring!Slots : Ring!Logical(p) \in Ring!Slots /\ Ring!Phys(Ring!Logical(p)) = p
  BY <1>1, PlaceFacts
<1> HIDE DEF N
<1>10. ASSUME NEW k \in 0 .. len - 1
       PROVE  slots'[Ring!Phys(k)] = inner'[k + 1]
  <2> DEFINE p == Ring!Phys(k)
  <2>1. k \in Ring!Slots /\ p \in Ring!Slots /\ Ring!Logical(p) = k /\ slots[p] = inner[k + 1]
    BY <1>1, <1>9
  <2>2. slots'[p] = CASE k = len - 1 -> key
                      [] k \in found .. len - 2 -> slots[(p + 1) % N]
                      [] OTHER -> slots[p]
    BY <1>2, <2>1
  <2> HIDE DEF p
  <2>3. CASE k = len - 1
    <3>1. slots'[p] = key
      BY <1>1, <1>4, <2>2, <2>3
    <3>2. k + 1 = len
      BY <1>1, <2>3
    <3> QED
      BY <1>8, <3>1, <3>2 DEF p
  <2>4. CASE k \in found .. len - 2
    <3>0. k # len - 1 /\ k + 1 \in 0 .. len - 1
      BY <1>1, <1>4, <2>4
    <3>1. slots'[p] = slots[(p + 1) % N]
      BY <2>2, <2>4, <3>0
    <3>2. (p + 1) % N = Ring!Phys(k + 1)
      BY <1>1, <1>9, <2>1, <3>0 DEF p
    <3>3. slots[Ring!Phys(k + 1)] = inner[(k + 1) + 1]
      BY <1>1, <3>0
    <3>4. inner'[k + 1] = inner[(k + 1) + 1]
      BY <1>1, <1>4, <1>8, <2>4
    <3> QED
      BY <3>1, <3>2, <3>3, <3>4 DEF p
  <2>5. CASE k < found
    <3>0. k # len - 1 /\ ~ (k \in found .. len - 2) /\ k + 1 \in 1 .. len - 1 /\ k + 1 < found + 1
      BY <1>1, <1>4, <2>5
    <3>1. slots'[p] = slots[p]
      BY <2>2, <3>0
    <3>2. inner'[k + 1] = inner[k + 1]
      BY <1>8, <3>0
    <3> QED
      BY <2>1, <3>1, <3>2 DEF p
  <2> QED
    BY <1>1, <1>4, <2>3, <2>4, <2>5
<1>11. SameKeys'
  <2>1. \A k : Ring!Phys(k)' = Ring!Phys(k)
    BY <1>3 DEF Ring!Phys
  <2> QED
    BY <1>1, <1>3, <1>8, <1>10, <2>1 DEF SameKeys
<1>12. slots' \in [Ring!Slots -> Keys]
  <2>1. ASSUME NEW p \in Ring!Slots
        PROVE  (CASE Ring!Logical(p) = len - 1 -> key
                  [] Ring!Logical(p) \in found .. len - 2 -> slots[(p + 1) % N]
                  [] OTHER -> slots[p]) \in Keys
    <3>1. slots \in [Ring!Slots -> Keys]
      BY DEF BackendsInv, Ring!TypeOK
    <3>2. (p + 1) % N \in Ring!Slots
      BY <1>1
    <3> QED
      BY <3>1, <3>2
  <2> QED
    BY <1>2, <2>1
<1>13. Ring!TypeOK'
  <2>1. /\ len \in 0 .. SEEN_CAPACITY /\ head \in Ring!Slots
        /\ len < SEEN_CAPACITY => head = 0
    BY DEF BackendsInv, Ring!TypeOK
  <2> QED
    BY <1>3, <1>12, <2>1 DEF Ring!TypeOK, Ring!Slots
<1>14. answer' = ring_answer'
  BY <1>3, <1>5 DEF InsertKey, NewlySeen
<1> QED
  BY <1>11, <1>13, <1>14

\* A new key while there is room: head is 0, so the place after the last filled
\* slot is the newest logical one.
LEMMA FillAgrees ==
  ASSUME BackendsInv, NEW key \in Keys, InsertKey(key), Ring!Fill(key)
  PROVE  Ring!TypeOK' /\ SameKeys' /\ answer' = ring_answer'
<1> DEFINE N == SEEN_CAPACITY
<1>1. /\ inner \in Seq(Keys) /\ len \in Nat /\ len = Len(inner) /\ len <= N /\ N \in Nat \ {0}
      /\ head \in Ring!Slots /\ Ring!Slots = 0 .. N - 1
      /\ \A k \in 0 .. len - 1 : k \in Ring!Slots /\ slots[Ring!Phys(k)] = inner[k + 1]
  BY SameKeysFacts
<1>2. /\ slots' = [slots EXCEPT ![len] = key]
      /\ len' = len + 1 /\ head' = head /\ ring_answer' = TRUE
      /\ len < N /\ ~ Contains(inner, key)
  BY FoundFacts DEF Ring!Fill
<1>3. /\ slots \in [Ring!Slots -> Keys] /\ head = 0
  BY <1>2 DEF BackendsInv, Ring!TypeOK
<1>4. inner' = Append(inner, key)
  BY <1>1, <1>2 DEF InsertKey, Insert, Admit
<1>5. /\ Len(inner') = len + 1 /\ inner'[len + 1] = key
      /\ \A i \in 1 .. len : inner'[i] = inner[i]
  BY <1>1, <1>4, AppendProperties
<1>6. \A k \in Ring!Slots : Ring!Phys(k) = k /\ Ring!Phys(k)' = k
  BY <1>1, <1>2, <1>3, PlaceFacts DEF Ring!Phys
<1> HIDE DEF N
<1>7. ASSUME NEW k \in 0 .. len PROVE slots'[k] = inner'[k + 1] /\ k \in Ring!Slots
  <2>1. k \in Ring!Slots
    BY <1>1, <1>2
  <2>2. CASE k = len
    BY <1>2, <1>3, <1>5, <2>1, <2>2
  <2>3. CASE k # len
    <3>1. k \in 0 .. len - 1 /\ k + 1 \in 1 .. len
      BY <1>1, <2>3
    <3>2. slots'[k] = slots[k] /\ slots[k] = inner[k + 1]
      BY <1>1, <1>2, <1>3, <1>6, <2>1, <2>3, <3>1
    <3> QED
      BY <1>5, <2>1, <3>1, <3>2
  <2> QED
    BY <2>2, <2>3
<1>8. SameKeys'
  <2>1. len' = Len(inner') /\ 0 .. len' - 1 = 0 .. len
    BY <1>1, <1>2, <1>5
  <2>2. \A k \in 0 .. len : slots'[Ring!Phys(k)'] = inner'[k + 1]
    BY <1>6, <1>7
  <2> QED
    BY <2>1, <2>2 DEF SameKeys
<1>9. Ring!TypeOK'
  BY <1>1, <1>2, <1>3 DEF Ring!TypeOK, Ring!Slots, N
<1>10. answer' = ring_answer'
  BY <1>2 DEF InsertKey, NewlySeen
<1> QED
  BY <1>8, <1>9, <1>10

\* A new key in a full ring: the head moves past the place it is written at,
\* which thereby becomes the newest one.
LEMMA OverwriteAgrees ==
  ASSUME BackendsInv, NEW key \in Keys, InsertKey(key), Ring!Overwrite(key)
  PROVE  Ring!TypeOK' /\ SameKeys' /\ answer' = ring_answer'
<1> DEFINE N == SEEN_CAPACITY
<1>1. /\ inner \in Seq(Keys) /\ len \in Nat /\ len = Len(inner) /\ len <= N /\ N \in Nat \ {0}
      /\ head \in Ring!Slots /\ Ring!Slots = 0 .. N - 1
      /\ \A k \in 0 .. len - 1 : k \in Ring!Slots /\ slots[Ring!Phys(k)] = inner[k + 1]
  BY SameKeysFacts
<1>2. /\ slots' = [slots EXCEPT ![head] = key]
      /\ len' = len /\ head' = (head + 1) % N /\ ring_answer' = TRUE
      /\ len = N /\ ~ Contains(inner, key)
  BY FoundFacts DEF Ring!Overwrite
<1>3. slots \in [Ring!Slots -> Keys]
  BY DEF BackendsInv, Ring!TypeOK
<1>4. inner' = Append(Tail(inner), key)
  BY <1>1, <1>2 DEF InsertKey, Insert, Admit
<1>5. /\ Len(inner') = len /\ inner'[len] = key
      /\ \A i \in 1 .. len - 1 : inner'[i] = inner[i + 1]
  <2>1. /\ Tail(inner) \in Seq(Keys) /\ Len(Tail(inner)) = len - 1
        /\ \A i \in 1 .. len - 1 : Tail(inner)[i] = inner[i + 1]
    BY <1>1, <1>2, EmptySeq, HeadTailProperties
  <2>2. /\ Len(inner') = Len(Tail(inner)) + 1
        /\ inner'[Len(Tail(inner)) + 1] = key
        /\ \A i \in 1 .. Len(Tail(inner)) : inner'[i] = Tail(inner)[i]
    BY <1>4, <2>1, AppendProperties
  <2> QED
    BY <1>1, <2>1, <2>2
<1>6. /\ head' \in Ring!Slots
      /\ \A k \in Ring!Slots : Ring!Phys(k) \in Ring!Slots /\ Ring!Logical(Ring!Phys(k)) = k
      /\ Ring!Phys(0) = head
  BY <1>1, <1>2, PlaceFacts
<1>7. /\ \A k \in 0 .. N - 2 : Ring!Phys(k)' = Ring!Phys(k + 1)
      /\ Ring!Phys(N - 1)' = head
  <2>1. \A k : Ring!Phys(k)' = (head' + k) % N /\ Ring!Phys(k + 1) = (head + (k + 1)) % N
    BY DEF Ring!Phys
  <2> HIDE DEF N
  <2>2. head \in 0 .. N - 1 /\ N \in Nat \ {0} /\ head' = IF head = N - 1 THEN 0 ELSE head + 1
    <3>1. CASE head = N - 1
      <4>1. head + 1 = N
        BY <1>1, <3>1
      <4>2. N % N = 0
        BY <1>1
      <4> QED
        BY <1>1, <1>2, <3>1, <4>1, <4>2
    <3>2. CASE head # N - 1
      <4>1. head + 1 \in 0 .. N - 1 /\ N \in Nat \ {0}
        BY <1>1, <3>2
      <4>2. (head + 1) % N = head + 1
        BY <4>1
      <4> QED
        BY <1>1, <1>2, <3>2, <4>2
    <3> QED
      BY <3>1, <3>2
  <2>3. ASSUME NEW k \in 0 .. N - 2
        PROVE  (head' + k) % N = (head + (k + 1)) % N
    <3>1. CASE head = N - 1
      <4>1. (head' + k) % N = k
        BY <2>2, <3>1
      <4>2. (head + (k + 1)) % N = k
        <5>1. head + (k + 1) = N + k /\ k < N
          BY <2>2, <3>1
        <5> QED
          BY <2>2, <5>1
      <4> QED
        BY <4>1, <4>2
    <3>2. CASE head # N - 1
      <4>1. head' + k = head + (k + 1)
        BY <2>2, <3>2
      <4> QED
        BY <4>1
    <3> QED
      BY <3>1, <3>2
  <2>4. (head' + (N - 1)) % N = head
    <3>1. CASE head = N - 1
      <4>1. head' + (N - 1) = N - 1
        BY <2>2, <3>1
      <4> QED
        BY <2>2, <3>1, <4>1
    <3>2. CASE head # N - 1
      <4>1. head' + (N - 1) = head + N /\ head < N
        BY <2>2, <3>2
      <4> QED
        BY <2>2, <4>1
    <3> QED
      BY <3>1, <3>2
  <2> QED
    BY <2>1, <2>3, <2>4
<1> HIDE DEF N
<1>8. ASSUME NEW k \in 0 .. len - 1
      PROVE  slots'[Ring!Phys(k)'] = inner'[k + 1]
  <2>1. CASE k = len - 1
    <3>1. Ring!Phys(k)' = head /\ k + 1 = len
      BY <1>1, <1>2, <1>7, <2>1
    <3> QED
      BY <1>1, <1>2, <1>3, <1>5, <3>1
  <2>2. CASE k # len - 1
    <3>1. /\ k \in 0 .. N - 2 /\ k + 1 \in 0 .. len - 1 /\ k + 1 \in 1 .. len - 1
          /\ k + 1 # 0 /\ 0 \in Ring!Slots
      BY <1>1, <1>2, <2>2
    <3>2. Ring!Phys(k)' = Ring!Phys(k + 1) /\ k + 1 \in Ring!Slots
      BY <1>1, <1>7, <3>1
    <3>3. Ring!Phys(k + 1) # head /\ Ring!Phys(k + 1) \in Ring!Slots
      BY <1>6, <3>1, <3>2
    <3>4. slots'[Ring!Phys(k + 1)] = slots[Ring!Phys(k + 1)]
      BY <1>2, <1>3, <3>3
    <3>5. slots[Ring!Phys(k + 1)] = inner[(k + 1) + 1]
      BY <1>1, <3>1
    <3>6. inner'[k + 1] = inner[(k + 1) + 1]
      BY <1>5, <3>1
    <3> QED
      BY <3>2, <3>4, <3>5, <3>6
  <2> QED
    BY <2>1, <2>2
<1>9. SameKeys'
  BY <1>1, <1>2, <1>5, <1>8 DEF SameKeys
<1>10. Ring!TypeOK'
  BY <1>1, <1>2, <1>3, <1>6 DEF Ring!TypeOK, Ring!Slots, N
<1>11. answer' = ring_answer'
  BY <1>2 DEF InsertKey, NewlySeen
<1> QED
  BY <1>9, <1>10, <1>11

LEMMA NextBackends == BackendsInv /\ [BNext]_bvars => BackendsInv'
<1> SUFFICES ASSUME BackendsInv, [BNext]_bvars PROVE BackendsInv'
  OBVIOUS
<1>1. ASSUME NEW key \in Keys, HearKey(key),
             Ring!Refresh(key) \/ Ring!Fill(key) \/ Ring!Overwrite(key)
      PROVE  BackendsInv'
  <2>1. RInv'
    BY <1>1, HearOrdered DEF BackendsInv
  <2>2. Ring!TypeOK' /\ SameKeys' /\ answer' = ring_answer'
    BY <1>1, RefreshAgrees, FillAgrees, OverwriteAgrees DEF HearKey
  <2> QED
    BY <2>1, <2>2 DEF BackendsInv
<1>2. CASE UNCHANGED bvars
  <2>1. UNCHANGED <<cache_vars, hearings>> /\ UNCHANGED <<slots, len, head, ring_answer>>
    BY <1>2 DEF bvars, Ring!vars
  <2>2. RInv'
    BY <2>1, NextOrdered DEF BackendsInv
  <2>3. inner' = inner /\ answer' = answer
    BY <2>1 DEF cache_vars
  <2>4. Ring!TypeOK' /\ SameKeys'
    BY <2>1, <2>3 DEF BackendsInv, Ring!TypeOK, SameKeys, Ring!Phys, Ring!Slots
  <2> QED
    BY <2>1, <2>2, <2>3, <2>4 DEF BackendsInv
<1> QED
  BY <1>1, <1>2 DEF BNext

LEMMA AlwaysBackends == BSpec => []BackendsInv
BY InitBackends, NextBackends, PTL DEF BSpec

\* The claim of seen.rs:18-24: both backends give the same answer to every
\* insert and hold the same keys in the same order of staleness.
THEOREM BackendsAreOne == BSpec => []BackendsAgree
<1>1. ASSUME BackendsInv PROVE BackendsAgree
  <2>1. /\ inner \in Seq(Keys) /\ len = Len(inner) /\ len \in Nat
        /\ \A k \in 0 .. len - 1 : slots[Ring!Phys(k)] = inner[k + 1]
    BY <1>1, SameKeysFacts
  <2>2. inner = [i \in 1 .. len |-> inner[i]]
    BY <2>1, LenProperties
  <2>3. ASSUME NEW i \in 1 .. len PROVE inner[i] = slots[Ring!Phys(i - 1)]
    <3>1. i - 1 \in 0 .. len - 1 /\ (i - 1) + 1 = i
      BY <2>1
    <3> QED
      BY <2>1, <3>1
  <2>4. inner = Ring!LogicalOrder
    BY <2>2, <2>3 DEF Ring!LogicalOrder
  <2> QED
    BY <1>1, <2>4 DEF BackendsAgree, BackendsInv
<1> QED
  BY <1>1, AlwaysBackends, PTL

\* `contains` scans the filled slots in physical order and `insert` searches in
\* logical order, and they agree in every state (Ring::contains, Ring::insert).
THEOREM ContainsIsInsert == BSpec => []ContainsAgreesWithInsert
<1>1. ASSUME BackendsInv, NEW key \in Keys
      PROVE  Ring!RingContains(key) <=> Ring!Found(key) # {}
  <2> DEFINE N == SEEN_CAPACITY
  <2>1. /\ len \in Nat /\ len <= N /\ N \in Nat \ {0}
        /\ head \in Ring!Slots /\ Ring!Slots = 0 .. N - 1
        /\ \A k \in 0 .. len - 1 : k \in Ring!Slots /\ slots[Ring!Phys(k)] = inner[k + 1]
        /\ len < N => head = 0
    BY <1>1, SameKeysFacts DEF BackendsInv, Ring!TypeOK
  <2>2. Ring!Found(key) = {k \in 0 .. len - 1 : inner[k + 1] = key}
    BY <1>1, FoundFacts
  <2>3. /\ \A k \in Ring!Slots : Ring!Phys(k) \in Ring!Slots
        /\ \A p \in Ring!Slots : Ring!Logical(p) \in Ring!Slots /\ Ring!Phys(Ring!Logical(p)) = p
        /\ head = 0 => \A k \in Ring!Slots : Ring!Phys(k) = k
    BY <2>1, PlaceFacts
  <2> HIDE DEF N
  \* The filled slots are the logical places that are in use.
  <2>4. ASSUME NEW k \in 0 .. len - 1 PROVE Ring!Phys(k) \in 0 .. len - 1
    <3>1. CASE len < N
      BY <2>1, <2>3, <3>1
    <3>2. CASE len = N
      BY <2>1, <2>3, <3>2
    <3> QED
      BY <2>1, <3>1, <3>2
  <2>5. \A p \in 0 .. len - 1 : \E k \in 0 .. len - 1 : Ring!Phys(k) = p
    <3>1. CASE len < N
      BY <2>1, <2>3, <3>1
    <3>2. CASE len = N
      BY <2>1, <2>3, <3>2
    <3> QED
      BY <2>1, <3>1, <3>2
  <2>6. ASSUME NEW p \in 0 .. len - 1, slots[p] = key PROVE Ring!Found(key) # {}
    <3>1. PICK k \in 0 .. len - 1 : Ring!Phys(k) = p
      BY <2>5
    <3>2. k \in Ring!Found(key)
      BY <2>1, <2>2, <2>6, <3>1
    <3> QED
      BY <3>2
  <2>7. ASSUME NEW k \in Ring!Found(key) PROVE Ring!RingContains(key)
    <3>1. k \in 0 .. len - 1 /\ slots[Ring!Phys(k)] = key
      BY <2>1, <2>2
    <3> QED
      BY <2>4, <3>1 DEF Ring!RingContains
  <2> QED
    BY <2>6, <2>7 DEF Ring!RingContains
<1>2. BackendsInv => ContainsAgreesWithInsert
  BY <1>1 DEF ContainsAgreesWithInsert, Ring!ContainsAgreesWithInsert
<1> QED
  BY <1>2, AlwaysBackends, PTL

----------------------------------------------------------------------------
(***************************************************************************)
(* The mesh.  HopBudget and ShownToTheRightUser do not rest on what the    *)
(* caches remember, so there the caches stay opaque.                       *)
(***************************************************************************)

\* What both arguments need of the radio: every frame on air carries a message
\* that somebody typed.
AirIsTyped ==
  /\ typed \subseteq Messages
  /\ air \subseteq Transmission
  /\ \A t \in air : t.packet.msg \in typed

\* No hop is needed to stay at a node.
LEMMA ReachSelf ==
  ASSUME NEW n \in Nodes
  PROVE  Reachable(n, n, 0)
<1> DEFINE path == [i \in 0 .. 0 |-> n]
<1>1. path \in [0 .. 0 -> Nodes]
  OBVIOUS
<1>2. path[0] = n /\ \A i \in 0 .. 0 - 1 : HasRange(path[i], path[i + 1])
  OBVIOUS
<1> QED
  BY <1>1, <1>2 DEF Reachable

\* One hop more reaches whatever is in range of what has been reached.
LEMMA ReachOneMore ==
  ASSUME NEW n \in Nodes, NEW m \in Nodes, NEW o \in Nodes, NEW hops \in Nat,
         Reachable(n, m, hops), HasRange(m, o)
  PROVE  Reachable(n, o, hops + 1)
<1>1. PICK path \in [0 .. hops -> Nodes] :
        /\ path[0] = n /\ path[hops] = m
        /\ \A i \in 0 .. hops - 1 : HasRange(path[i], path[i + 1])
  BY DEF Reachable
<1> DEFINE longer == [i \in 0 .. hops + 1 |-> IF i = hops + 1 THEN o ELSE path[i]]
<1>2. longer \in [0 .. hops + 1 -> Nodes]
  BY <1>1
<1>3. longer[0] = n /\ longer[hops + 1] = o
  BY <1>1
<1>4. ASSUME NEW i \in 0 .. (hops + 1) - 1
      PROVE  HasRange(longer[i], longer[i + 1])
  <2>1. CASE i = hops
    <3>1. longer[i] = m /\ longer[i + 1] = o
      BY <1>1, <2>1
    <3> QED
      BY <3>1
  <2>2. CASE i # hops
    <3>1. i \in 0 .. hops - 1
      BY <2>2
    <3>2. longer[i] = path[i] /\ longer[i + 1] = path[i + 1]
      BY <3>1
    <3> QED
      BY <1>1, <3>1, <3>2
  <2> QED
    BY <2>1, <2>2
<1> HIDE DEF longer
<1> QED
  BY <1>2, <1>3, <1>4 DEF Reachable

LEMMA InitAir == Init => AirIsTyped /\ HopBudget
BY DEF Init, AirIsTyped, HopBudget

LEMMA NextAir == AirIsTyped /\ [Next]_vars => AirIsTyped'
<1> SUFFICES ASSUME AirIsTyped, [Next]_vars PROVE AirIsTyped'
  OBVIOUS
<1> USE DEF AirIsTyped
<1>1. ASSUME NEW msg \in Messages, Originate(msg) PROVE AirIsTyped'
  <2>1. msg.src \in Nodes
    BY MessagesAssumption DEF Message
  <2>2. [packet |-> NewPacket(msg), by |-> msg.src] \in Transmission
    BY <2>1, TtlAssumption DEF NewPacket, Transmission, Packet
  <2> QED
    BY <1>1, <2>2 DEF Originate, NewPacket
<1>2. ASSUME NEW t \in air, NEW n \in Nodes, Hear(n, t) PROVE AirIsTyped'
  <2>1. CASE Forwards(n, seen[n], t.packet)
    <3>1. t.packet \in Packet /\ t.packet.ttl > 1
      BY <2>1 DEF Forwards, MayHop, Transmission
    <3>2. /\ Hopped(t.packet) \in Packet
          /\ Hopped(t.packet).msg = t.packet.msg
      BY <3>1, TtlAssumption DEF Hopped, Packet
    <3>3. [packet |-> Hopped(t.packet), by |-> n] \in Transmission
      BY <3>2 DEF Transmission
    <3> QED
      BY <1>2, <2>1, <3>2, <3>3 DEF Hear
  <2>2. CASE ~ Forwards(n, seen[n], t.packet)
    BY <1>2, <2>2 DEF Hear
  <2> QED
    BY <2>1, <2>2
<1>3. ASSUME NEW t \in air, Fade(t) PROVE AirIsTyped'
  BY <1>3 DEF Fade
<1>4. ASSUME NEW n \in Nodes, Restart(n) PROVE AirIsTyped'
  BY <1>4 DEF Restart
<1>5. CASE UNCHANGED vars
  BY <1>5 DEF vars
<1> QED
  BY <1>1, <1>2, <1>3, <1>4, <1>5 DEF Next

LEMMA NextHopBudget == AirIsTyped /\ HopBudget /\ [Next]_vars => HopBudget'
<1> SUFFICES ASSUME AirIsTyped, HopBudget, [Next]_vars PROVE HopBudget'
  OBVIOUS
<1> DEFINE Spent(t) ==
      /\ t.packet.ttl >= 1
      /\ Reachable(t.packet.msg.src, t.by, DEFAULT_TTL - t.packet.ttl)
<1>1. \A t \in air : Spent(t)
  BY DEF HopBudget
<1>2. ASSUME \A t \in air' : Spent(t) PROVE HopBudget'
  BY <1>2 DEF HopBudget, Reachable, HasRange
<1>3. ASSUME NEW msg \in Messages, Originate(msg) PROVE HopBudget'
  <2> DEFINE new == [packet |-> NewPacket(msg), by |-> msg.src]
  <2>1. msg.src \in Nodes
    BY MessagesAssumption DEF Message
  <2>2. /\ new.packet.ttl = DEFAULT_TTL
        /\ new.packet.msg.src = msg.src
        /\ new.by = msg.src
    BY DEF NewPacket
  <2>3. DEFAULT_TTL - DEFAULT_TTL = 0 /\ DEFAULT_TTL >= 1
    BY TtlAssumption
  <2>4. Spent(new)
    BY <2>1, <2>2, <2>3, ReachSelf
  <2>5. air' = air \cup {new}
    BY <1>3 DEF Originate
  <2> HIDE DEF Spent, new
  <2> QED
    BY <1>1, <1>2, <2>4, <2>5
<1>4. ASSUME NEW t \in air, NEW n \in Nodes, Hear(n, t) PROVE HopBudget'
  <2> DEFINE relay == [packet |-> Hopped(t.packet), by |-> n]
  <2>1. CASE Forwards(n, seen[n], t.packet)
    <3>1. /\ t.packet \in Packet /\ t.by \in Nodes
          /\ t.packet.ttl \in 1 .. DEFAULT_TTL /\ t.packet.ttl > 1
          /\ t.packet.msg.src \in Nodes
      BY <2>1, MessagesAssumption
      DEF AirIsTyped, Forwards, MayHop, Transmission, Packet, Message
    <3>2. /\ relay.packet.ttl = t.packet.ttl - 1
          /\ relay.packet.msg.src = t.packet.msg.src
          /\ relay.by = n
      BY <3>1 DEF Hopped, Packet
    <3>3. /\ DEFAULT_TTL - t.packet.ttl \in Nat
          /\ (DEFAULT_TTL - t.packet.ttl) + 1 = DEFAULT_TTL - (t.packet.ttl - 1)
          /\ t.packet.ttl - 1 >= 1
      BY <3>1, TtlAssumption
    <3>4. HasRange(t.by, n) /\ air' = air \cup {relay}
      BY <1>4, <2>1 DEF Hear
    <3>5. Reachable(t.packet.msg.src, t.by, DEFAULT_TTL - t.packet.ttl)
      BY <1>1
    <3>6. Reachable(t.packet.msg.src, n, (DEFAULT_TTL - t.packet.ttl) + 1)
      BY <3>1, <3>3, <3>4, <3>5, ReachOneMore
    <3>7. Spent(relay)
      BY <3>2, <3>3, <3>6
    <3> HIDE DEF Spent, relay
    <3> QED
      BY <1>1, <1>2, <3>4, <3>7
  <2>2. CASE ~ Forwards(n, seen[n], t.packet)
    <3>1. air' = air
      BY <1>4, <2>2 DEF Hear
    <3> HIDE DEF Spent
    <3> QED
      BY <1>1, <1>2, <3>1
  <2> QED
    BY <2>1, <2>2
<1> HIDE DEF Spent
<1>5. ASSUME NEW t \in air, Fade(t) PROVE HopBudget'
  BY <1>1, <1>2, <1>5 DEF Fade
<1>6. ASSUME NEW n \in Nodes, Restart(n) PROVE HopBudget'
  BY <1>1, <1>2, <1>6 DEF Restart
<1>7. CASE UNCHANGED vars
  BY <1>1, <1>2, <1>7 DEF vars
<1> QED
  BY <1>3, <1>4, <1>5, <1>6, <1>7 DEF Next

\* What the TTL of a frame says, for every topology and cache: the hops it has
\* lost it has travelled, so DEFAULT_TTL bounds how far a message gets
\* (packet.rs:44-50, 315-322).
THEOREM TtlBoundsTravel == Spec => []HopBudget
<1>1. AirIsTyped /\ HopBudget /\ [Next]_vars => AirIsTyped' /\ HopBudget'
  BY NextAir, NextHopBudget
<1> QED
  BY InitAir, <1>1, PTL DEF Spec

----------------------------------------------------------------------------
(***************************************************************************)
(* To whom a message is shown.                                             *)
(***************************************************************************)

\* The history is a counter for every node and message.
DeliveredIsCounted == delivered \in [Nodes -> [Messages -> Nat]]

\* A count moves only for the node and the message it is about.
LEMMA CountFacts ==
  ASSUME NEW history \in [Nodes -> [Messages -> Nat]],
         NEW n \in Nodes, NEW msg \in Messages, NEW happens
  PROVE  /\ Count(history, n, msg, happens) \in [Nodes -> [Messages -> Nat]]
         /\ \A m \in Nodes, other \in Messages :
              m # n \/ other # msg \/ ~ happens =>
                Count(history, n, msg, happens)[m][other] = history[m][other]
<1>1. CASE happens /\ history[n][msg] < CountCap
  <2>1. Count(history, n, msg, happens) = [history EXCEPT ![n][msg] = @ + 1]
    BY <1>1 DEF Count
  <2> DEFINE counted == [history EXCEPT ![n][msg] = @ + 1]
  <2>2. /\ counted \in [Nodes -> [Messages -> Nat]]
        /\ \A m \in Nodes, other \in Messages :
             m # n \/ other # msg => counted[m][other] = history[m][other]
    OBVIOUS
  <2>3. Count(history, n, msg, happens) = counted
    BY <2>1
  <2> HIDE DEF counted
  <2> QED
    BY <1>1, <2>3, <2>2, Zenon
<1>2. CASE ~ (happens /\ history[n][msg] < CountCap)
  BY <1>2 DEF Count
<1> QED
  BY <1>1, <1>2

LEMMA InitShown == Init => DeliveredIsCounted /\ ShownToTheRightUser
BY DEF Init, DeliveredIsCounted, ShownToTheRightUser

LEMMA NextShown ==
  /\ AirIsTyped /\ DeliveredIsCounted /\ ShownToTheRightUser /\ [Next]_vars
  => DeliveredIsCounted' /\ ShownToTheRightUser'
<1> SUFFICES ASSUME AirIsTyped, DeliveredIsCounted, ShownToTheRightUser, [Next]_vars
             PROVE  DeliveredIsCounted' /\ ShownToTheRightUser'
  OBVIOUS
<1> USE DEF DeliveredIsCounted, ShownToTheRightUser
<1>1. ASSUME NEW msg \in Messages, Originate(msg)
      PROVE  DeliveredIsCounted' /\ ShownToTheRightUser'
  BY <1>1 DEF Originate
<1>2. ASSUME NEW t \in air, NEW n \in Nodes, Hear(n, t)
      PROVE  DeliveredIsCounted' /\ ShownToTheRightUser'
  <2> DEFINE msg == t.packet.msg
             shows == Delivers(n, seen[n], t.packet)
  <2>1. msg \in Messages /\ msg \in typed
    BY DEF AirIsTyped, Transmission, Packet
  <2>2. shows => msg.src # n /\ msg.dest \in {n, Everyone}
    BY DEF Delivers, IsFresh, IsOwn, IsForMe
  <2>3. delivered' = Count(delivered, n, msg, shows) /\ typed' = typed
    BY <1>2 DEF Hear
  <2> HIDE DEF msg, shows
  <2>4. /\ delivered' \in [Nodes -> [Messages -> Nat]]
        /\ \A m \in Nodes, other \in Messages :
             m # n \/ other # msg \/ ~ shows =>
               delivered'[m][other] = delivered[m][other]
    BY <2>1, <2>3, CountFacts
  <2> QED
    BY <2>1, <2>2, <2>3, <2>4
<1>3. ASSUME NEW t \in air, Fade(t)
      PROVE  DeliveredIsCounted' /\ ShownToTheRightUser'
  BY <1>3 DEF Fade
<1>4. ASSUME NEW n \in Nodes, Restart(n)
      PROVE  DeliveredIsCounted' /\ ShownToTheRightUser'
  BY <1>4 DEF Restart
<1>5. CASE UNCHANGED vars
  BY <1>5 DEF vars
<1> QED
  BY <1>1, <1>2, <1>3, <1>4, <1>5 DEF Next

\* Whatever the caches forget and the radio repeats, a message is shown only
\* where rules 1 and 3 of router.rs let it (router.rs:19-31), and only once
\* somebody typed it.
THEOREM RightUser == Spec => []ShownToTheRightUser
<1> DEFINE Inv == AirIsTyped /\ DeliveredIsCounted /\ ShownToTheRightUser
<1>1. Init => Inv
  BY InitAir, InitShown
<1>2. Inv /\ [Next]_vars => Inv'
  BY NextAir, NextShown
<1> QED
  BY <1>1, <1>2, PTL DEF Spec

----------------------------------------------------------------------------
(***************************************************************************)
(* Duplicate suppression across the mesh.                                  *)
(***************************************************************************)

\* The caches can hold every message that circulates.
CachesSuffice == IsFiniteSet(Messages) /\ Cardinality(Messages) <= SEEN_CAPACITY

Histories == [Nodes -> [Messages -> 0 .. 1]]

\* What was shown or forwarded once is in the cache, which is why it is not
\* shown or forwarded twice.
Suppresses ==
  /\ seen \in [Nodes -> Seq(Messages)]
  /\ \A n \in Nodes : Distinct(seen[n])
  /\ restarts \in 0 .. MaxRestarts
  /\ delivered \in Histories /\ relayed \in Histories
  /\ \A n \in Nodes, msg \in Messages :
       delivered[n][msg] = 1 \/ relayed[n][msg] = 1 => Contains(seen[n], msg)

\* One insert into one cache, of a key that may be there already, loses
\* nothing.
LEMMA InsertSuppresses ==
  ASSUME CachesSuffice, NEW cache \in Seq(Messages), Distinct(cache), NEW msg \in Messages
  PROVE  /\ Insert(cache, msg) \in Seq(Messages)
         /\ Distinct(Insert(cache, msg))
         /\ Contains(Insert(cache, msg), msg)
         /\ \A other : Contains(cache, other) => Contains(Insert(cache, msg), other)
<1>1. /\ Len(cache) <= SEEN_CAPACITY
      /\ Contains(cache, msg) \/ Len(cache) < SEEN_CAPACITY
  BY RoomForAll DEF CachesSuffice
<1> QED
  BY <1>1, InsertKeepsCache

\* A history that counts what has not happened before stays below two.
LEMMA CountOnce ==
  ASSUME NEW history \in Histories, NEW n \in Nodes, NEW msg \in Messages, NEW happens,
         happens => history[n][msg] = 0
  PROVE  /\ Count(history, n, msg, happens) \in Histories
         /\ \A m \in Nodes, other \in Messages :
              Count(history, n, msg, happens)[m][other] = 1 =>
                history[m][other] = 1 \/ (happens /\ m = n /\ other = msg)
<1>1. CASE happens /\ history[n][msg] < CountCap
  <2> DEFINE counted == [history EXCEPT ![n][msg] = @ + 1]
  <2>1. Count(history, n, msg, happens) = counted
    BY <1>1 DEF Count
  <2>2. history[n][msg] + 1 = 1
    BY <1>1
  <2>3. /\ counted \in Histories
        /\ \A m \in Nodes, other \in Messages :
             m # n \/ other # msg => counted[m][other] = history[m][other]
    BY <2>2 DEF Histories
  <2> HIDE DEF counted
  <2> QED
    BY <1>1, <2>1, <2>3, Zenon
<1>2. CASE ~ (happens /\ history[n][msg] < CountCap)
  BY <1>2 DEF Count
<1> QED
  BY <1>1, <1>2

LEMMA InitSuppresses == Init => Suppresses
<1> SUFFICES ASSUME Init PROVE Suppresses
  OBVIOUS
<1>1. EmptyCache \in Seq(Messages) /\ Distinct(EmptyCache)
  BY EmptyCacheFacts
<1>2. seen = [n \in Nodes |-> EmptyCache]
  BY DEF Init
<1>3. restarts \in 0 .. MaxRestarts
  BY MeshBoundsAssumption DEF Init
<1>4. /\ delivered \in Histories /\ relayed \in Histories
      /\ \A n \in Nodes, msg \in Messages : delivered[n][msg] = 0 /\ relayed[n][msg] = 0
  BY DEF Init, Histories
<1> QED
  BY <1>1, <1>2, <1>3, <1>4 DEF Suppresses

LEMMA NextSuppresses ==
  ASSUME CachesSuffice
  PROVE  AirIsTyped /\ Suppresses /\ [Next]_vars => Suppresses'
<1> SUFFICES ASSUME AirIsTyped, Suppresses, [Next]_vars PROVE Suppresses'
  OBVIOUS
<1>1. /\ seen \in [Nodes -> Seq(Messages)]
      /\ \A n \in Nodes : Distinct(seen[n])
      /\ restarts \in 0 .. MaxRestarts
      /\ delivered \in Histories /\ relayed \in Histories
      /\ \A n \in Nodes, msg \in Messages :
           delivered[n][msg] = 1 \/ relayed[n][msg] = 1 => Contains(seen[n], msg)
  BY DEF Suppresses
\* The cache of one node remembers one message more, or moves it.
<1>2. ASSUME NEW n \in Nodes, NEW msg \in Messages,
             seen' = [seen EXCEPT ![n] = Insert(@, msg)]
      PROVE  /\ seen' \in [Nodes -> Seq(Messages)]
             /\ \A m \in Nodes : Distinct(seen'[m])
             /\ Contains(seen'[n], msg)
             /\ \A m \in Nodes, other \in Messages :
                  Contains(seen[m], other) => Contains(seen'[m], other)
  <2> DEFINE new == Insert(seen[n], msg)
  <2>1. /\ new \in Seq(Messages) /\ Distinct(new) /\ Contains(new, msg)
        /\ \A other : Contains(seen[n], other) => Contains(new, other)
    <3>1. seen[n] \in Seq(Messages) /\ Distinct(seen[n])
      BY <1>1
    <3> QED
      BY <3>1, InsertSuppresses
  <2> HIDE DEF new
  <2>2. /\ seen' \in [Nodes -> Seq(Messages)]
        /\ seen'[n] = new /\ \A m \in Nodes : m # n => seen'[m] = seen[m]
    BY <1>1, <1>2, <2>1 DEF new
  <2> QED
    BY <1>1, <2>1, <2>2
<1>3. ASSUME NEW msg \in Messages, Originate(msg) PROVE Suppresses'
  <2>1. msg.src \in Nodes
    BY MessagesAssumption DEF Message
  <2>2. seen' = [seen EXCEPT ![msg.src] = Insert(@, msg)]
    BY <1>3 DEF Originate, Key, NewPacket
  <2>3. delivered' = delivered /\ relayed' = relayed /\ restarts' = restarts
    BY <1>3 DEF Originate
  <2> QED
    BY <1>1, <1>2, <2>1, <2>2, <2>3 DEF Suppresses
<1>4. ASSUME NEW t \in air, NEW n \in Nodes, Hear(n, t) PROVE Suppresses'
  <2> DEFINE msg == t.packet.msg
             shows == Delivers(n, seen[n], t.packet)
             forwards == Forwards(n, seen[n], t.packet)
  <2>1. msg \in Messages
    BY DEF AirIsTyped, Transmission, Packet
  <2>2. shows \/ forwards => ~ IsOwn(n, t.packet) /\ ~ Contains(seen[n], msg)
    BY DEF Delivers, Forwards, IsFresh, NewlySeen, Key
  <2>3. /\ delivered' = Count(delivered, n, msg, shows)
        /\ relayed' = Count(relayed, n, msg, forwards)
        /\ restarts' = restarts
    BY <1>4 DEF Hear
  <2>4. seen' = IF IsOwn(n, t.packet) THEN seen ELSE [seen EXCEPT ![n] = Insert(@, msg)]
    <3>1. seen' = [seen EXCEPT ![n] = CacheAfter(n, @, t.packet)]
      BY <1>4 DEF Hear
    <3> QED
      BY <1>1, <3>1 DEF CacheAfter, Key
  <2> HIDE DEF msg, shows, forwards
  <2>5. /\ shows => delivered[n][msg] = 0
        /\ forwards => relayed[n][msg] = 0
    <3>1. delivered[n][msg] \in 0 .. 1 /\ relayed[n][msg] \in 0 .. 1
      BY <1>1, <2>1 DEF Histories
    <3>2. /\ delivered[n][msg] # 1 => delivered[n][msg] = 0
          /\ relayed[n][msg] # 1 => relayed[n][msg] = 0
      BY <3>1
    <3> QED
      BY <1>1, <2>1, <2>2, <3>2, Zenon
  <2>6. /\ delivered' \in Histories
        /\ \A m \in Nodes, other \in Messages :
             delivered'[m][other] = 1 =>
               delivered[m][other] = 1 \/ (shows /\ m = n /\ other = msg)
    BY <1>1, <2>1, <2>3, <2>5, CountOnce
  <2>7. /\ relayed' \in Histories
        /\ \A m \in Nodes, other \in Messages :
             relayed'[m][other] = 1 =>
               relayed[m][other] = 1 \/ (forwards /\ m = n /\ other = msg)
    BY <1>1, <2>1, <2>3, <2>5, CountOnce
  <2>8. CASE IsOwn(n, t.packet)
    <3>1. seen' = seen /\ ~ shows /\ ~ forwards
      BY <2>2, <2>4, <2>8, Zenon
    <3>2. \A m \in Nodes, other \in Messages :
            delivered'[m][other] = 1 \/ relayed'[m][other] = 1 => Contains(seen'[m], other)
      BY <1>1, <2>6, <2>7, <3>1, Zenon
    <3> QED
      BY <1>1, <2>3, <2>6, <2>7, <3>1, <3>2 DEF Suppresses
  <2>9. CASE ~ IsOwn(n, t.packet)
    <3>1. seen' = [seen EXCEPT ![n] = Insert(@, msg)]
      BY <2>4, <2>9, Zenon
    <3>2. /\ seen' \in [Nodes -> Seq(Messages)]
          /\ \A m \in Nodes : Distinct(seen'[m])
          /\ Contains(seen'[n], msg)
          /\ \A m \in Nodes, other \in Messages :
               Contains(seen[m], other) => Contains(seen'[m], other)
      BY <1>2, <2>1, <3>1
    <3>3. \A m \in Nodes, other \in Messages :
            delivered'[m][other] = 1 \/ relayed'[m][other] = 1 => Contains(seen'[m], other)
      BY <1>1, <2>6, <2>7, <3>2, Zenon
    <3> QED
      BY <1>1, <2>3, <2>6, <2>7, <3>2, <3>3 DEF Suppresses
  <2> QED
    BY <2>8, <2>9
<1>5. ASSUME NEW t \in air, Fade(t) PROVE Suppresses'
  BY <1>1, <1>5 DEF Fade, Suppresses
<1>6. ASSUME NEW n \in Nodes, Restart(n) PROVE Suppresses'
  <2>1. EmptyCache \in Seq(Messages) /\ Distinct(EmptyCache)
    BY EmptyCacheFacts
  <2>2. /\ seen' \in [Nodes -> Seq(Messages)]
        /\ seen'[n] = EmptyCache
        /\ \A m \in Nodes : m # n => seen'[m] = seen[m]
    BY <1>1, <1>6, <2>1 DEF Restart
  <2>3. restarts' \in 0 .. MaxRestarts
    BY <1>1, <1>6, MeshBoundsAssumption DEF Restart
  <2>4. /\ delivered' \in Histories /\ relayed' \in Histories
        /\ \A m \in Nodes, other \in Messages :
             IF m = n THEN delivered'[m][other] = 0 /\ relayed'[m][other] = 0
             ELSE /\ delivered'[m][other] = delivered[m][other]
                  /\ relayed'[m][other] = relayed[m][other]
    BY <1>1, <1>6 DEF Restart, Histories
  <2> QED
    <3>1. \A m \in Nodes : Distinct(seen'[m])
      BY <1>1, <2>1, <2>2
    <3>2. ASSUME NEW m \in Nodes, NEW other \in Messages,
                 delivered'[m][other] = 1 \/ relayed'[m][other] = 1
          PROVE  Contains(seen'[m], other)
      <4>1. m # n
        BY <2>4, <3>2
      <4> QED
        BY <1>1, <2>2, <2>4, <3>2, <4>1
    <3> QED
      BY <2>2, <2>3, <2>4, <3>1, <3>2 DEF Suppresses
<1>7. CASE UNCHANGED vars
  BY <1>1, <1>7 DEF vars, Suppresses
<1> QED
  BY <1>3, <1>4, <1>5, <1>6, <1>7 DEF Next

\* While the caches can hold every message that circulates, however the radio
\* repeats and reorders the copies, whatever loops the topology has and whoever
\* restarts, no user is shown a message twice and no node forwards one twice
\* (seen.rs:4-8, rule 2 of router.rs).
THEOREM NoDuplicates == ASSUME CachesSuffice PROVE Spec => []AtMostOnce
<1>1. AirIsTyped /\ Suppresses => AtMostOnce
  <2> SUFFICES ASSUME AirIsTyped, Suppresses PROVE AtMostOnce
    OBVIOUS
  <2>1. ASSUME NEW n \in Nodes
        PROVE  seen[n] \in Seq(Messages) /\ Len(seen[n]) <= SEEN_CAPACITY
    <3>1. seen[n] \in Seq(Messages) /\ Distinct(seen[n])
      BY DEF Suppresses
    <3>2. Len(seen[n]) <= Cardinality(Messages)
      BY <3>1, DistinctFits DEF CachesSuffice
    <3>3. Len(seen[n]) \in Nat /\ Cardinality(Messages) \in Nat /\ SEEN_CAPACITY \in Nat
      BY <3>1, LenProperties, FS_CardinalityType, CapacityAssumption DEF CachesSuffice
    <3> QED
      BY <3>1, <3>2, <3>3 DEF CachesSuffice
  <2>2. /\ delivered \in [Nodes -> [Messages -> 0 .. CountCap]]
        /\ relayed \in [Nodes -> [Messages -> 0 .. CountCap]]
    <3>1. 0 .. 1 \subseteq 0 .. CountCap
      BY MeshBoundsAssumption
    <3>2. \A h \in Histories : h \in [Nodes -> [Messages -> 0 .. CountCap]]
      BY <3>1 DEF Histories
    <3> QED
      BY <3>2 DEF Suppresses
  <2>3. TypeOK
    BY <2>1, <2>2 DEF TypeOK, AirIsTyped, Suppresses
  <2>4. \A n \in Nodes, msg \in Messages : delivered[n][msg] <= 1 /\ relayed[n][msg] <= 1
    BY DEF Suppresses, Histories
  <2> QED
    BY <2>3, <2>4 DEF AtMostOnce
<1>2. Init => AirIsTyped
  BY InitAir
<1> QED
  BY <1>1, <1>2, InitSuppresses, NextAir, NextSuppresses, PTL DEF Spec
=============================================================================
