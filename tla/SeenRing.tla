------------------------------ MODULE SeenRing ------------------------------
(***************************************************************************)
(* The `no_std` backend of the seen cache, crates/poholos/src/seen.rs       *)
(* struct Ring: a fixed array scanned linearly, filled in order and then    *)
(* overwritten at `head`.  Module SeenBackends compares it with SeenCache.  *)
(***************************************************************************)
EXTENDS Naturals

CONSTANTS
  Keys,
  SEEN_CAPACITY,
  ZeroKey                   \* the key whose hash is 0, what `slots` starts as

VARIABLES
  slots,                    \* the array of SEEN_CAPACITY keys
  len,                      \* number of filled slots
  head,                     \* physical index of the stalest key
  answer                    \* what the last insert returned

vars == <<slots, len, head, answer>>

Slots == 0 .. SEEN_CAPACITY - 1

\* Ring::phys, the slot of logical position k (0 is the stalest) ...
Phys(k) == (head + k) % SEEN_CAPACITY

\* ... and the logical position that a slot has.
Logical(p) == (p + SEEN_CAPACITY - head) % SEEN_CAPACITY

\* Mutant of RingContains: the scan starts at head, as if slots filled there.
RingContainsFromHead(key) == \E p \in head .. len - 1 : slots[p] = key

\* Ring::contains scans the physical prefix slots[..len].
RingContains(key) == \E p \in 0 .. len - 1 : slots[p] = key

\* The place where Ring::insert finds the key: the first in logical order.
Found(key) ==
  {k \in 0 .. len - 1 :
     slots[Phys(k)] = key /\ \A j \in 0 .. k - 1 : slots[Phys(j)] # key}

Init ==
  /\ slots = [p \in Slots |-> ZeroKey]
  /\ len = 0
  /\ head = 0
  /\ answer = FALSE

\* Mutant of Refresh: the newer keys are not shifted down.
RefreshInPlace(key) ==
  \E found \in Found(key) :
    /\ slots' = [slots EXCEPT ![Phys(len - 1)] = key]
    /\ answer' = FALSE
    /\ UNCHANGED <<len, head>>

\* A key that is present: every newer key moves one logical slot down and the
\* key is written at the newest one.
Refresh(key) ==
  \E found \in Found(key) :
    /\ slots' = [p \in Slots |->
                   CASE Logical(p) = len - 1 -> key
                     [] Logical(p) \in found .. len - 2 -> slots[(p + 1) % SEEN_CAPACITY]
                     [] OTHER -> slots[p]]
    /\ answer' = FALSE
    /\ UNCHANGED <<len, head>>

\* A new key while there is room.
Fill(key) ==
  /\ Found(key) = {}
  /\ len < SEEN_CAPACITY
  /\ slots' = [slots EXCEPT ![len] = key]
  /\ len' = len + 1
  /\ answer' = TRUE
  /\ UNCHANGED head

\* A new key in a full ring overwrites the stalest one and becomes the newest.
Overwrite(key) ==
  /\ Found(key) = {}
  /\ len = SEEN_CAPACITY
  /\ slots' = [slots EXCEPT ![head] = key]
  /\ head' = (head + 1) % SEEN_CAPACITY
  /\ answer' = TRUE
  /\ UNCHANGED len

----------------------------------------------------------------------------
\* Indices stay in range, and head stays 0 until the ring is full (seen.rs
\* on `head`), without which contains and the fill would address other slots.
TypeOK ==
  /\ slots \in [Slots -> Keys]
  /\ len \in 0 .. SEEN_CAPACITY
  /\ head \in Slots
  /\ len < SEEN_CAPACITY => head = 0
  /\ answer \in BOOLEAN

\* The keys in logical order, stalest first: the abstract cache.
LogicalOrder == [i \in 1 .. len |-> slots[Phys(i - 1)]]

\* `contains` scans the physical prefix while `insert` searches logically, so
\* the two views agree only thanks to where head is: no key is answered
\* "new" by insert and "remembered" by contains in the same state.
ContainsAgreesWithInsert ==
  \A key \in Keys : RingContains(key) <=> Found(key) # {}
============================================================================
