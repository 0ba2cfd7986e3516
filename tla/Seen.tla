------------------------------- MODULE Seen -------------------------------
(***************************************************************************)
(* Duplicate suppression: the value of a SeenCache and what `insert` makes *)
(* of it (crates/poholos/src/seen.rs, the `std` backend).                  *)
(*                                                                         *)
(* A cache is the sequence of the remembered dedup keys, stalest first:    *)
(* the iteration order of hashlink::LinkedHashSet, whose `insert` moves a  *)
(* key that is already present to the back.  A key stands for the 64-bit   *)
(* FNV-1a hash of a packet's identity; two packets with the same key are   *)
(* the same packet to every operator below, so a hash collision is two     *)
(* packets sharing a key.                                                  *)
(***************************************************************************)
EXTENDS Naturals, SequencesExt

CONSTANT SEEN_CAPACITY      \* number of keys remembered (512 in the code)

ASSUME CapacityAssumption == SEEN_CAPACITY \in Nat \ {0}

\* SeenCache::new
EmptyCache == << >>

\* SeenCache::contains is the operator Contains(cache, key) of SequencesExt.

\* Where a remembered key sits; 1 is the stalest place.
Position(cache, key) == CHOOSE i \in DOMAIN cache : cache[i] = key

\* Mutant of Refresh: pure FIFO, a key that is heard again keeps its place.
FifoRefresh(cache, key) == cache

\* LinkedHashSet::insert on a key that is present: it becomes the newest.
Refresh(cache, key) == Append(RemoveAt(cache, Position(cache, key)), key)

\* Mutant of Admit: the capacity test is one key late.
LateAdmit(cache, key) ==
  IF Len(cache) <= SEEN_CAPACITY
  THEN Append(cache, key)
  ELSE Append(Tail(cache), key)

\* A new key is appended; past the capacity the stalest one is popped.
Admit(cache, key) ==
  IF Len(cache) < SEEN_CAPACITY
  THEN Append(cache, key)
  ELSE Append(Tail(cache), key)

\* SeenCache::insert, the cache it leaves ...
Insert(cache, key) ==
  IF Contains(cache, key) THEN Refresh(cache, key) ELSE Admit(cache, key)

\* Mutant of NewlySeen: the answer only looks at the newest key.
NewlySeenByLast(cache, key) == cache = << >> \/ Last(cache) # key

\* ... and the boolean it returns: the key was not already present.
NewlySeen(cache, key) == ~ Contains(cache, key)
============================================================================
