---------------------------- MODULE SeenBackends ----------------------------
(***************************************************************************)
(* The two backends of the seen cache hearing the same keys: the linked    *)
(* hash set with the history of the hearings, and the `no_std` ring.       *)
(***************************************************************************)
EXTENDS SeenRecency

CONSTANT ZeroKey            \* the key whose hash is 0, what `slots` starts as

ASSUME ZeroKeyAssumption == ZeroKey \in Keys

VARIABLES slots, len, head, ring_answer

Ring == INSTANCE SeenRing WITH answer <- ring_answer

BInit == RInit /\ Ring!Init

BNext ==
  \E key \in Keys :
    /\ HearKey(key)
    /\ Ring!Refresh(key) \/ Ring!Fill(key) \/ Ring!Overwrite(key)

bvars == <<cache_vars, hearings, Ring!vars>>

BSpec == BInit /\ [][BNext]_bvars

\* `contains` scans the physical prefix while `insert` searches logically, so
\* the two views agree only thanks to where head is: no key is answered
\* "new" by insert and "remembered" by contains in the same state.
ContainsAgreesWithInsert == Ring!ContainsAgreesWithInsert

\* The claim of seen.rs:18-24 that the backends have the same observable
\* behaviour: the same answer to every insert and the same keys in the same
\* order of staleness, through fill, refresh, eviction and wrap of the head,
\* which stays 0 until the ring is full (seen.rs:178).
BackendsAgree ==
  /\ Ring!TypeOK
  /\ answer = ring_answer
  /\ inner = Ring!LogicalOrder
============================================================================
