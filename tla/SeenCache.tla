----------------------------- MODULE SeenCache -----------------------------
(***************************************************************************)
(* What a seen cache promises to the router: a state machine with the one  *)
(* operation `insert`, its answer observable.  It is the `std` backend of  *)
(* crates/poholos/src/seen.rs; module SeenBackends compares it with the    *)
(* `no_std` ring.                                                          *)
(***************************************************************************)
EXTENDS Seen

CONSTANT Keys               \* the dedup keys that are ever heard

VARIABLES
  inner,                    \* the remembered keys, stalest first
  answer                    \* what the last insert returned

cache_vars == <<inner, answer>>

CacheInit ==
  /\ inner = EmptyCache
  /\ answer = FALSE

InsertKey(key) ==
  /\ inner' = Insert(inner, key)
  /\ answer' = NewlySeen(inner, key)

CacheNext == \E key \in Keys : InsertKey(key)

CacheSpec == CacheInit /\ [][CacheNext]_cache_vars

\* The cache never outgrows its capacity and holds each key at most once:
\* `len` and `contains` of seen.rs mean what their documentation says.
CacheOK ==
  /\ inner \in Seq(Keys)
  /\ Len(inner) <= SEEN_CAPACITY
  /\ \A i, j \in DOMAIN inner : inner[i] = inner[j] => i = j
  /\ answer \in BOOLEAN
============================================================================
