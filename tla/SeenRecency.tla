---------------------------- MODULE SeenRecency ----------------------------
(***************************************************************************)
(* A seen cache together with the history of the hearings, from which what *)
(* the cache ought to remember can be stated without its eviction order.   *)
(* The history needs no bound: per key it keeps only the set of the other  *)
(* keys heard since.                                                       *)
(***************************************************************************)
EXTENDS SeenCache, FiniteSets

VARIABLES
  heard,                    \* history: the keys inserted at least once
  since                     \* history: since[k] is the set of other keys
                            \* inserted after the last insert of k

hearings == <<heard, since>>

RInit ==
  /\ CacheInit
  /\ heard = {}
  /\ since = [key \in Keys |-> {}]

\* key is the one heard last.
Recorded(key) ==
  /\ heard' = heard \cup {key}
  /\ since' = [k \in Keys |-> IF k = key THEN {} ELSE since[k] \cup {key}]

HearKey(key) == InsertKey(key) /\ Recorded(key)

RNext == \E key \in Keys : HearKey(key)

RSpec == RInit /\ [][RNext]_<<cache_vars, hearings>>

RTypeOK ==
  /\ CacheOK
  /\ heard \subseteq Keys
  /\ since \in [Keys -> SUBSET Keys]

\* The promise of seen.rs:6-16: the cache holds exactly the SEEN_CAPACITY
\* most recently heard keys.  A key is remembered iff it was heard and fewer
\* than SEEN_CAPACITY other keys have been heard since, however often the
\* frame of the key itself or of the others was heard again.
RemembersMostRecent ==
  \A key \in Keys :
    Contains(inner, key) <=> /\ key \in heard
                             /\ Cardinality(since[key]) < SEEN_CAPACITY

\* What the router relies on: insert answers "new" for a key only if it was
\* never heard or SEEN_CAPACITY other keys displaced it.  A frame that stays
\* on air and is heard in between is therefore never new again (seen.rs:10-16).
NewOnlyWhenDisplaced ==
  [][\A key \in Keys :
       Recorded(key) =>
         (answer' <=> \/ key \notin heard
                      \/ Cardinality(since[key]) >= SEEN_CAPACITY)]_<<cache_vars, hearings>>
============================================================================
