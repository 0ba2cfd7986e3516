--------------------------- MODULE RotationTurns ---------------------------
(***************************************************************************)
(* The rotation with the history of its turns, in which the promises of    *)
(* the documentation of rotation.rs are stated: shares of the airtime, the *)
(* audibility window of an own message, the latency of a relay.  Every     *)
(* history variable is bounded by what is proved about it, so the runs     *)
(* need no bound of their own.                                             *)
(***************************************************************************)
EXTENDS Rotation, Integers

VARIABLES
  waits,                    \* history: for each waiting relay, the turns that
                            \* have passed it over, in step with `relays`
  passed,                   \* history: turns in a row that have passed over
                            \* the own message
  aired                     \* history: turns the newest own message has had

history == <<waits, passed, aired>>
tvars == <<vars, history>>

TInit ==
  /\ Init
  /\ waits = << >>
  /\ passed = 0
  /\ aired = 0

TEnqueueOwn(frame) ==
  /\ EnqueueOwn(frame)
  /\ aired' = 0
  /\ passed' = IF own = NoFrame THEN 0 ELSE passed
  /\ UNCHANGED waits

TEnqueueRelay(frame) ==
  /\ EnqueueRelay(frame)
  /\ waits' = PushShedding(waits, 0, RELAY_QUEUE)
  /\ UNCHANGED <<passed, aired>>

\* One more turn for every relay that keeps waiting.
Older(counts) == [i \in DOMAIN counts |-> counts[i] + 1]

TServeRelay ==
  /\ ServeRelay
  /\ waits' = Older(Tail(waits))
  /\ passed' = IF own = NoFrame THEN passed ELSE passed + 1
  /\ UNCHANGED aired

TServeOwn ==
  /\ ServeOwn
  /\ waits' = Older(waits)
  /\ passed' = 0
  /\ aired' = aired + 1

TServeNothing == ServeNothing /\ UNCHANGED history

TNext ==
  \/ TServeRelay \/ TServeOwn \/ TServeNothing
  \/ \E frame \in Frames : TEnqueueOwn(frame) \/ TEnqueueRelay(frame)

TSpec == TInit /\ [][TNext]_tvars

----------------------------------------------------------------------------
TTypeOK ==
  /\ TypeOK
  /\ waits \in Seq(Nat)
  /\ Len(waits) = Len(relays)
  /\ passed \in Nat
  /\ aired \in Nat

\* "Own and relay turns alternate, so the local message is guaranteed half the
\* airtime" (rotation.rs:19-20): while an own message is in rotation no two
\* turns in a row pass it over, even when it superseded another one or
\* arrived between two relays.
OwnHalfTheAirtime ==
  own # NoFrame => /\ passed <= 1
                   /\ last_was_own => passed = 0

\* "An own message stays in rotation for OWN_DWELLS turns" (rotation.rs:21-23):
\* turns had and turns left always add up to the window, and a message leaves
\* the rotation only when it has had all of them; a message that supersedes
\* another starts with a window of its own.
OwnWindow ==
  \/ own # NoFrame /\ aired + dwells_left = OWN_DWELLS
  \/ own = NoFrame /\ aired \in {0, OWN_DWELLS}

\* The turn the relays are owed once the own message has had its own.
Credit == IF last_was_own THEN 1 ELSE 0

\* The share a relay gets: the relay in place i is served within 2 * i more
\* turns, one fewer if the own message just had its turn; counted from its
\* arrival no relay waits for more than 2 * RELAY_QUEUE turns, whatever is
\* enqueued meanwhile.
RelayShare ==
  \A i \in 1 .. Len(waits) : waits[i] + 2 * i - Credit <= 2 * RELAY_QUEUE

\* The doc of RELAY_QUEUE: "Bounds the worst-case relay latency through this
\* node to `RELAY_QUEUE` x [`DWELL`] = 4 s per hop" (rotation.rs:63-64).  A turn
\* lasts a dwell, so no relay is ever passed over by more than RELAY_QUEUE turns.
DocumentedRelayLatency ==
  \A i \in DOMAIN waits : waits[i] <= RELAY_QUEUE
============================================================================
