------------------------------ MODULE Rotation ------------------------------
(***************************************************************************)
(* The airtime rotation, crates/poholos/src/rotation.rs: which frame holds *)
(* the single advertising slot for the next dwell.  One action per method. *)
(* The pending relays are the abstract shed-oldest FIFO that module        *)
(* RelayRing shows the array implementation to be.                         *)
(***************************************************************************)
EXTENDS ShedQueue

CONSTANTS
  Frames,                   \* encoded frames
  NoFrame,                  \* Option::None
  OWN_DWELLS,               \* turns granted to an own message (20)
  RELAY_QUEUE               \* relays awaiting airtime (8)

ASSUME FrameAssumption == NoFrame \notin Frames
ASSUME BudgetAssumption == OWN_DWELLS \in Nat \ {0}
ASSUME QueueAssumption == RELAY_QUEUE \in Nat \ {0}

VARIABLES
  own,                      \* the local user's frame in rotation, or NoFrame
  dwells_left,              \* its remaining turns, 0 iff there is none
  relays,                   \* frames waiting to be relayed, oldest first
  last_was_own,             \* whether the last frame served was the own one
  turn                      \* what the last next_frame returned

rotation == <<own, dwells_left, relays, last_was_own>>
vars == <<rotation, turn>>

\* RotationN::new
Init ==
  /\ own = NoFrame
  /\ dwells_left = 0
  /\ relays = << >>
  /\ last_was_own = FALSE
  /\ turn = NoFrame

\* Mutant of EnqueueOwn: the new message inherits what is left of the budget
\* of the one it supersedes.
EnqueueOwnInheriting(frame) ==
  /\ own' = frame
  /\ dwells_left' = IF own = NoFrame THEN OWN_DWELLS ELSE dwells_left
  /\ UNCHANGED <<relays, last_was_own, turn>>

\* A newly originated message supersedes the previous one.
EnqueueOwn(frame) ==
  /\ own' = frame
  /\ dwells_left' = OWN_DWELLS
  /\ UNCHANGED <<relays, last_was_own, turn>>

EnqueueRelay(frame) ==
  /\ relays' = PushShedding(relays, frame, RELAY_QUEUE)
  /\ UNCHANGED <<own, dwells_left, last_was_own, turn>>

\* Mutant of RelayTurn: relays are served whenever some are waiting.
RelaysFirst == relays # << >>

\* Mutant of RelayTurn: relays are served only once the own message is done.
OwnFirst == relays # << >> /\ own = NoFrame

\* Own and relay turns alternate while both have something to air.
RelayTurn == relays # << >> /\ (last_was_own \/ own = NoFrame)

ServeRelay ==
  /\ RelayTurn
  /\ turn' = Head(relays)
  /\ relays' = Tail(relays)
  /\ last_was_own' = FALSE
  /\ UNCHANGED <<own, dwells_left>>

ServeOwn ==
  /\ ~ RelayTurn
  /\ own # NoFrame
  /\ turn' = own
  /\ last_was_own' = TRUE
  /\ dwells_left' = dwells_left - 1
  /\ own' = IF dwells_left = 1 THEN NoFrame ELSE own
  /\ UNCHANGED relays

\* Nothing is waiting: the driver may sleep.
ServeNothing ==
  /\ ~ RelayTurn
  /\ own = NoFrame
  /\ turn' = NoFrame
  /\ UNCHANGED rotation

NextFrame == ServeRelay \/ ServeOwn \/ ServeNothing

Next ==
  \/ NextFrame
  \/ \E frame \in Frames : EnqueueOwn(frame) \/ EnqueueRelay(frame)

Spec == Init /\ [][Next]_vars

\* The own message is in rotation exactly while it has turns left, so the
\* u32 subtraction in next_frame cannot underflow; no more than RELAY_QUEUE
\* relays ever wait.
TypeOK ==
  /\ own \in Frames \cup {NoFrame}
  /\ dwells_left \in 0 .. OWN_DWELLS
  /\ own = NoFrame <=> dwells_left = 0
  /\ relays \in Seq(Frames)
  /\ Len(relays) <= RELAY_QUEUE
  /\ last_was_own \in BOOLEAN
  /\ turn \in Frames \cup {NoFrame}
============================================================================
