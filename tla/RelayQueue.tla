---------------------------- MODULE RelayQueue -----------------------------
(***************************************************************************)
(* What the rotation expects of its pending relays (the comment on struct  *)
(* RelayRing, crates/poholos/src/rotation.rs): a FIFO of RELAY_QUEUE       *)
(* frames in which pushing onto a full queue sheds the oldest.             *)
(***************************************************************************)
EXTENDS ShedQueue

CONSTANTS Frames, NoFrame, RELAY_QUEUE

VARIABLES
  relays,                   \* the waiting frames, oldest first
  popped                    \* what the last pop_front returned

vars == <<relays, popped>>

Init == relays = << >> /\ popped = NoFrame

PushBack(frame) ==
  /\ relays' = PushShedding(relays, frame, RELAY_QUEUE)
  /\ UNCHANGED popped

PopFront ==
  /\ relays # << >>
  /\ popped' = Head(relays)
  /\ relays' = Tail(relays)

Next == PopFront \/ \E frame \in Frames : PushBack(frame)

Spec == Init /\ [][Next]_vars
============================================================================
