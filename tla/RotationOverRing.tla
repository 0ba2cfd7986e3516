-------------------------- MODULE RotationOverRing --------------------------
(***************************************************************************)
(* The rotation driving the array that really holds its relays: every     *)
(* enqueue_relay is a push_back of the ring, every relay turn a pop_front, *)
(* crates/poholos/src/rotation.rs.  The abstract queue of module Rotation  *)
(* runs beside it, and what the two serve is compared.                     *)
(***************************************************************************)
EXTENDS RotationTurns

VARIABLES slots, head, len, popped

ring == <<slots, head, len, popped>>
bvars == <<tvars, ring>>

Ring == INSTANCE RelayRing

BInit == TInit /\ Ring!Init

BNext ==
  \/ TServeRelay /\ Ring!PopFront
  \/ (TServeOwn \/ TServeNothing) /\ UNCHANGED ring
  \/ \E frame \in Frames :
       \/ TEnqueueOwn(frame) /\ UNCHANGED ring
       \/ TEnqueueRelay(frame) /\ Ring!PushBack(frame)

BSpec == BInit /\ [][BNext]_bvars

\* The ring is the shed-oldest FIFO across every wrap of its indices: frames
\* are served in the order they were pushed, once each, and a push onto a full
\* ring costs the oldest frame and no other (struct RelayRing).
RefinesRelayQueue == Ring!RefinesRelayQueue

\* What next_frame returns on a relay turn is the frame the array gives up, and
\* the frames in the array are the ones waiting in the rotation: is_empty and
\* pop_front never disagree about whether a relay is due, the indices stay
\* inside the array, and the EMPTY filler of a slot is never served.
RingFeedsTurns ==
  /\ Ring!TypeOK
  /\ relays = Ring!Pending
  /\ turn # NoFrame /\ ~ last_was_own => turn = popped
============================================================================
