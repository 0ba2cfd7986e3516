----------------------------- MODULE RelayRing -----------------------------
(***************************************************************************)
(* struct RelayRing, crates/poholos/src/rotation.rs: the allocation-free   *)
(* ring holding the pending relays, with its modular index arithmetic.     *)
(***************************************************************************)
EXTENDS Naturals

CONSTANTS Frames, NoFrame, RELAY_QUEUE

VARIABLES
  slots,                    \* RELAY_QUEUE frames; FrameN::EMPTY is NoFrame
  head,                     \* physical index of the oldest pending relay
  len,
  popped                    \* what the last pop_front returned

vars == <<slots, head, len, popped>>

Slots == 0 .. RELAY_QUEUE - 1

Init ==
  /\ slots = [p \in Slots |-> NoFrame]
  /\ head = 0
  /\ len = 0
  /\ popped = NoFrame

\* Mutant of Shed: the head is not moved past the shed frame.
ShedNewest(h, l) == IF l = RELAY_QUEUE THEN <<h, l - 1>> ELSE <<h, l>>

\* The pair of head and len after making room for one frame: a full ring
\* sheds the oldest.
Shed(h, l) ==
  IF l = RELAY_QUEUE THEN <<(h + 1) % RELAY_QUEUE, l - 1>> ELSE <<h, l>>

PushBack(frame) ==
  LET room == Shed(head, len)
  IN  /\ slots' = [slots EXCEPT ![(room[1] + room[2]) % RELAY_QUEUE] = frame]
      /\ head' = room[1]
      /\ len' = room[2] + 1
      /\ UNCHANGED popped

\* The rotation asks only a ring that is not empty (next_frame).
PopFront ==
  /\ len > 0
  /\ popped' = slots[head]
  /\ head' = (head + 1) % RELAY_QUEUE
  /\ len' = len - 1
  /\ UNCHANGED slots

----------------------------------------------------------------------------
\* The indices stay inside the array and every pending slot holds a frame:
\* the EMPTY filler of a slot never written is never served.
TypeOK ==
  /\ slots \in [Slots -> Frames \cup {NoFrame}]
  /\ head \in Slots
  /\ len \in 0 .. RELAY_QUEUE
  /\ popped \in Frames \cup {NoFrame}
  /\ \A k \in 0 .. len - 1 : slots[(head + k) % RELAY_QUEUE] \in Frames

\* The pending frames, oldest first.
Pending == [i \in 1 .. len |-> slots[(head + i - 1) % RELAY_QUEUE]]

Queue == INSTANCE RelayQueue WITH relays <- Pending

\* The ring is the shed-oldest FIFO across every wrap of its indices: frames
\* are served in the order they were pushed, once each, and a push onto a full
\* ring costs the oldest frame and no other.
RefinesRelayQueue == Queue!Spec
============================================================================
