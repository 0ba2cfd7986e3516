----------------------------- MODULE BoardRadio -----------------------------
(***************************************************************************)
(* The radio of a board, radio.rs of crates/poholos-microbit and, the same *)
(* file, of crates/poholos-microbit-morse: the scan handler that fills     *)
(* RX_FRAMES from the event context of the host, and the advertise arm     *)
(* that rotates the advertising slot through the frames from OUTGOING.     *)
(* The executor is cooperative: tasks interleave at their awaits only.     *)
(***************************************************************************)
EXTENDS Rotation

CONSTANTS
  RX_FRAMES,                \* capacities of the channels (8, 8)
  OUTGOING,
  MaxFailures               \* bound: refusals of the controller in one run

VARIABLES
  rx_frames,                \* frames heard and not yet routed
  outgoing,                 \* Outgoing values awaiting the rotation
  at,                       \* where the advertise arm waits
  on_air,                   \* its belief of the frame on air
  held,                     \* the frame behind its handle, or none
  strays,                   \* dropped and not yet retired by the host
  failures

arm == <<vars, at, on_air, held, failures>>
radio == <<arm, strays, outgoing, rx_frames>>

RInit ==
  /\ Init
  /\ rx_frames = << >> /\ outgoing = << >>
  /\ at = "turn" /\ on_air = NoFrame /\ held = {} /\ strays = {} /\ failures = 0

\* on_ext_adv_reports: it must not block, so the oldest frame is shed.
OnReport(frame) ==
  /\ rx_frames' = PushShedding(rx_frames, frame, RX_FRAMES)
  /\ UNCHANGED <<arm, strays, outgoing>>

\* enqueue
Enqueue(out) ==
  \/ out.class = "own" /\ EnqueueOwn(out.frame)
  \/ out.class = "relay" /\ EnqueueRelay(out.frame)

\* The top of the loop.  A frame that is not on air yet has the handle of the
\* previous one dropped, of which the host retires the advertisement.
TakeTurn ==
  /\ at = "turn"
  /\ NextFrame
  /\ LET replaces == turn' \notin {NoFrame, on_air}
     IN  /\ at' = CASE replaces -> "start" [] turn' = NoFrame -> "idle" [] OTHER -> "dwell"
         /\ held' = IF replaces THEN {} ELSE held
         /\ strays' = IF replaces THEN strays \cup held ELSE strays
  /\ UNCHANGED <<on_air, failures, outgoing, rx_frames>>

\* OUTGOING.receive() yields a frame, in the idle branch or during the dwell.
Receive ==
  /\ at \in {"idle", "dwell"} /\ outgoing # << >>
  /\ Enqueue(Head(outgoing))
  /\ outgoing' = Tail(outgoing)
  /\ at' = IF at = "idle" THEN "turn" ELSE at
  /\ UNCHANGED <<on_air, held, strays, failures, rx_frames>>

\* advertise_ext succeeds, once the one advertising set is free.
Advertise ==
  /\ at = "start" /\ strays = {}
  /\ held' = {turn} /\ on_air' = turn /\ at' = "dwell"
  /\ UNCHANGED <<vars, strays, failures, outgoing, rx_frames>>

\* Mutant of AdvertiseFails: the belief is kept.
AdvertiseFailsUnnoticed ==
  /\ at = "start" /\ failures < MaxFailures
  /\ failures' = failures + 1 /\ at' = "dwell"
  /\ UNCHANGED <<vars, on_air, held, strays, outgoing, rx_frames>>

\* It fails: the belief is cleared and the dwell is spent with nothing new on
\* air.
AdvertiseFails ==
  /\ at = "start" /\ failures < MaxFailures
  /\ failures' = failures + 1 /\ on_air' = NoFrame /\ at' = "dwell"
  /\ UNCHANGED <<vars, held, strays, outgoing, rx_frames>>

\* The timer of the dwell, which select polls first.
DwellEnds ==
  /\ at = "dwell" /\ at' = "turn"
  /\ UNCHANGED <<vars, on_air, held, strays, failures, outgoing, rx_frames>>

\* The host runner takes the dropped advertisement off air.
Retire ==
  /\ strays # {} /\ strays' = {}
  /\ UNCHANGED <<arm, outgoing, rx_frames>>

Arm == TakeTurn \/ Receive \/ Advertise \/ AdvertiseFails \/ DwellEnds
============================================================================
