------------------------------- MODULE Reader -------------------------------
(***************************************************************************)
(* The task behind a transport that fills the channel of received frames:  *)
(* read_loop of crates/poholos-cli/src/transport/udp.rs or scan_loop of    *)
(* crates/poholos-cli/src/transport/ble/scan.rs.  Both wait for room in    *)
(* the channel, and both end when the transport is dropped; the first also *)
(* gives up on its socket, the second when the event stream ends.          *)
(***************************************************************************)
EXTENDS Naturals, Sequences

CONSTANTS
  RECV_QUEUE,                   \* capacity of the channel (64)
  MAX_CONSECUTIVE_RECV_ERRORS   \* failures in a row that mean a dead socket (64)

ASSUME ReaderAssumption ==
  RECV_QUEUE \in Nat \ {0} /\ MAX_CONSECUTIVE_RECV_ERRORS \in Nat \ {0}

VARIABLES
  transport,                \* "udp" or "ble"
  platform,                 \* what it runs on
  reader,                   \* "running" or "gone"
  consecutive_errors,
  pending,                  \* frames of one reception still to be sent
  rx,                       \* the channel
  owed,                     \* frames received and not yet handled
  outcomes                  \* of every reception so far

rvars == <<transport, platform, reader, consecutive_errors, pending, rx, owed, outcomes>>

\* The reader is at the top of its loop.
Listening == reader = "running" /\ pending = << >>

\* recv_from fails: again, or enough of it.
ReceiveError ==
  /\ transport = "udp" /\ Listening
  /\ consecutive_errors' = consecutive_errors + 1
  /\ reader' = IF consecutive_errors' >= MAX_CONSECUTIVE_RECV_ERRORS THEN "gone" ELSE "running"
  /\ outcomes' = Append(outcomes, "error")
  /\ UNCHANGED <<transport, platform, pending, rx, owed>>

\* Mutant of ReceiveOversized: only a frame ends a run of errors.
ReceiveOversizedSilently ==
  /\ transport = "udp" /\ platform # "windows" /\ Listening
  /\ outcomes' = Append(outcomes, "success")
  /\ UNCHANGED <<transport, platform, reader, consecutive_errors, pending, rx, owed>>

\* A datagram larger than a frame: cut to the buffer and dropped by copy_from,
\* but a success; on Windows it is an error.
ReceiveOversized ==
  /\ transport = "udp" /\ platform # "windows" /\ Listening
  /\ consecutive_errors' = 0
  /\ outcomes' = Append(outcomes, "success")
  /\ UNCHANGED <<transport, platform, reader, pending, rx, owed>>

\* A datagram that fits a frame.
ReceiveDatagram(frame) ==
  /\ transport = "udp" /\ Listening
  /\ consecutive_errors' = 0
  /\ outcomes' = Append(outcomes, "success")
  /\ pending' = <<frame>>
  /\ owed' = Append(owed, frame)
  /\ UNCHANGED <<transport, platform, reader, rx>>

\* A scan event with frames of ours in it: manufacturer data holds one, a list
\* of service UUIDs any number, and the properties WinRT keeps hold both.
ScanEvent(frames) ==
  /\ transport = "ble" /\ Listening
  /\ outcomes' = Append(outcomes, "success")
  /\ pending' = frames
  /\ owed' = owed \o frames
  /\ UNCHANGED <<transport, platform, reader, consecutive_errors, rx>>

\* The event stream ends with the adapter.
EventsEnd ==
  /\ transport = "ble" /\ Listening
  /\ reader' = "gone"
  /\ UNCHANGED <<transport, platform, consecutive_errors, pending, rx, owed, outcomes>>

\* Mutant of Push: a frame that finds the channel full is dropped.
PushOrDrop ==
  /\ pending # << >>
  /\ rx' = IF Len(rx) < RECV_QUEUE THEN Append(rx, Head(pending)) ELSE rx
  /\ pending' = Tail(pending)
  /\ UNCHANGED <<transport, platform, reader, consecutive_errors, owed, outcomes>>

\* tx.send(frame).await has room ...
Push ==
  /\ pending # << >> /\ Len(rx) < RECV_QUEUE
  /\ rx' = Append(rx, Head(pending))
  /\ pending' = Tail(pending)
  /\ UNCHANGED <<transport, platform, reader, consecutive_errors, owed, outcomes>>

\* ... or finds the transport dropped.
PushFails ==
  /\ pending # << >>
  /\ reader' = "gone"
  /\ pending' = << >>
  /\ UNCHANGED <<transport, platform, consecutive_errors, rx, owed, outcomes>>
============================================================================
