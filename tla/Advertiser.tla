----------------------------- MODULE Advertiser -----------------------------
(***************************************************************************)
(* The task that owns the radio slot: `advertise_loop` of                  *)
(* crates/poholos-cli/src/transport/ble/mod.rs over the three platform     *)
(* advertisers, and the same loop in the `advertise` arm of                *)
(* crates/poholos-microbit/src/radio.rs.  It composes the airtime rotation *)
(* with the bounded channel the chat loop sends through and with the       *)
(* registrations the platform stack holds, any of which may fail.          *)
(*                                                                         *)
(* Every await of the loop is a state of its own (`at`), so the chat loop  *)
(* and the transport's end interleave with it there and nowhere else.      *)
(***************************************************************************)
EXTENDS Rotation

CONSTANTS
  OwnFrames,                \* frames the user may send
  RelayFrames,              \* frames the router may forward
  SEND_QUEUE,               \* capacity of the channel (16; OUTGOING is 8)
  Platforms,                \* the advertisers compiled in
  MaxFailures               \* bound: refusals of the platform in one run

ASSUME SendQueueAssumption == SEND_QUEUE \in Nat \ {0}
ASSUME PlatformAssumption == Platforms \subseteq {"linux", "macos", "windows"}
ASSUME SendableAssumption == OwnFrames \cup RelayFrames \subseteq Frames
ASSUME FailuresAssumption == MaxFailures \in Nat

VARIABLES
  at,                       \* where the loop is waiting
  channel,                  \* Outgoing values sent and not yet received
  dropped,                  \* the transport, the only sender, is gone
  on_air,                   \* the loop's belief of the frame on air
  platform,                 \* whose set_frame this is
  held,                     \* the registrations the advertiser holds
  strays,                   \* those it has let go of and the stack has not
                            \* retired yet
  failures                  \* refusals so far

\* The frames a neighbour can hear.
Air == held \cup strays

link == <<channel, dropped>>
radio == <<on_air, held, strays, failures>>
avars == <<vars, at, link, radio, platform>>

Outgoing == [class : {"own"}, frame : OwnFrames]
              \cup [class : {"relay"}, frame : RelayFrames]

AInit ==
  /\ Init
  /\ at = "turn"
  /\ channel = << >>
  /\ dropped = FALSE
  /\ on_air = NoFrame
  /\ held = {}
  /\ strays = {}
  /\ platform \in Platforms
  /\ failures = 0

----------------------------------------------------------------------------
(***************************************************************************)
(* The chat loop.                                                          *)
(***************************************************************************)

\* send_own and send_relay complete only while the channel has room: a chat
\* loop that finds it full waits.  A frame over the platform's budget never
\* gets this far, so OwnFrames and RelayFrames are the frames that fit.
Send(out) ==
  /\ ~ dropped
  /\ Len(channel) < SEND_QUEUE
  /\ channel' = Append(channel, out)
  /\ UNCHANGED <<vars, at, dropped, radio, platform>>

DropTransport ==
  /\ ~ dropped
  /\ dropped' = TRUE
  /\ UNCHANGED <<vars, at, channel, radio, platform>>

----------------------------------------------------------------------------
(***************************************************************************)
(* The loop.                                                               *)
(***************************************************************************)

\* The top of the loop up to the first await: a turn of the rotation, and
\* registering is skipped when the same frame is believed on air.
TakeTurn ==
  /\ at = "turn"
  /\ NextFrame
  /\ at' = CASE turn' = NoFrame -> "idle"
             [] turn' # NoFrame /\ on_air = turn' -> "dwell"
             [] OTHER -> "stop"
  /\ UNCHANGED <<link, radio, platform>>

\* enqueue: by class into the rotation.
Enqueue(out) ==
  \/ out.class = "own" /\ EnqueueOwn(out.frame)
  \/ out.class = "relay" /\ EnqueueRelay(out.frame)

\* Mutant of Receive: the idle branch sleeps without listening.
ReceiveOnlyInDwell ==
  /\ at = "dwell"
  /\ channel # << >>
  /\ Enqueue(Head(channel))
  /\ channel' = Tail(channel)
  /\ UNCHANGED <<at, dropped, radio, platform>>

\* rx.recv() yields a value, whether the loop sleeps or holds the slot.
Receive ==
  /\ at \in {"idle", "dwell"}
  /\ channel # << >>
  /\ Enqueue(Head(channel))
  /\ channel' = Tail(channel)
  /\ at' = IF at = "idle" THEN "turn" ELSE at
  /\ UNCHANGED <<dropped, radio, platform>>

\* The advertiser no longer holds its registration.  On the lingering
\* platforms the stack retires it in its own time.
LetGo(lingering) ==
  /\ held' = {}
  /\ strays' = IF platform \in lingering THEN strays \cup held ELSE strays

\* rx.recv() yields None only once the sender is gone and nothing is left; the
\* loop returns and the advertiser is dropped, which unregisters with BlueZ.
Finish ==
  /\ at \in {"idle", "dwell"}
  /\ dropped /\ channel = << >>
  /\ at' = "done"
  /\ LetGo({"macos", "windows"})
  /\ UNCHANGED <<vars, link, on_air, failures, platform>>

DwellEnds ==
  /\ at = "dwell"
  /\ at' = "turn"
  /\ UNCHANGED <<vars, link, radio, platform>>

----------------------------------------------------------------------------
(***************************************************************************)
(* set_frame of the platforms: retire the old advertisement, then register *)
(* the new one, then record_on_air.                                        *)
(***************************************************************************)

\* Mutant of RecordOnAir: a failed registration keeps the old belief.
RecordOnAirOnSuccess(registered) == IF registered THEN turn ELSE on_air

\* record_on_air: the belief after a set_frame attempt.
RecordOnAir(registered) == IF registered THEN turn ELSE NoFrame

\* Mutant of StopOld: the old handle is only replaced, as with a trailing
\* `self.current = Some(handle)`.
StopOldNever ==
  /\ at = "stop"
  /\ at' = "start"
  /\ UNCHANGED <<vars, link, radio, platform>>

\* The old advertisement is retired.  Dropping the BlueZ handle cannot fail and
\* neither can stopping nothing; Stop() of WinRT completes in its own time.
StopOld ==
  /\ at = "stop"
  /\ at' = "start"
  /\ LetGo({"windows"})
  /\ UNCHANGED <<vars, link, on_air, failures, platform>>

\* stop_advertising or Stop() is refused and set_frame returns the error.
\* CoreBluetooth keeps the old advertisement; the Windows publisher has been
\* taken out of the advertiser and is dropped.
StopFails ==
  /\ at = "stop"
  /\ held # {}
  /\ failures < MaxFailures
  /\ \/ platform = "macos" /\ UNCHANGED <<held, strays>>
     \/ platform = "windows" /\ LetGo({"windows"})
  /\ on_air' = RecordOnAir(FALSE)
  /\ failures' = failures + 1
  /\ at' = "dwell"
  /\ UNCHANGED <<vars, link, platform>>

StartNew ==
  /\ at = "start"
  /\ held' = held \cup {turn}
  /\ on_air' = RecordOnAir(TRUE)
  /\ at' = "dwell"
  /\ UNCHANGED <<vars, link, strays, failures, platform>>

StartFails ==
  /\ at = "start"
  /\ failures < MaxFailures
  /\ on_air' = RecordOnAir(FALSE)
  /\ failures' = failures + 1
  /\ at' = "dwell"
  /\ UNCHANGED <<vars, link, held, strays, platform>>

\* The stack retires a registration nobody holds.
Retire(frame) ==
  /\ frame \in strays
  /\ strays' = strays \ {frame}
  /\ UNCHANGED <<vars, at, link, on_air, held, failures, platform>>

SetFrame == StopOld \/ StopFails \/ StartNew \/ StartFails

\* The loop has returned and nothing is left to happen.
Stopped == at = "done" /\ UNCHANGED avars

Loop == TakeTurn \/ Receive \/ Finish \/ DwellEnds \/ SetFrame

ANext ==
  \/ Loop
  \/ \E out \in Outgoing : Send(out)
  \/ DropTransport
  \/ \E frame \in Frames : Retire(frame)
  \/ Stopped

ASpec == AInit /\ [][ANext]_avars

\* The runtime polls the task: an awaited call returns, and a dwell timer that
\* has expired stays ready beside a channel that never runs dry, of which
\* select! cannot pick the channel forever.  Nothing is assumed of the chat
\* loop.
FairASpec ==
  /\ ASpec
  /\ WF_avars(Loop)
  /\ WF_avars(DwellEnds)

----------------------------------------------------------------------------
ATypeOK ==
  /\ TypeOK
  /\ at \in {"turn", "idle", "stop", "start", "dwell", "done"}
  /\ channel \in Seq(Outgoing) /\ Len(channel) <= SEND_QUEUE
  /\ dropped \in BOOLEAN
  /\ on_air \in Frames \cup {NoFrame}
  /\ held \subseteq Frames /\ strays \subseteq Frames
  /\ platform \in Platforms
  /\ failures \in 0 .. MaxFailures

\* The guard that skips a registration trusts on_air (ble/mod.rs:215-223):
\* whenever the loop reads the belief, the advertiser holds the frame it names,
\* and a dwell either airs the frame whose turn it is or follows a refusal.
BeliefIsTrue ==
  /\ ATypeOK
  /\ at \in {"turn", "idle", "dwell"} /\ on_air # NoFrame => on_air \in held
  /\ at = "dwell" => on_air \in {turn, NoFrame}

\* One frame holds the slot, whatever fails: registrations never overlap, save
\* for the publishers that Windows is still retiring (windows.rs:23-28).
OneAdvertisement ==
  \A f, g \in IF platform = "windows" THEN held ELSE Air : f = g

\* What the alternation buys the user (rotation.rs:19-23) through the loop: a
\* message the chat loop has sent gets on air, however many relays compete
\* and however they interleave with the dwells, as long as the platform
\* refuses fewer registrations than the message has turns.  It may be
\* superseded by a newer one, or cut off by the transport's end.
OwnGetsOnAir ==
  \A frame \in OwnFrames :
    (\E i \in DOMAIN channel : channel[i] = [class |-> "own", frame |-> frame])
      ~> (frame \in held \/ dropped \/ own \in OwnFrames \ {frame})

\* The chat loop is never left waiting on a full channel.
SenderIsReleased == (Len(channel) = SEND_QUEUE) ~> (Len(channel) < SEND_QUEUE \/ dropped)

\* "Burn this dwell idle, and let the next turn retry" (ble/mod.rs:183-184, and
\* 221-223: "retry the same frame next turn"): after a refusal the frame is
\* still in the rotation, so a later turn can offer it again.
RefusedFrameIsRetried ==
  at = "dwell" /\ on_air = NoFrame =>
    turn = own \/ \E i \in DOMAIN relays : relays[i] = turn

\* "A failed registration leaves the radio advertising nothing" (ble/mod.rs:
\* 218-220).
RefusalLeavesSilence == at = "dwell" /\ on_air = NoFrame => Air = {}
============================================================================
