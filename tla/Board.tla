------------------------------- MODULE Board -------------------------------
(***************************************************************************)
(* The tasks of a board around its radio: the router task and the tasks    *)
(* of the buttons, the display and the speaker, joined by bounded          *)
(* channels, in crates/poholos-microbit/src/main.rs and, with the Morse    *)
(* composer in place of the buttons, crates/poholos-microbit-morse/src/    *)
(* main.rs.                                                                *)
(*                                                                         *)
(* An await is a state of its own; select polls its first branch first.    *)
(* How long a message scrolls or a note sounds is left open, and so is     *)
(* whether it ever ends.                                                   *)
(***************************************************************************)
EXTENDS BoardRadio

CONSTANTS
  Boards,                   \* subset of {"microbit", "morse"}
  REQUESTS,                 \* capacity of BUTTONS, or of COMPOSE (4)
  DISPLAY_MSGS, GLYPHS,     \* 4, 8
  CHIMES, SIDETONE,         \* 2, 8
  Local, Buddy, Strangers,  \* the node, its buddy, other nodes
  Everyone,
  Incoming,                 \* packets of others on air
  Noise,                    \* a frame under our company id that does not decode
  SEQ_MOD,                  \* sequence numbers (2^16)
  SEEN_CAPACITY, DEFAULT_TTL,
  MaxActivity               \* bound on reports, presses and keyed elements

ASSUME ChannelsAssumption ==
  /\ {RX_FRAMES, OUTGOING, REQUESTS, DISPLAY_MSGS, GLYPHS, CHIMES, SIDETONE} \subseteq Nat \ {0}
  /\ SEQ_MOD \in Nat \ {0}
  /\ MaxFailures \in Nat /\ MaxActivity \in Nat

VARIABLES
  board,
  button,                   \* each request's source: "ready", or about to send
  requests,                 \* BUTTONS, or COMPOSE
  seen,                     \* the router's cache
  seq,                      \* the next number, or {} before the first request
  sending,                  \* what the router task waits to put into OUTGOING
  display_msgs,             \* numbers of the messages waiting to scroll
  glyphs,                   \* how many glyphs wait to be flashed
  display,                  \* "busy" or "free"
  chimes, sidetone,         \* how many chimes and tones wait
  speaker,                  \* "busy" or "free"
  taps, reports, keyed,     \* how often the environment acted
  submitted,                \* history: the requests in the order they were sent
  originated,               \* history: the messages made of them
  delivered,                \* history: number of messages given to the display
  scrolled,                 \* history: the last one it took
  unannounced               \* history: telegrams to this node since a chime began

queues == <<button, requests, taps, submitted>>
brain == <<seen, seq, sending, originated>>
screen == <<display_msgs, glyphs, display, delivered, scrolled>>
sound == <<chimes, sidetone, speaker, unannounced>>
bvars == <<radio, queues, brain, screen, sound, board, reports, keyed>>

R == INSTANCE Router WITH Nodes <- {Local, Buddy} \cup Strangers

\* Frames has what is on air, what is relayed of it, and what this node writes.
ASSUME ClosureAssumption ==
  /\ Incoming \subseteq Frames
  /\ \A frame \in Frames : R!MayHop(frame) => R!Hopped(frame) \in Frames
  /\ \A dest \in {Buddy, Everyone}, k \in 0 .. SEQ_MOD - 1, r \in {"A", "B", "text"} :
       R!NewPacket([src |-> Local, dest |-> dest, id |-> <<k, r>>]) \in Frames

\* Who sends requests: two button tasks, or compose_task.
Sources == IF board = "microbit" THEN {"A", "B"} ELSE {"text"}

BInit ==
  /\ RInit
  /\ board \in Boards
  /\ button = [b \in {"A", "B", "text"} |-> "ready"]
  /\ requests = << >> /\ submitted = << >> /\ originated = << >> /\ taps = 0
  /\ seen = R!EmptyCache /\ seq = {} /\ sending = << >>
  \* The display begins with the name of the node.
  /\ display = "busy" /\ display_msgs = << >> /\ glyphs = 0
  /\ delivered = 0 /\ scrolled = 0
  /\ chimes = 0 /\ sidetone = 0 /\ speaker = "free" /\ unannounced = 0
  /\ reports = 0 /\ keyed = 0

MayGoOn == taps + reports + keyed < MaxActivity

----------------------------------------------------------------------------
(***************************************************************************)
(* The outside, and the tasks that wait for it.                            *)
(***************************************************************************)

\* An advertisement of ours is reported; an echo of this node's too.
Hear ==
  /\ MayGoOn /\ reports' = reports + 1
  /\ \E frame \in Incoming \cup held \cup {Noise} : OnReport(frame)
  /\ UNCHANGED <<queues, brain, screen, sound, board, keyed>>

\* A button is pressed, or a composed message finished ...
Press(b) ==
  /\ MayGoOn /\ taps' = taps + 1
  /\ button[b] = "ready" /\ button' = [button EXCEPT ![b] = "pressed"]
  /\ UNCHANGED <<requests, submitted, radio, brain, screen, sound, board, reports, keyed>>

\* ... and its task sends it once there is room.  A press meanwhile is not
\* seen.
Submit(b) ==
  /\ button[b] = "pressed" /\ Len(requests) < REQUESTS
  /\ button' = [button EXCEPT ![b] = "ready"]
  /\ requests' = Append(requests, b)
  /\ submitted' = Append(submitted, b)
  /\ UNCHANGED <<taps, radio, brain, screen, sound, board, reports, keyed>>

\* compose_task shows a glyph for what is keyed, and plays a tone if it is an
\* element it accepts; what finds its channel full is dropped.  It does not
\* while it waits to send a message.
Key ==
  /\ board = "morse" /\ button["text"] = "ready"
  /\ MayGoOn /\ keyed' = keyed + 1
  /\ glyphs' = IF glyphs < GLYPHS THEN glyphs + 1 ELSE glyphs
  /\ sidetone' \in {sidetone, IF sidetone < SIDETONE THEN sidetone + 1 ELSE sidetone}
  /\ UNCHANGED <<display_msgs, display, delivered, scrolled, chimes, speaker, unannounced>>
  /\ UNCHANGED <<radio, queues, brain, board, reports>>

----------------------------------------------------------------------------
(***************************************************************************)
(* router_task.                                                            *)
(***************************************************************************)

\* Mutant of EnqueueDisplay: it waits for room.
EnqueueDisplayWaiting ==
  /\ Len(display_msgs) < DISPLAY_MSGS
  /\ delivered' = delivered + 1
  /\ display_msgs' = Append(display_msgs, delivered')
  /\ UNCHANGED <<glyphs, display, scrolled>>

\* Mutant of EnqueueDisplay: a full channel refuses the newest message.
EnqueueDisplayRefusing ==
  /\ delivered' = delivered + 1
  /\ display_msgs' = IF Len(display_msgs) < DISPLAY_MSGS
                     THEN Append(display_msgs, delivered') ELSE display_msgs
  /\ UNCHANGED <<glyphs, display, scrolled>>

\* enqueue_display: sheds the oldest.
EnqueueDisplay ==
  /\ delivered' = delivered + 1
  /\ display_msgs' = PushShedding(display_msgs, delivered', DISPLAY_MSGS)
  /\ UNCHANGED <<glyphs, display, scrolled>>

\* Mutant of Chime: a full channel is emptied instead.
ChimeToggling ==
  /\ chimes' = IF chimes < CHIMES THEN chimes + 1 ELSE 0
  /\ unannounced' = unannounced + 1
  /\ UNCHANGED <<sidetone, speaker>>

\* CHIMES.try_send: a chime that is already pending covers this telegram.
Chime ==
  /\ chimes' = IF chimes < CHIMES THEN chimes + 1 ELSE chimes
  /\ unannounced' = unannounced + 1
  /\ UNCHANGED <<sidetone, speaker>>

\* deliver
Deliver(packet) ==
  /\ IF packet.msg.dest = Local THEN Chime ELSE UNCHANGED sound
  /\ EnqueueDisplay

\* A frame heard is routed, before any request is looked at.  Noise does not
\* decode.
RouteFrame ==
  /\ sending = << >> /\ rx_frames # << >>
  /\ LET frame == Head(rx_frames)
     IN  IF frame = Noise THEN UNCHANGED <<brain, screen, sound>>
         ELSE /\ seen' = R!CacheAfter(Local, seen, frame)
              /\ sending' = IF R!Forwards(Local, seen, frame)
                            THEN <<[class |-> "relay", frame |-> R!Hopped(frame)]>> ELSE << >>
              /\ IF R!Delivers(Local, seen, frame) THEN Deliver(frame)
                 ELSE UNCHANGED <<screen, sound>>
              /\ UNCHANGED <<seq, originated>>
  /\ rx_frames' = Tail(rx_frames)
  /\ UNCHANGED <<arm, strays, outgoing, queues, board, reports, keyed>>

\* Mutant of FirstSeq: the clock is asked every time.
FirstSeqAlways == 0 .. SEQ_MOD - 1

\* The number of the message: for the first the uptime tick.
FirstSeq == IF seq = {} THEN 0 .. SEQ_MOD - 1 ELSE seq

\* A request becomes a message: button A a telegram to the buddy, the others
\* a broadcast.
RouteRequest ==
  /\ sending = << >> /\ rx_frames = << >> /\ requests # << >>
  /\ \E next \in FirstSeq :
       LET packet == R!NewPacket([src |-> Local,
                                  dest |-> IF Head(requests) = "A" THEN Buddy ELSE Everyone,
                                  id |-> <<next, Head(requests)>>])
       IN  /\ seq' = {(next + 1) % SEQ_MOD}
           /\ seen' = R!Insert(seen, R!Key(packet))
           /\ sending' = <<[class |-> "own", frame |-> packet]>>
           /\ originated' = Append(originated, packet)
  /\ requests' = Tail(requests)
  /\ UNCHANGED <<button, taps, submitted, radio, screen, sound, board, reports, keyed>>

\* OUTGOING has room for what the router task sends; the micro:bit then echoes
\* its own message on the display.
SendOut ==
  /\ sending # << >> /\ Len(outgoing) < OUTGOING
  /\ outgoing' = Append(outgoing, Head(sending))
  /\ IF board = "microbit" /\ Head(sending).class = "own" THEN EnqueueDisplay
     ELSE UNCHANGED screen
  /\ sending' = << >>
  /\ UNCHANGED <<seen, seq, originated, arm, strays, rx_frames>>
  /\ UNCHANGED <<queues, sound, board, reports, keyed>>

RouterTask == RouteFrame \/ RouteRequest \/ SendOut

----------------------------------------------------------------------------
(***************************************************************************)
(* display_task and speaker_task.                                          *)
(***************************************************************************)

Flash ==
  /\ display = "free" /\ glyphs > 0
  /\ glyphs' = glyphs - 1 /\ display' = "busy"
  /\ UNCHANGED <<display_msgs, delivered, scrolled>>

Scroll ==
  /\ display = "free" /\ glyphs = 0 /\ display_msgs # << >>
  /\ scrolled' = Head(display_msgs) /\ display_msgs' = Tail(display_msgs)
  /\ display' = "busy"
  /\ UNCHANGED <<glyphs, delivered>>

DisplayDone ==
  /\ display = "busy" /\ display' = "free"
  /\ UNCHANGED <<display_msgs, glyphs, delivered, scrolled>>

DisplayTask ==
  /\ Flash \/ Scroll \/ DisplayDone
  /\ UNCHANGED <<radio, queues, brain, sound, board, reports, keyed>>

PlayChime ==
  /\ speaker = "free" /\ chimes > 0
  /\ chimes' = chimes - 1 /\ speaker' = "busy" /\ unannounced' = 0
  /\ UNCHANGED sidetone

PlayTone ==
  /\ speaker = "free" /\ chimes = 0 /\ sidetone > 0
  /\ sidetone' = sidetone - 1 /\ speaker' = "busy"
  /\ UNCHANGED <<chimes, unannounced>>

SpeakerDone ==
  /\ speaker = "busy" /\ speaker' = "free"
  /\ UNCHANGED <<chimes, sidetone, unannounced>>

SpeakerTask ==
  /\ PlayChime \/ PlayTone \/ SpeakerDone
  /\ UNCHANGED <<radio, queues, brain, screen, board, reports, keyed>>

AdvertiseArm == Arm /\ UNCHANGED <<queues, brain, screen, sound, board, reports, keyed>>
HostRetires == Retire /\ UNCHANGED <<queues, brain, screen, sound, board, reports, keyed>>

BNext ==
  \/ Hear \/ Key
  \/ \E b \in Sources : Press(b) \/ Submit(b)
  \/ RouterTask \/ AdvertiseArm \/ HostRetires
  \/ DisplayTask \/ SpeakerTask

\* The executor runs ready tasks and the controller answers.  Nothing is assumed
\* of the display and the speaker.
BFairness ==
  /\ WF_bvars(RouterTask)
  /\ WF_bvars(AdvertiseArm)
  /\ WF_bvars(HostRetires)
  /\ \A b \in {"A", "B", "text"} : WF_bvars(Submit(b))

BSpec == BInit /\ [][BNext]_bvars /\ BFairness

----------------------------------------------------------------------------
\* Every channel keeps its bound.
BTypeOK ==
  /\ TypeOK
  /\ Len(rx_frames) <= RX_FRAMES /\ Len(outgoing) <= OUTGOING
  /\ Len(requests) <= REQUESTS /\ Len(display_msgs) <= DISPLAY_MSGS
  /\ chimes \in 0 .. CHIMES /\ glyphs \in 0 .. GLYPHS /\ sidetone \in 0 .. SIDETONE
  /\ Len(sending) <= 1 /\ held \subseteq Frames /\ strays \subseteq Frames
  /\ on_air \in Frames \cup {NoFrame}

\* Whenever the advertise arm reads its belief, the frame it names is on air
\* behind the handle, whatever the controller refused before: otherwise a
\* board with one message would fall silent for as long as it repeats it
\* (radio.rs, on_air).
BoardBeliefIsTrue ==
  /\ BTypeOK
  /\ at # "start" /\ on_air # NoFrame => held = {on_air}
  /\ at = "dwell" => on_air \in {turn, NoFrame}

\* However slow the display is, it loses the oldest of the waiting messages
\* and only for lack of room: those that wait are the latest, in order, up to
\* what was delivered last ("shedding the oldest pending one under burst").
DisplayKeepsLatest ==
  LET missed == delivered - scrolled
      n == IF missed < DISPLAY_MSGS THEN missed ELSE DISPLAY_MSGS
  IN  display_msgs = [i \in 1 .. n |-> delivered - n + i]

\* A telegram to this node that no chime has announced has one coming, however
\* many telegrams arrive while the speaker plays ("Full queue means a chime is
\* already pending").
TelegramHasChime == unannounced > 0 => chimes > 0

\* Every request becomes one message, in the order of the channel, each under
\* the number after the one before: a press is neither lost in a full channel
\* nor sent under a number its neighbours have seen (main.rs, router_task).
RequestsBecomeMessages ==
  /\ submitted = [i \in DOMAIN originated |-> originated[i].msg.id[2]] \o requests
  /\ \A i \in DOMAIN originated :
       i > 1 => originated[i].msg.id[1] = (originated[i - 1].msg.id[1] + 1) % SEQ_MOD

\* With a display and a speaker that never finish, and with fewer refusals
\* than an own message has turns, a press gets on air, unless a later one
\* supersedes it: nothing on the way from the button to the antenna waits for
\* the slow devices.
PressGetsOnAir ==
  \A n \in 1 .. MaxActivity :
    <>(taps >= n) => <>(\E i \in DOMAIN originated : i >= n /\ originated[i] \in held)
============================================================================
