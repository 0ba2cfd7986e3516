# Formal model of poholos

poholos is a chat mesh over Bluetooth advertisements: every node shouts short
frames through a single advertising slot, hears its neighbours' frames, shows
the ones that are for it and repeats the ones that are not. There are no
connections, no acknowledgements and no clocks shared between nodes. This
directory holds TLA+ models of the code under `src/`, TLC configurations that
check them on small instances, and TLAPS proofs of the main promises for every
value of the constants. All paths below are relative to `src/`.

## The system

| component | code | state | operations |
|---|---|---|---|
| seen cache | `crates/poholos/src/seen.rs` | the last 512 dedup keys in order of last hearing; two backends (linked hash set, `no_std` ring) | `insert`, `contains` |
| router | `router.rs`, `packet.rs` of the same crate | a node's wire id and its seen cache | `originate`, `ingest` |
| airtime rotation | `rotation.rs` | the own message with its remaining turns, a ring of 8 waiting relays, whose turn was last | `enqueue_own`, `enqueue_relay`, `next_frame` |
| packets, wire format | `packet.rs`, `wire.rs` | none | constructors, `hop`, `dedup_key`, `encode`, `decode`, `manufacturer_frame` |
| identities | `node_id.rs` | none | `NodeId::new`, `parse` |
| chat loop | `crates/poholos-cli/src/main.rs`, `app.rs` | router, sequence number, transport | launch, a typed line, a received frame, the end of either |
| advertiser task | `crates/poholos-cli/src/transport/ble/mod.rs` and the platforms `linux.rs`, `macos.rs`, `windows.rs` | rotation, channel of 16, belief of what is on air, the platform's registration | `send_own`, `send_relay`, turn, dwell, `set_frame` |
| scanner, UDP transport | `ble/scan.rs`, `transport/mod.rs`, `transport/udp.rs` | a channel of 64 frames, consecutive errors | a report, a datagram, an error, `recv` |
| micro:bit nodes | `crates/poholos-microbit/src`, `crates/poholos-microbit-morse/src` | router, rotation, bounded channels (8, 8, 4, 4, 2; the Morse board also 8 glyphs and 8 tones) | tasks for radio, routing, buttons or keying, display, speaker |
| Morse input | `crates/poholos-morse/src/lib.rs`, the buttons and `compose_task` of `poholos-microbit-morse` | message and letter being keyed | symbols, gaps, clear, send |
| C interface | `crates/poholos-ffi/src/lib.rs` | a router behind a handle; the host's storage | `new`, `ingest`, `free` |
| Swift monitor | `apps/poholos-ios/Sources/PoholosKit` | scan state, feed, senders, counters | blocks and callbacks on a serial queue, tasks on the main actor |

How they interact. A typed line becomes a packet; `Router::originate` records
its key and encodes it; the transport's channel carries it to the advertiser
task, which feeds it to the rotation and registers one frame per dwell with the
platform. A neighbour's scanner puts the bytes into a channel; its chat loop
calls `Router::ingest`, which consults the seen cache and answers with a
delivery, a frame to forward, both or neither. The frame to forward takes the
same way out as a relay.

What is hard about it:

- *duplicates*: the radio repeats a frame hundreds of times and several routes
  carry it; only the bounded cache tells old from new, and it forgets;
- *ordering*: the first copy heard decides which TTL is forwarded;
- *sharing one slot*: an own message and the relays compete for each dwell, and
  enqueues come between any two turns;
- *partial failure*: replacing an advertisement is a stop and a start, either of
  which the platform may refuse, after the rotation has already given the turn
  away;
- *back-pressure*: the chat loop waits on a full channel and reads nothing
  meanwhile;
- *index arithmetic*: both rings exist in a form that needs no allocator;
- *carriers*: a frame travels as manufacturer data, in extended advertising or
  packed into a service UUID, and must come out as the same bytes everywhere,
  since its dedup key depends on all of them;
- *slow devices*: on a board one executor routes frames and drives a display
  that needs seconds for a message;
- *restarts*: a node loses its cache in the middle of a flood.

## The modules

| module | models | builds on |
|---|---|---|
| `Seen` | `SeenCache::insert` as operators on a sequence of keys, stalest first | |
| `SeenCache` | the same as a state machine: what a cache promises | `Seen` |
| `SeenRecency` | `SeenCache` with the history of hearings | `SeenCache` |
| `SeenRing` | `struct Ring`, the `no_std` array | |
| `SeenBackends` | both backends hearing the same keys | `SeenRecency`, instance of `SeenRing` |
| `ShedQueue` | the push that sheds the oldest | |
| `RelayQueue` | what the rotation expects of its pending relays | `ShedQueue` |
| `RelayRing` | `struct RelayRing`, the array; implements `RelayQueue` | instance of `RelayQueue` |
| `Rotation` | `RotationN`, one action per method and branch | `ShedQueue` |
| `RotationTurns` | `Rotation` with the history of its turns | `Rotation` |
| `RotationOverRing` | the rotation driving the array | `RotationTurns`, instance of `RelayRing` |
| `Advertiser` | `advertise_loop`, the channel, `set_frame` of three platforms | `Rotation` |
| `Router` | `ingest` as operators on a cache and a packet | `Seen` |
| `Mesh` | several routers over an unreliable radio | `Router` |
| `MeshReach` | the same over a radio that may also be reliable | `Mesh` |
| `Wire` | packets, `encode`, `decode` and the input of `dedup_key`, on bytes | |
| `Carriers` | the AD walk and the service-UUID form | `Wire` |
| `Passage` | a message going from platform to platform through its carriers | `Carriers` |
| `CInterface` | the flattening of route actions | `Wire`, `Seen` |
| `Monitor` | a host of the C interface | `CInterface`, instance of `Router` |
| `MeshMonitor` | the Swift scanner and model | `Seen`, instance of `Router` |
| `Reader` | `read_loop` and `scan_loop`, the channel they fill | |
| `Identity` | names, `NodeId::new` and `parse` | |
| `Chat` | a desktop node from launch to the end of its sessions | `Reader`, `Identity`, instance of `Router` |
| `BoardRadio` | scan handler and advertise arm of a board | `Rotation` |
| `Board` | the other tasks and the channels of both boards | `BoardRadio`, instance of `Router` |
| `MorseComposer` | `Composer` as operators on its value | |
| `MorseInput` | the button tasks and `compose_task` with its idle timer and channels | `MorseComposer` |
| `MorseKeying` | `MorseInput` with what its user has keyed | `MorseInput` |
| `SeenFacts`, `RotationFacts` | lemmas on one insert into a cache and one push or turn of the rotation | `Seen`; `Rotation` |
| `RouterProofs` | theorems on the seen cache and the mesh | `Mesh`, `SeenBackends`, `SeenFacts` |
| `AirtimeProofs` | theorems on the rotation, its array and the advertiser | `RotationOverRing`, `Advertiser`, `RotationFacts` |
| `ChatProofs` | theorems on a desktop node and its reader | `Chat` |
| `BoardProofs` | theorems on the tasks of the boards | `Board`, `RotationFacts` |
| `InterfaceProofs` | theorems on keying and on the Swift monitor | `MorseKeying`, `MeshMonitor` |
| `WireProofs` | theorems on the codec, the carriers and the C interface | `Passage`, `Monitor`, `SeenFacts` |
| `MC...` | constants for TLC | |

### State and actions against the code

*Seen cache.* A cache is the sequence of its keys in the iteration order of
`hashlink::LinkedHashSet`. A key stands for the 64-bit FNV hash; two packets
whose hashes collide are two packets with one key. `SeenRing` keeps `slots`,
`len` and `head` of the code; its refresh writes in one step what the loop
shifts slot by slot, which nobody can observe in between.

*Rotation.* The variables are the fields; `dwells_left` is 0 when there is no
own message. `next_frame` has three branches, three actions; `turn` is what it
returned. `RotationOverRing` lets each of those steps be a `push_back` or
`pop_front` of the array at once, so that the abstract queue and the array run
side by side and can be compared at every turn.

*Advertiser.* `at` names the await the task stands at: `turn` (about to ask the
rotation), `idle` (waiting for the channel with nothing to air), `stop` and
`start` (inside `set_frame`), `dwell`, `done`. Between two awaits the task runs
without interruption, so one action covers the code between them. `held` is the
registration the platform object holds (`current`, `advertising`), `strays` the
ones it has let go of and the stack has not retired. The platform is chosen at
the start. BlueZ retires when the handle drops and cannot refuse;
CoreBluetooth may refuse to stop and then keeps the old one; a Windows
publisher is let go of whether or not `Stop()` is refused. Frames over a
platform's budget never reach the channel, so they are not among the frames
here.

*Router and mesh.* A packet is a message and a TTL; the message is what
`dedup_key` hashes. `Hear` is the receive branch of the chat loop as a whole:
`ingest`, `print_delivery` and `send_relay`. A transmission is in `air` from
the moment it is handed to the transport; it may be heard by any node in range
(the sender included: radios echo) any number of times and in any order, and it
may end at any moment, heard or not. That one rule covers repetition,
collisions, shed and refused relays, and skipped frames. `Restart` empties a
cache. `delivered` and `relayed` count, per node and message, what its user was
shown and what it forwarded since its last restart.

In `MeshReach` one constant of a behaviour, `reliable`, takes loss and restarts
away; `FloodReaches` speaks of those behaviours only.

*Wire, carriers, passage.* Frames are sequences of bytes with the real layout
and the real limits (15, 22, 156 and 211 bytes). A packet has a wire id of four
bytes; the empty sequence stands for no destination. `KeyBytes` is what
`dedup_key` folds into its hash. An advertisement is its AD structures and the
number of bytes a report of it has, which may cut the last structure or be
padded with zeros. `Passage` follows one message: composed or foreign, put into
the carrier of a platform (`SetFrame`), picked out by a node of any platform,
decoded and encoded anew with a hop taken (`Hear`). The desktop stacks, which
hand over maps instead of bytes, are external: they report an advertisement
that came through whole.

*C interface.* `Monitor` is a host with one handle and one `PoholosAction` that
starts uninitialized. `Ingest` is `poholos_router_ingest` with its three
outcomes; the decision is made twice, on the bytes and by module `Router`, and
the two are compared. After `free` the host passes null.

*Swift monitor.* `queue` holds the blocks of `start` and `stop`, the state
callbacks and the frames discovered, in the order the serial queue runs them;
`tasks` the events on their way to the main actor. That the main actor takes
them in the order they were created is assumed; the language does not promise it
for `Task`. CoreBluetooth is external: it ends a scan when the radio goes off
and reports every change. `isScanning` stands for the manager's.

*Desktop node.* `Reader` is the task behind a transport: `pending` are the frames
of one reception it still has to send, `rx` the channel. `Chat` has one action
for each branch of the `select` in `app.rs` and each way a session ends. A
channel is closed when its sender, the reader, is gone and it is empty. The
transport lives exactly as long as the session, so a reader that outlives it
ends at its next send. `Launch` goes through `NodeId::new` or `parse` and
`Relaunch` through `parse` with the name printed. A line is its destination, its
text and its size; `Malformed` are those `parse_outgoing` refuses. The platform
budget decides whether `send_own` refuses; `offered` counts the calls of
`send_relay`, whatever it does with them.

*Boards.* Both firmwares share radio and router task, so one module with
`board` as a parameter covers them; the Morse board's requests come from
`compose_task`, which `MorseInput` models by itself. Each await is a state:
`sending` while the router task waits for room in `OUTGOING`, `button` while a
source waits for room in its channel, `at` for the advertise arm. `select` polls
its branches in order here, so a request is routed only when no frame waits.
The display begins busy with the node's name. `display` and `speaker` are busy
for as long as they like. `held` is the frame behind the advertiser handle and
`strays` the one dropped and not yet retired by the host runner.

*Morse input.* A letter is the sequence of its elements, a space the letter with
none. `composer` is the value of the `Composer`; its `character` belongs to
`morse-codec`, which the composer asks to add an element and to commit, and
which is external. `at` names the await of `compose_task`: its `select`, or the
`COMPOSE.send`. A press is a tap or a hold by choice, and the idle timer fires
whenever no input is queued, which stands for every length of a press and of a
pause (`select` polls the input first). `button` is where each `button_task`
stands; the debounce delay is part of `released`, in which a press may be as
late as it likes.

## What the runs check

| run | bounds | shows |
|---|---|---|
| `seen` | capacity 3, 5 keys | ring and linked hash set agree, answer by answer and key by key (`BackendsAgree`); `contains` and `insert` agree; both hold exactly the 3 keys heard last and say "new" only for a key that was never heard or displaced by 3 others |
| `rotation` | queue 3, own window 4, 3 frames | no two turns in a row pass over an own message; it leaves after exactly its window; a relay in place i waits at most 2 i more turns; the array implements the shed-oldest FIFO and serves what the rotation thinks it serves |
| `rotation_latency` | the same | violation: a relay may wait for more than the `RELAY_QUEUE` dwells documented |
| `advertiser` | 1 own and 2 relay frames, window 3, queue 2, channel 2, 2 refusals, 3 platforms | the loop's belief is true whenever it is read; registrations do not overlap; an own message gets on air; a blocked sender is released |
| `advertiser_retry` | the same on Linux | violation: a refused relay is not retried |
| `advertiser_silence` | the same on macOS | violation: after a refusal the old frame is still on air |
| `mesh` | 4 nodes (a cycle with a tail), 2 messages, TTL 3, cache 2, one restart; with and without loss | at most one delivery and one forward per node and message; messages are shown to the right users; no frame outlives its TTL; without loss, every hearsay reaches everyone and every telegram its destination |
| `wire` | payloads on both sides of every limit, every special TTL, noise and foreign structures; 3 calls of `ingest`, cache 2; feed of 2, 5 events | a message arrives as it was sent, over any sequence of carriers; `decode` never reaches its `expect`; wire version and kind of advertisement agree; the AD walk finds the frame and nothing else; the engine behind the C interface decides as `Router`; an action holds one message and nothing older; the monitor scans exactly when it should and its feed and counters agree |
| `chat` | channel 1, 2 errors in a row, 2 sequence numbers, 2 sessions, 4 messages and receptions, 5 hosts | frames are neither lost nor reordered before the router; a reader gives up only on a dead socket; a key is reused only after a restart or a whole round; a relay is offered once; a printed name brings the node back; what was read is handled; a dead transport ends the session |
| `boards` | channels of 1 and 2, window 2, one refusal, 3 reports, presses and elements, both boards | the belief about the radio is true; the display keeps the latest messages; every telegram is announced; every request becomes one message with a number of its own; a press gets on air although display and speaker never finish |
| `morse` | messages of 3, letters of 2 elements, channels of 1 | the composed and sent message is the keyed one, whatever the timing; an open letter always has its commit armed |
| `morse_clear` | messages of 2 | violation: elements abandoned by a clear come back in the next letter |

The types and bounds of a module's variables (`ATypeOK`, `TypeOK` of `Mesh` and of
both rings, `CTypeOK`, `BTypeOK`, `MTypeOK`) are conjuncts of the invariants that
need them; `RTypeOK` and `TTypeOK` are checked by themselves. Both are proved.

Why the bounds are enough. The caches and rings treat keys and frames alike, so
what matters is the number of them against the capacity: every run has more
keys than slots (or, in `mesh` and `chat`, as many as slots, which is the
promise's precondition), so fills, refreshes, evictions and wraps happen in
every order. What a mesh with forgetful caches keeps, `HopBudget` and
`ShownToTheRightUser`, is proved for every cache size; in the run a cache
forgets by the restart. The own window in the rotation exceeds the queue, as 20
exceeds 8. Two refusals are enough to refuse a stop and the start after it, or
two turns of one message; `OwnGetsOnAir` and `PressGetsOnAir` need fewer refusals
than the window has turns. The mesh has a cycle, so that copies meet, and a
tail, so that the TTL decides who is reached. A Morse message of 3 places holds
a letter, a space and a letter, or fills up with a letter or a space last; a
channel of one event and two button tasks waiting to send put three events in
line.

`wire` uses the real sizes; its payloads stand on each side of each limit. Three
calls of `ingest` are a message, one that evicts or repeats it, and a third; with
a feed of two, five events overflow it. Wire, C interface and Swift monitor share
no state, so a behaviour of that run moves only one of them. In `chat` a channel
of one with a two-frame reception behind it is full in every way; two numbers
wrap within one session; and two sessions are a restart. In `boards` a channel of
one blocks its sender at the second frame, and three actions of the environment
can fill any one of the chains from button or antenna to the display; more would
repeat them.

The bounds that the code does not have are `MaxRestarts` and `CountCap` (mesh),
`MaxFailures` (advertiser, boards), `MaxIngests` and `MaxEvents` (wire),
`MaxLives` and `MaxActivity` (chat, boards). The mesh may fall silent for good, a
passage, a session and a monitor may end, and a board may rest: deadlock is not
checked in those four runs.

Fairness. `FairASpec` assumes that the runtime polls the advertiser task, so
that an enabled step of it happens, and that the dwell timer, once due, is not
passed over for ever by `select!`, which polls its branches in random order.
Nothing is assumed of the chat loop, the platform's retiring, or the user.
`FSpec` assumes, of a reliable radio only, that each node in range for which a
transmission is new hears it in the end: frames repeat for a whole dwell, and
twenty of them for an own message. It is the promise of the algorithm, not of
the radio. `Fairness` of `Chat` assumes that the runtime runs the chat loop and
the reader when they can go on; whether anything is typed, heard or fails is
open. `BFairness` assumes that the executor runs the router task, the advertise
arm and the tasks that wait to send, and that the controller's host runner
retires what was dropped. Nothing is assumed of the display and the speaker: no
promise to the mesh may depend on them.

## What is proved

Every safety property of the passing runs, invariant or action property, is a
theorem for every value of the constants, and so is the refinement of the relay
queue: for every capacity, window, TTL and topology, every set of frames,
messages, lines and names, and any number of failures. Each theorem follows one
pattern: an invariant that implies the property, that the initial states
satisfy and every step preserves. A counter of the model such as
`MaxFailures` is a constant like any other, so nothing depends on its value.

What is assumed is named where the constants are declared, and TLC evaluates it
in the runs.

- Sizes of caches, queues, channels and windows, and the initial TTL, are
  positive (`CapacityAssumption`, `QueueAssumption`, `BudgetAssumption`,
  `SendQueueAssumption`, `ReaderAssumption`, `ChannelsAssumption`,
  `ChatAssumption`, `FeedAssumption`, `MaxAssumption`, ...); so is the cap of the
  mesh's counts, of which it needs two.
- `NoFrame` is no frame and `Everyone` no node; what a user or a neighbour hands
  over is of its type: `SendableAssumption`, `MessagesAssumption`,
  `ArgumentsAssumption` (a name is a sequence, entropy four hexadecimal digits), `TypedAssumption` (wire ids of
  four bytes, a 16-bit number, bytes), `HostAssumption`, `ReceivedAssumption`.
- `ForeignAssumption`: an advertisement of another device is any sequence of AD
  structures with at most 254 bytes each, as many as the length byte can say,
  and a service UUID has 16.
- `ClosureAssumption`: the frames of a board are closed under taking a hop, and
  its own messages are among them.
- Hearing is symmetric (`LinksAssumption`).

`RouterProofs`.

- `CacheTypeOK`, `CacheRemembers`, `CacheAnswers`. `RemembersMostRecent` speaks
  of what the cache holds and not of its order, so it is not inductive: `Ordered`
  adds that the sequence lists the remembered keys in the order they were last
  heard, that `since` of a remembered key is exactly the set of the keys behind
  it, and that a key that was heard and is gone has the whole of a full cache in
  its `since`. One insert takes at most one place out of the sequence and
  appends the key (`RemoveAtFacts`, `InsertFacts`), so the order survives a
  refresh and an eviction alike; counting `since` against the places behind a
  key (`OrderedRemembers`) gives the promise.
- `BackendsAreOne` and `ContainsIsInsert`: the array gives every answer of the
  linked hash set. `BackendsInv` says that the slots, read from `head` around
  the end of the array, are the keys of the sequence (`SameKeys`), to which
  `Ordered` adds that no key stands twice. A refresh moves every slot behind
  the key one place down; both the one with wrap-around and the physical scan
  of `contains` are then arithmetic modulo the capacity.
- `TtlBoundsTravel` and `RightUser`: `AirIsTyped` says that what is on air is a
  well-formed packet of a message that was typed; `HopBudget` is then inductive
  because each relay takes a hop from the TTL and adds one to the path. Neither
  argument looks at what a cache remembers.
- `NoDuplicates` does. Its hypothesis `CachesSuffice` is that a node's cache can
  hold every message in circulation, without which the property is false, and
  which the run `mesh` satisfies. `Suppresses` then says that whatever was shown
  or forwarded is in the cache: an insert into a cache that can hold all evicts
  nothing, and a restart forgets the counts together with the cache.

`AirtimeProofs`.

- `RotationTypeOK`, `OwnAlternates`, `OwnHasItsWindow`, `RelayIsServedInTime`.
  Each is inductive together with the type invariant, which carries that the
  history `waits` is as long as the queue and that the own message exists
  exactly while it has turns left. `RelayShare` weighs what a relay has waited
  and what is still before it, with a credit of one when the own message has
  just had its turn; a push that sheds moves every relay one place forward, a
  turn either serves the head or spends the credit.
- `RingIsTheRelays` and `RingImplementsQueue`: the array read from `head` is the
  queue. The second is the refinement of `RelayQueue`, step by step: a push into
  a full array overwrites the slot it has just given up.
- `BeliefHolds` and `SlotIsExclusive`: `SlotInv` says where a registration can
  be at each await of `set_frame`: none before the start, at most one
  otherwise, and, while the task runs, none let go of on Linux and macOS.

`ChatProofs`.

- `ReadIsRouted` from `Flows`: what is still owed to the router is the channel
  followed by what the reader has not sent yet, and the end of a session takes
  all three away.
- `SocketIsDead` from `Failing`: the counter is the length of the run of errors
  at the end, and reaching the limit is how the reader of a socket ends.
- `KeysAreFresh` from `Numbered`: the number of every message of this life, plus
  how many were originated since, is the next number up to whole rounds.
- `RelayedOnce` from `Carried` and `Offers`: while the cache can hold what the
  session hears and sends, which `OfferedOnce` itself asks for, what was offered
  is in it.
- `NamePrintedIsNameParsed` from `Named`: `parse` takes a full name apart where
  `new` put it together.

`BoardProofs`.

- `BoardBeliefHolds` from `RadioInv`, of which `ChannelsHold` bounds the channels
  and `ArmHolds` says what is behind the handle at each await of the arm.
- `DisplayIsCurrent` from `Latest`: the channel holds the last numbers delivered,
  without a gap, whenever the router sheds and the display takes.
- `TelegramIsAnnounced` from `Announced`: a chime is dropped only when another
  one waits.
- `NoRequestIsLost` from `Counted`: what was originated, followed by the channel,
  is what was submitted, and the last message has the number before the next.

`InterfaceProofs`.

- `ComposedIsKeyed` from `KInv`. `TaskHolds` is true whatever was abandoned: the
  task's own `elements` are those of the letter in progress, and such a letter
  has a place in the message. Unless a letter was abandoned, `AsKeyed` adds that
  message and letter are the ones keyed and that `space_pending` says whether the
  message ends in a space.
- `TimerIsArmed` from the same and `ButtonsHold`.
- `ScannerSettles` from `Settling`: only while an update of the radio is in the
  serial queue may the scan differ from what it should be, and the state
  reported last is the current one.
- `FeedIsReduced` from `Reduced`: the feed is the newest lines, and a sender's
  counters are those of its lines, the ones that fell off the feed included.

`WireProofs`.

- `RoundTrip`, `DecodedIsPacket`, `DecodeNeverPanics`, `KeyIsMessage` are about
  the operators of `Wire`, for every capacity, packet and sequence of bytes.
  `EncodeFacts` says where in a frame each field stands; the flags byte is
  arithmetic. No run checks them by themselves; the runs check what follows from
  them.
- `WalkIsRight`. `Raw` and `ManufacturerFrame` are recursive functions, so this is
  an induction: over the structures for the bytes before each (`Grows`), and
  backwards over them for what the walk answers where each begins
  (`WalkOneStructure`, `WalkFinds`). `SetInduction` states induction as a fact about sets,
  proved from the well-foundedness of the naturals, and gives the existence of
  both functions as well (`GrowsExists`, `WalkExists`).
- `MessageArrives`, `CodecIsSafe`, `VersionIsReach` from `PassInv`: whatever is at
  hand and whatever can be heard of what is on air is the packet first encoded
  with the hops so far taken. `HeardIsCarried` reduces what a board or a
  desktop hears to the structures of the advertisement; `UuidFacts` takes a
  frame back out of its service UUID.
- `ActionIsWhole`: the arrays of the action are zero behind the lengths it gives.
- `EngineDecides` from `MirrorInv`: the cache of keys and the cache of messages
  are the same places of a sequence under an injective map (`KeyIsMessage`), so
  an insert moves the same place in both.

What is only model-checked. Liveness under fairness and ENABLED are out of the
prover's reach: `OwnGetsOnAir`, `SenderIsReleased`, `FloodReaches`,
`SessionDrains` and `PressGetsOnAir` are checked by TLC on the bounds above. The
four violations are counterexamples and need no proof.

## Disagreements met

1. The doc of `RELAY_QUEUE` says it "Bounds the worst-case relay latency through
   this node to `RELAY_QUEUE` × [`DWELL`] = 4 s per hop while still absorbing
   bursts." (`rotation.rs:63-64`); with an own message in rotation a relay waits
   for up to twice that (run `rotation_latency`). The bound that holds is
   `RelayShare`.
2. `ble/mod.rs:183-184` and `221-222` promise that a refused frame is retried at
   the next turn. That is so for an own message; a relay has left the rotation
   (run `advertiser_retry`).
3. `ble/mod.rs:217-220` says a failed registration leaves nothing on air. When
   CoreBluetooth refuses the stop, the old frame stays (run
   `advertiser_silence`). The loop does the right thing all the same:
   `BeliefIsTrue` and `OneAdvertisement` hold.
4. `poholos-morse/src/lib.rs:120` promises that `clear` discards the whole
   message and resets the state. The decoder's open character survives it, so
   the elements of a letter cleared half way are merged into the first letter
   of the next message, unseen: the firmware's own `elements` are empty by then
   (run `morse_clear`). `MorseKeying` marks the messages this can touch with
   `abandoned`; every other one is composed as keyed.

Two more are wording and have no run:

- `ble/mod.rs:115` and `transport/mod.rs:69` speak of 16 bytes on macOS; one of
  the 16 is the tag, and `MAX_UUID_FRAME` is 15. `Passage` and `Chat` use 15.
- `MonitorModel.swift:72` says of `lastTTL` that 16 means heard directly. The
  packet reported for a telegram passing through has its hop already taken, so
  one heard directly shows 15. `MeshMonitor` reports it as the code does.

## Not modelled

- `error.rs` and the texts of errors; `lib.rs`, which re-exports; `codec.rs`,
  which hands packets to the `postcard` crate and is called by nothing else.
- `MonitorViews.swift` and the command-line printer of the monitor; dates, signal
  strengths, labels and byte counters of the model.
- The set-up of the boards: `radio::init`, pins and the panic when the host
  runner ends. The button's debounce delay and the length of notes and scrolling
  text appear only as steps that may take as long as they like.
- Socket options and address parsing of the UDP transport.
- The hash functions: keys and wire ids are taken to differ when what is hashed
  differs.
- Time other than the order of events. In particular the runs bound how much is
  heard, so they do not ask whether a button press is starved by endless traffic
  (`select` polls received frames first).

## What could be proved next

All safety properties that the runs check are proved. What is left: that `Mesh`
with its operators on messages is implemented by nodes that run the codec (the
step is `EngineDecides`, for one node), and the safety half of the liveness
properties, such as that a blocked sender always has a receiver that will take
its frame.
