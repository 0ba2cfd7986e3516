---------------------------- MODULE MeshMonitor ----------------------------
(***************************************************************************)
(* The Swift monitor, apps/poholos-ios/Sources/PoholosKit: MeshScanner,    *)
(* whose blocks and callbacks run on one serial queue and route every      *)
(* frame heard, and MonitorModel, which receives its events as tasks on    *)
(* the main actor and reduces them to what the screens show.               *)
(*                                                                         *)
(* The main actor takes the tasks in the order in which the queue made     *)
(* them.  CoreBluetooth is external: it ends a scan when the radio goes    *)
(* off and reports every change of the radio's state.                      *)
(***************************************************************************)
EXTENDS Seen

CONSTANTS
  Me, Senders,              \* this node, the nodes it hears
  All,                      \* the destination of a broadcast
  OnAir,                    \* packets that may be heard
  Junk,                     \* lengths of frames that do not decode
  feedLimit,                \* lines of the feed (500)
  MaxEvents                 \* bound on what user, radio and mesh do

ASSUME FeedAssumption == feedLimit \in Nat \ {0}

Engine == INSTANCE Router WITH Nodes <- Senders \cup {Me}, Everyone <- All, DEFAULT_TTL <- 16

VARIABLES
  power,                    \* whether the radio is on
  central,                  \* whether the CBCentralManager exists
  scanRequested, isScanning,
  queue,                    \* blocks and callbacks waiting on the serial queue
  cache,                    \* of the router
  tasks,                    \* events on their way to the main actor
  feed,                     \* newest first
  sources,                  \* per sender: [messages, lastTTL]
  messagesDelivered, undecodableLengths, bluetoothState,
  lines,                    \* history: every line there ever was in the feed
  events

scanner == <<power, central, scanRequested, isScanning, queue, cache>>
model == <<feed, sources, messagesDelivered, undecodableLengths, bluetoothState, lines>>
wvars == <<scanner, tasks, model, events>>

WInit ==
  /\ power = FALSE /\ central = FALSE /\ scanRequested = FALSE /\ isScanning = FALSE
  /\ queue = << >> /\ cache = Engine!EmptyCache /\ tasks = << >>
  /\ feed = << >> /\ lines = << >> /\ undecodableLengths = {}
  /\ sources = [src \in Senders |-> [messages |-> 0, lastTTL |-> 0]]
  /\ messagesDelivered = 0 /\ bluetoothState = "unknown" /\ events = 0

----------------------------------------------------------------------------
(***************************************************************************)
(* User, radio and mesh put work on the queue.                             *)
(***************************************************************************)

\* start() and stop() are blocks; a frame is discovered while scanning.
Enqueue ==
  /\ \/ queue' \in {Append(queue, [kind |-> "start"]), Append(queue, [kind |-> "stop"])}
     \/ /\ isScanning
        /\ \/ \E packet \in OnAir : queue' = Append(queue, [kind |-> "frame", packet |-> packet])
           \/ \E n \in Junk : queue' = Append(queue, [kind |-> "junk", length |-> n])
  /\ UNCHANGED <<power, isScanning>>

\* The radio is switched: no scan outlives it, and the manager is told.
Switch ==
  /\ power' = ~ power
  /\ isScanning' = (isScanning /\ power')
  /\ queue' = IF central THEN Append(queue, [kind |-> "update"]) ELSE queue

Outside ==
  /\ events < MaxEvents /\ events' = events + 1
  /\ Enqueue \/ Switch
  /\ UNCHANGED <<central, scanRequested, cache, tasks, model>>

----------------------------------------------------------------------------
(***************************************************************************)
(* The serial queue.                                                       *)
(***************************************************************************)

\* beginScanIfReady, of which isScanning is what it leaves.
BeginScanIfReady(requested) == isScanning \/ (power /\ requested)

\* Mutant of Started: only an update of the state begins a scan.
StartedLater == isScanning

\* start() with a manager: the radio may have been ready all the time.
Started == BeginScanIfReady(TRUE)

\* The block of start(); the new manager will report its first state.
StartBlock ==
  /\ Head(queue).kind = "start"
  /\ scanRequested' = TRUE /\ central' = TRUE
  /\ isScanning' = (central /\ Started)
  /\ queue' = IF central THEN Tail(queue) ELSE Append(Tail(queue), [kind |-> "update"])
  /\ UNCHANGED <<cache, tasks>>

StopBlock ==
  /\ Head(queue).kind = "stop"
  /\ scanRequested' = FALSE /\ isScanning' = FALSE
  /\ queue' = Tail(queue)
  /\ UNCHANGED <<central, cache, tasks>>

\* centralManagerDidUpdateState
UpdateState ==
  /\ Head(queue).kind = "update"
  /\ isScanning' = BeginScanIfReady(scanRequested)
  /\ tasks' = Append(tasks, [kind |-> "state", on |-> power])
  /\ queue' = Tail(queue)
  /\ UNCHANGED <<central, scanRequested, cache>>

\* What becomes of a packet the router has looked at.  A packet passing
\* through is reported with the hop taken.
Action(packet) ==
  CASE Engine!Delivers(Me, cache, packet) -> [kind |-> "deliver", packet |-> packet]
    [] Engine!Forwards(Me, cache, packet) /\ ~ Engine!IsForMe(Me, packet) ->
         [kind |-> "forward", packet |-> Engine!Hopped(packet)]
    [] OTHER -> [kind |-> "ignore"]

\* didDiscover: frames under our company id are routed, or they do not decode.
DidDiscover ==
  /\ \/ /\ Head(queue).kind = "frame"
        /\ tasks' = Append(tasks, Action(Head(queue).packet))
        /\ cache' = Engine!CacheAfter(Me, cache, Head(queue).packet)
     \/ /\ Head(queue).kind = "junk"
        /\ tasks' = Append(tasks, Head(queue))
        /\ UNCHANGED cache
  /\ queue' = Tail(queue)
  /\ UNCHANGED <<central, scanRequested, isScanning>>

SerialQueue ==
  /\ queue # << >>
  /\ StartBlock \/ StopBlock \/ UpdateState \/ DidDiscover
  /\ UNCHANGED <<power, model, events>>

----------------------------------------------------------------------------
(***************************************************************************)
(* The main actor.                                                         *)
(***************************************************************************)

\* Mutant of Cut: the newest lines are cut off.
CutNewest(seq) == IF Len(seq) > feedLimit THEN Tail(seq) ELSE seq

\* The feed keeps its first entries.
Cut(seq) == SubSeq(seq, 1, IF Len(seq) > feedLimit THEN feedLimit ELSE Len(seq))

AppendLine(line) ==
  /\ feed' = Cut(<<line>> \o feed)
  /\ lines' = Append(lines, line)

\* note
Note(packet) ==
  sources' = [sources EXCEPT ![packet.msg.src] =
                [messages |-> @.messages + 1, lastTTL |-> packet.ttl]]

\* handle(event:)
HandleEvent(event) ==
  /\ event.kind \in {"deliver", "forward", "ignore"}
  /\ IF event.kind = "ignore" THEN UNCHANGED <<sources, feed, lines>>
     ELSE Note(event.packet) /\ AppendLine(event)
  /\ messagesDelivered' = messagesDelivered + (IF event.kind = "deliver" THEN 1 ELSE 0)
  /\ UNCHANGED <<undecodableLengths, bluetoothState>>

\* A length no frame that did not decode has had before.
NewLength(n) == n \notin undecodableLengths

\* handleUndecodable: a line for the first frame of each length.
HandleUndecodable(event) ==
  /\ event.kind = "junk"
  /\ IF NewLength(event.length) THEN AppendLine(event) ELSE UNCHANGED <<feed, lines>>
  /\ undecodableLengths' = undecodableLengths \cup {event.length}
  /\ UNCHANGED <<sources, messagesDelivered, bluetoothState>>

StateName(on) == IF on THEN "poweredOn" ELSE "poweredOff"

HandleState(event) ==
  /\ event.kind = "state"
  /\ bluetoothState' = StateName(event.on)
  /\ UNCHANGED <<feed, lines, sources, messagesDelivered, undecodableLengths>>

MainActor ==
  /\ tasks # << >> /\ tasks' = Tail(tasks)
  /\ HandleEvent(Head(tasks)) \/ HandleUndecodable(Head(tasks)) \/ HandleState(Head(tasks))
  /\ UNCHANGED <<scanner, events>>

WNext == Outside \/ SerialQueue \/ MainActor

WSpec == WInit /\ [][WNext]_wvars

----------------------------------------------------------------------------
\* Whatever the order of start, stop and the radio's changes: once the queue
\* has run, the monitor scans exactly if it was asked to last and the radio is
\* on, and once the main actor has too, the screen says which.
MonitorSettles ==
  queue = << >> /\ central =>
    /\ isScanning <=> scanRequested /\ power
    /\ tasks = << >> => bluetoothState = StateName(power)

\* The feed is the newest lines, newest first, up to its limit, and what is
\* told of a sender counts every message of it, those that have left the feed
\* too ("Oldest feed entries beyond this count are dropped").
FeedIsNewest ==
  LET n == IF Len(lines) < feedLimit THEN Len(lines) ELSE feedLimit
      from(src) == {i \in DOMAIN lines :
                      lines[i].kind # "junk" /\ lines[i].packet.msg.src = src}
  IN  /\ feed = [i \in 1 .. n |-> lines[Len(lines) + 1 - i]]
      /\ \A src \in Senders :
           /\ sources[src].messages = Cardinality(from(src))
           /\ \A i \in from(src) :
                (\A j \in from(src) : j <= i) => sources[src].lastTTL = lines[i].packet.ttl
      /\ messagesDelivered = Cardinality({i \in DOMAIN lines : lines[i].kind = "deliver"})
============================================================================
