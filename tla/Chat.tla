-------------------------------- MODULE Chat --------------------------------
(***************************************************************************)
(* A desktop node, crates/poholos-cli: identities and transport are chosen *)
(* in main.rs, then the chat loop of app.rs selects between typed lines    *)
(* and received frames until the user leaves or the transport dies.  The   *)
(* process may be launched again under the same identity.                  *)
(***************************************************************************)
EXTENDS Reader, Identity, FiniteSets

CONSTANTS
  Hosts,                    \* transports with their platforms
  Lines,                    \* typed lines: [dest, text, size]
  Others,                   \* packets of other nodes the transport may hand over
  Peers,                    \* the full names of other nodes
  Arguments,                \* [name] or [id] on the command line
  Suffixes,                 \* what the entropy may give
  SEQ_MOD,                  \* sequence numbers (2^16)
  SEEN_CAPACITY, DEFAULT_TTL,
  MaxLives,                 \* bound on the launches ...
  MaxActivity               \* ... and on the messages sent in all lives together
                            \* with the receptions of the present one

ASSUME ChatAssumption ==
  /\ SEQ_MOD \in Nat \ {0} /\ SEEN_CAPACITY \in Nat \ {0}
  /\ MaxLives \in Nat /\ MaxActivity \in Nat
  /\ IsFiniteSet(Others)

\* What the command line gives are strings, and entropy is four digits of one.
ASSUME ArgumentsAssumption ==
  /\ \A argument \in Arguments :
       "id" \notin DOMAIN argument =>
         argument.name \in Seq({argument.name[i] : i \in DOMAIN argument.name})
  /\ Suffixes \subseteq [1 .. 4 -> HexDigit]

Everyone == << >>
MAX_EXT_PAYLOAD_HEARSAY == 204
MAX_EXT_PAYLOAD_TELEGRAM == 200

VARIABLES
  session,                  \* "off", "running", "quit" or "closed"
  node,                     \* the full name, once it has been chosen
  seen,                     \* the router's cache
  seq,
  offered,                  \* how often each message was given to send_relay
  log,                      \* what was originated, in all lives
  life,
  aired                     \* indices in log that the transport took

svars == <<session, node, seen, seq, offered, log, life, aired>>
cvars == <<rvars, svars>>

R == INSTANCE Router WITH Nodes <- Peers \cup node

\* The messages of others.
Messages == {packet.msg : packet \in Others}

Init ==
  /\ \E host \in Hosts : transport = host[1] /\ platform = host[2]
  /\ reader = "gone" /\ consecutive_errors = 0
  /\ pending = << >> /\ rx = << >> /\ owed = << >> /\ outcomes = << >>
  /\ session = "off" /\ node = {} /\ seen = R!EmptyCache /\ seq = 0
  /\ offered = [msg \in Messages |-> 0]
  /\ log = << >> /\ life = 0 /\ aired = {}

----------------------------------------------------------------------------
(***************************************************************************)
(* Launch and end.                                                         *)
(***************************************************************************)

\* The identity the command line gives.
Identities(argument) ==
  IF "id" \in DOMAIN argument THEN NodeIdParse(argument.id)
  ELSE UNION {NodeIdNew(argument.name, suffix) : suffix \in Suffixes}

\* There is no advertiser for the platform.
Unsupported == transport = "ble" /\ platform = "other"

\* The transport comes up and the session starts at a random number.
Start(name) ==
  /\ life < MaxLives /\ life' = life + 1
  /\ session # "running" /\ session' = "running"
  /\ ~ Unsupported
  /\ node' = {name}
  /\ seq' \in 0 .. SEQ_MOD - 1
  /\ seen' = R!EmptyCache
  /\ offered' = [msg \in Messages |-> 0]
  /\ reader' = "running" /\ consecutive_errors' = 0
  /\ pending' = << >> /\ rx' = << >> /\ owed' = << >> /\ outcomes' = << >>
  /\ UNCHANGED <<transport, platform, log, aired>>

Launch ==
  /\ node = {}
  /\ \E argument \in Arguments : \E name \in Identities(argument) : Start(name)

\* Launched again with --id and the name it printed.
Relaunch == \E printed \in node : \E name \in NodeIdParse(printed) : Start(name)

\* /quit, the end of stdin, or an error reading it.
Leave ==
  /\ session = "running" /\ session' = "quit"
  /\ UNCHANGED <<node, seen, seq, offered, log, life, aired, rvars>>

----------------------------------------------------------------------------
(***************************************************************************)
(* The two branches of the select.                                         *)
(***************************************************************************)

MayGoOn == Len(outcomes) + Len(log) < MaxActivity

\* Lines parse_outgoing refuses, or the loop skips as empty: a telegram needs
\* a message, and neither shape may be longer than an extended frame allows.
Malformed(line) ==
  line.size \notin 1 .. (IF line.dest = Everyone
                         THEN MAX_EXT_PAYLOAD_HEARSAY ELSE MAX_EXT_PAYLOAD_TELEGRAM)

\* Mutant of NextSeq: only broadcasts advance the sequence number.
NextSeqOfHearsay(line) ==
  IF ~ Malformed(line) /\ line.dest = Everyone THEN (seq + 1) % SEQ_MOD ELSE seq

\* parse_outgoing advances seq last, when nothing was refused.
NextSeq(line) == IF Malformed(line) THEN seq ELSE (seq + 1) % SEQ_MOD

\* The frame of a message fits the platform's budget.
FrameLen(line) == line.size + IF line.dest = Everyone THEN 7 ELSE 11
Budget == CASE platform = "macos" -> 15 [] platform = "linux" -> 22 [] OTHER -> 156
Fits(line) == transport = "udp" \/ FrameLen(line) <= Budget

\* The user's line: a packet is originated, which marks it as seen, and given
\* to send_own, which may refuse it.
TypeLine(line) ==
  /\ session = "running" /\ MayGoOn
  /\ seq' = NextSeq(line)
  /\ \/ /\ Malformed(line)
        /\ UNCHANGED <<seen, log, aired>>
     \/ /\ ~ Malformed(line)
        /\ \E name \in node :
             LET msg == [src |-> name, dest |-> line.dest, id |-> <<seq, line.text>>]
             IN  /\ seen' = R!Insert(seen, R!Key(R!NewPacket(msg)))
                 /\ log' = Append(log, [msg |-> msg, life |-> life])
        /\ \/ Fits(line) /\ aired' = aired \cup {Len(log) + 1}
           \/ (transport = "udp" \/ ~ Fits(line)) /\ UNCHANGED aired
  /\ UNCHANGED <<session, node, offered, life, rvars>>

\* transport.recv() yields a frame: what the router makes of it.  A relay is
\* offered to send_relay, which may take it, skip it or fail: the loop goes on
\* the same.
Receive ==
  /\ session = "running" /\ rx # << >>
  /\ rx' = Tail(rx) /\ owed' = Tail(owed)
  /\ \E name \in node :
       LET packet == Head(rx)
       IN  /\ seen' = R!CacheAfter(name, seen, packet)
           /\ offered' = IF R!Forwards(name, seen, packet)
                         THEN [offered EXCEPT ![packet.msg] = @ + 1] ELSE offered
  /\ UNCHANGED <<session, node, seq, log, life, aired>>
  /\ UNCHANGED <<transport, platform, reader, consecutive_errors, pending, outcomes>>

\* Mutant of Closed: the channel is closed as soon as the reader is gone.
ClosedAtOnce == reader = "gone"

\* Mutant of Closed: the transport keeps a sender of its own.
ClosedWithTransport == reader = "gone" /\ rx = << >> /\ session # "running"

\* The channel is closed: no sender is left and nothing is in it.
Closed == reader = "gone" /\ rx = << >>

\* transport.recv() yields None.
TransportClosed ==
  /\ session = "running" /\ Closed
  /\ session' = "closed"
  /\ UNCHANGED <<node, seen, seq, offered, log, life, aired, rvars>>

----------------------------------------------------------------------------
\* The frames in the air: those of others and echoes of this node's own.
Echoes == {R!NewPacket(log[i].msg) : i \in aired}
OnAir == Others \cup Echoes

ReadLoop ==
  /\ MayGoOn
  /\ \/ ReceiveError
     \/ ReceiveOversized
     \/ \E packet \in OnAir : ReceiveDatagram(packet)
  /\ UNCHANGED svars

ScanLoop ==
  /\ MayGoOn
  /\ \/ \E p, q \in OnAir : ScanEvent(<<p>>) \/ ScanEvent(<<p, q>>)
     \/ EventsEnd
  /\ UNCHANGED svars

\* The transport lives exactly as long as the session.
Deliver == session = "running" /\ Push /\ UNCHANGED svars
Undeliverable == session # "running" /\ PushFails /\ UNCHANGED svars

Next ==
  \/ Launch \/ Relaunch \/ Leave
  \/ \E line \in Lines : TypeLine(line)
  \/ Receive \/ TransportClosed
  \/ ReadLoop \/ ScanLoop \/ Deliver \/ Undeliverable

\* Tasks that are ready run; whether anything is typed or heard is open.
Fairness ==
  /\ WF_cvars(Receive) /\ WF_cvars(TransportClosed)
  /\ WF_cvars(Deliver) /\ WF_cvars(Undeliverable)

Spec == Init /\ [][Next]_cvars /\ Fairness

----------------------------------------------------------------------------
\* The channel and the packets in it keep their bounds, and nothing is on its
\* way while no session has begun.
CTypeOK ==
  /\ Len(rx) <= RECV_QUEUE /\ Len(pending) <= 2
  /\ consecutive_errors \in 0 .. MAX_CONSECUTIVE_RECV_ERRORS
  /\ seq \in 0 .. SEQ_MOD - 1
  /\ session = "off" => node = {} /\ owed = << >> /\ log = << >>

\* Nothing that was read is lost or reordered on its way to the router,
\* however long the channel is full: receivers apply back-pressure instead.
NothingReadIsLost ==
  /\ CTypeOK
  /\ session = "running" => owed = rx \o pending

\* The reader of a socket gives up only after that many failures in a row
\* ("Neither means the socket is dead, so keep receiving - but give up if
\* nothing succeeds anymore"): any success in between counts, an oversized
\* datagram too.
GivesUpOnDeadSocket ==
  transport = "udp" /\ session = "running" /\ reader = "gone" =>
    \A i \in 1 .. MAX_CONSECUTIVE_RECV_ERRORS : outcomes[Len(outcomes) + 1 - i] = "error"

\* Neighbours drop a new message of this node as a duplicate only when it has
\* the key of an older one: the same words under the same number.  That takes
\* a restart between the two, or a whole round of sequence numbers: refused
\* lines consume none and every message consumes one, across the wrap too.
KeyReusedOnlyAfterRound ==
  \A i, j \in DOMAIN log :
    i < j /\ log[i].msg = log[j].msg => log[i].life # log[j].life \/ j - i >= SEQ_MOD

\* While the cache suffices, a message is offered to the transport once: its
\* key is in the cache before, and stays there whether the transport takes the
\* relay, skips it as too large for the platform, or fails.
OfferedOnce ==
  Cardinality(Messages) + Len(log) <= SEEN_CAPACITY => \A msg \in Messages : offered[msg] <= 1

\* The printed name brings the node back under the identity its peers know.
NameBringsItBack == \A name \in node : NodeIdParse(name) = {name}

\* Whatever was read is handled, before or after the reader ends, unless the
\* user leaves; and when the reader is gone the session ends, and does not wait
\* for ever for a transport that is dead.
SessionDrains ==
  /\ session = "running" /\ owed # << >> ~> owed = << >> \/ session = "quit"
  /\ session = "running" /\ reader = "gone" ~> session # "running"
============================================================================
