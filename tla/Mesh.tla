-------------------------------- MODULE Mesh --------------------------------
(***************************************************************************)
(* Flooding: the routers of several nodes over a radio that loses,         *)
(* repeats and reorders frames (crates/poholos/src/router.rs driven by the *)
(* chat loop of crates/poholos-cli/src/app.rs, as in                       *)
(* crates/poholos/tests/mesh.rs).                                          *)
(*                                                                         *)
(* A transmission on air may be heard any number of times by every node in *)
(* range of its sender, in any order, or by none before it ends; that      *)
(* covers repeated advertising events, collisions, queues that shed, and   *)
(* relays that are skipped or never registered.  A node may restart, which *)
(* forgets its cache and ends its transmissions.                           *)
(***************************************************************************)
EXTENDS Router, FiniteSets

CONSTANTS
  Links,                    \* pairs of nodes in range of each other
  Messages,                 \* the messages users will type
  MaxRestarts,              \* bound: restarts in one run
  CountCap                  \* bound: where the histories stop counting

ASSUME LinksAssumption ==
  /\ Links \subseteq Nodes \X Nodes
  /\ \A n, m \in Nodes : <<n, m>> \in Links => <<m, n>> \in Links
ASSUME MessagesAssumption == Messages \subseteq Message
ASSUME MeshBoundsAssumption == MaxRestarts \in Nat /\ CountCap \in Nat \ {0, 1}

VARIABLES
  seen,                     \* the seen cache of each node's router
  air,                      \* transmissions: a packet and the node sending it
  typed,                    \* messages originated so far
  restarts,
  delivered,                \* history: deliveries of a message to the user
                            \* of a node since its router was created
  relayed                   \* history: likewise its forwards

vars == <<seen, air, typed, restarts, delivered, relayed>>

Packet == [msg : Messages, ttl : 1 .. DEFAULT_TTL]
Transmission == [packet : Packet, by : Nodes]

\* Router::new at every node.
Init ==
  /\ seen = [n \in Nodes |-> EmptyCache]
  /\ air = {}
  /\ typed = {}
  /\ restarts = 0
  /\ delivered = [n \in Nodes |-> [msg \in Messages |-> 0]]
  /\ relayed = [n \in Nodes |-> [msg \in Messages |-> 0]]

\* One more, as far as anyone counts.
Count(history, n, msg, happens) ==
  IF happens /\ history[n][msg] < CountCap
  THEN [history EXCEPT ![n][msg] = @ + 1]
  ELSE history

\* Router::originate, then send_own.  Each typed line has a sequence number of
\* its own, so a message is originated once.
Originate(msg) ==
  /\ msg \notin typed
  /\ typed' = typed \cup {msg}
  /\ seen' = [seen EXCEPT ![msg.src] = Insert(@, Key(NewPacket(msg)))]
  /\ air' = air \cup {[packet |-> NewPacket(msg), by |-> msg.src]}
  /\ UNCHANGED <<restarts, delivered, relayed>>

\* Node m hears what node n transmits, which includes n itself.
HasRange(n, m) == n = m \/ <<n, m>> \in Links

\* Router::ingest, then print_delivery and send_relay.
Hear(n, t) ==
  LET p == t.packet
      forwards == Forwards(n, seen[n], p)
  IN  /\ HasRange(t.by, n)
      /\ seen' = [seen EXCEPT ![n] = CacheAfter(n, @, p)]
      /\ air' = IF forwards
                THEN air \cup {[packet |-> Hopped(p), by |-> n]}
                ELSE air
      /\ delivered' = Count(delivered, n, p.msg, Delivers(n, seen[n], p))
      /\ relayed' = Count(relayed, n, p.msg, forwards)
      /\ UNCHANGED <<typed, restarts>>

\* A transmission ends, heard or not.
Fade(t) ==
  /\ air' = air \ {t}
  /\ UNCHANGED <<seen, typed, restarts, delivered, relayed>>

\* The process exits and a new one starts with an empty cache.
Restart(n) ==
  /\ restarts < MaxRestarts
  /\ restarts' = restarts + 1
  /\ seen' = [seen EXCEPT ![n] = EmptyCache]
  /\ air' = {t \in air : t.by # n}
  /\ delivered' = [delivered EXCEPT ![n] = [msg \in Messages |-> 0]]
  /\ relayed' = [relayed EXCEPT ![n] = [msg \in Messages |-> 0]]
  /\ UNCHANGED typed

Next ==
  \/ \E msg \in Messages : Originate(msg)
  \/ \E t \in air : Fade(t) \/ \E n \in Nodes : Hear(n, t)
  \/ \E n \in Nodes : Restart(n)

Spec == Init /\ [][Next]_vars

----------------------------------------------------------------------------
TypeOK ==
  /\ \A n \in Nodes : seen[n] \in Seq(Messages) /\ Len(seen[n]) <= SEEN_CAPACITY
  /\ air \subseteq Transmission
  /\ typed \subseteq Messages
  /\ restarts \in 0 .. MaxRestarts
  /\ delivered \in [Nodes -> [Messages -> 0 .. CountCap]]
  /\ relayed \in [Nodes -> [Messages -> 0 .. CountCap]]

\* While the caches can hold every message that circulates, no user is shown a
\* message twice and no node forwards one twice, however the radio repeats and
\* reorders the copies and whoever restarts (seen.rs:4-8, rule 2 of router.rs).
AtMostOnce ==
  /\ TypeOK
  /\ \A n \in Nodes, msg \in Messages : delivered[n][msg] <= 1 /\ relayed[n][msg] <= 1

\* Rules 1 and 3 of router.rs: whatever a cache forgets, a node is never shown
\* its own message, a telegram is shown to its destination alone, and only
\* what somebody typed is shown at all.
ShownToTheRightUser ==
  \A n \in Nodes, msg \in Messages :
    delivered[n][msg] > 0 => msg \in typed /\ msg.src # n /\ msg.dest \in {n, Everyone}

\* Node m can be reached from node n in `hops` hops.  A hop goes to a node in
\* range of the last one, which includes the sender itself: a relay that has
\* forgotten a message takes its own echo for a new packet.
Reachable(n, m, hops) ==
  \E path \in [0 .. hops -> Nodes] :
    /\ path[0] = n /\ path[hops] = m
    /\ \A i \in 0 .. hops - 1 : HasRange(path[i], path[i + 1])

\* The TTL counts hops (packet.rs:44-50, 315-322): a frame on air with so many
\* hops left has taken the others from its source, none goes out with no hop
\* left, and so no message travels further than DEFAULT_TTL - 1 relays, even
\* through caches that have forgotten it, where it may circle.
HopBudget ==
  \A t \in air :
    /\ t.packet.ttl >= 1
    /\ Reachable(t.packet.msg.src, t.by, DEFAULT_TTL - t.packet.ttl)
============================================================================
