------------------------------- MODULE Router -------------------------------
(***************************************************************************)
(* The routing decision of one node, crates/poholos/src/router.rs: what    *)
(* `ingest` does with a decoded packet, and what it leaves in the cache.   *)
(*                                                                         *)
(* A packet is a message and a TTL.  The message stands for everything     *)
(* dedup_key hashes: source, sequence number, destination and payload; the *)
(* TTL is what the key leaves out, so that copies of one message at        *)
(* different distances are duplicates of each other.                       *)
(***************************************************************************)
EXTENDS Seen

CONSTANTS
  Nodes,                    \* wire ids
  Everyone,                 \* the destination of hearsay
  DEFAULT_TTL               \* hops granted to a new packet (16)

ASSUME EveryoneAssumption == Everyone \notin Nodes
ASSUME TtlAssumption == DEFAULT_TTL \in Nat \ {0}

Message == [src : Nodes, dest : Nodes \cup {Everyone}, id : Nat]

\* A packet as it is first encoded.
NewPacket(msg) == [msg |-> msg, ttl |-> DEFAULT_TTL]

\* PacketN::dedup_key
Key(packet) == packet.msg

\* Mutant of MayHop: the last hop is not granted.
MayHopAboveTwo(packet) == packet.ttl > 2

\* PacketN::hop: whether a hop remains ...
MayHop(packet) == packet.ttl > 1

\* Mutant of Hopped: the TTL is kept.
HoppedForFree(packet) == packet

\* ... and the packet with that hop taken.
Hopped(packet) == [packet EXCEPT !.ttl = @ - 1]

\* Our own advertisements echo back from the radio.
IsOwn(local, packet) == packet.msg.src = local

\* Mutant of IsForMe: every packet is shown.
AllIsForMe(local, packet) == TRUE

IsForMe(local, packet) == packet.msg.dest \in {local, Everyone}

\* The packet is neither an echo nor a duplicate.
IsFresh(local, cache, packet) ==
  ~ IsOwn(local, packet) /\ NewlySeen(cache, Key(packet))

\* ingest: RouteAction is Deliver or DeliverAndForward ...
Delivers(local, cache, packet) ==
  IsFresh(local, cache, packet) /\ IsForMe(local, packet)

\* ... and it is DeliverAndForward or Forward: the destination consumes a
\* telegram, everything else goes on while hops remain.
Forwards(local, cache, packet) ==
  /\ IsFresh(local, cache, packet)
  /\ packet.msg.dest # local
  /\ MayHop(packet)

\* Mutant of CacheAfter: a key is remembered only once the packet is shown.
CacheAfterDelivery(local, cache, packet) ==
  IF IsOwn(local, packet) \/ ~ IsForMe(local, packet) THEN cache ELSE Insert(cache, Key(packet))

\* The key is inserted before the TTL is looked at, and never for an echo.
CacheAfter(local, cache, packet) ==
  IF IsOwn(local, packet) THEN cache ELSE Insert(cache, Key(packet))
============================================================================
