------------------------------ MODULE MCBoard ------------------------------
EXTENDS Board

CONSTANTS node, buddy, stranger

Packet(dest, text, ttl) == [msg |-> [src |-> stranger, dest |-> dest, id |-> <<0, text>>], ttl |-> ttl]

\* A broadcast and two telegrams to this node.
IncomingMC == {Packet(Everyone, "x", 2), Packet(node, "x", 2), Packet(node, "y", 2)}

\* Closed under hops: whatever the copy of a packet still has ahead of it.
FramesMC ==
  {Packet(dest, text, ttl) :
     dest \in {Everyone, node}, text \in {"x", "y"}, ttl \in 0 .. DEFAULT_TTL}
  \cup {[msg |-> [src |-> node, dest |-> d, id |-> <<k, r>>], ttl |-> ttl] :
          d \in {buddy, Everyone}, k \in 0 .. SEQ_MOD - 1, r \in {"A", "B", "text"},
          ttl \in 0 .. DEFAULT_TTL}
============================================================================
