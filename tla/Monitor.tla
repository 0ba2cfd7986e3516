------------------------------ MODULE Monitor ------------------------------
(***************************************************************************)
(* A host of the C interface: it creates one router, feeds it whatever the *)
(* scan hands over, always into the same storage for the action, and frees *)
(* the router in the end.                                                  *)
(***************************************************************************)
EXTENDS CInterface

CONSTANTS
  Received,                 \* the byte sequences the scan may hand over
  MaxIngests                \* bound on the calls of ingest

ASSUME ReceivedAssumption == Received \subseteq Seq(Byte)

\* The routing decision as module Router states it for the mesh: its keys are
\* the messages themselves.
R == INSTANCE Router WITH Nodes <- WireId, Everyone <- NoDest

AsRouted(p) ==
  [msg |-> [src |-> p.src, dest |-> p.dest, id |-> <<p.seq, p.payload>>], ttl |-> p.ttl]

VARIABLES
  router,                   \* the handle: the seen cache behind it, or {}
  out_action,               \* the host's storage
  status,                   \* of the last call of ingest
  fed,                      \* the bytes of that call ({} is null)
  known,                    \* the messages module Router would remember
  asRouter,                 \* and what it would do with those bytes
  ingests

mvars == <<router, out_action, status, fed, known, asRouter, ingests>>

\* Storage the host has not initialized.
Uninitialized ==
  [EMPTY EXCEPT !.kind = "Deliver", !.ttl = 9, !.payload = [i \in DOMAIN @ |-> 255],
                !.frame = [i \in DOMAIN @ |-> 255], !.frame_len = 99]

MInit ==
  /\ router = {}
  /\ out_action = Uninitialized
  /\ status = "None"
  /\ fed = {}
  /\ known = R!EmptyCache
  /\ asRouter = [delivers |-> FALSE, forwards |-> FALSE]
  /\ ingests = 0

\* poholos_router_new
RouterNew ==
  /\ router = {} /\ ingests = 0
  /\ router' = {EmptyCache}
  /\ UNCHANGED <<out_action, status, fed, known, asRouter, ingests>>

\* poholos_router_free
RouterFree ==
  /\ router # {}
  /\ router' = {}
  /\ UNCHANGED <<out_action, status, fed, known, asRouter, ingests>>

\* poholos_router_ingest; bytes = {} is a null pointer with a length.
Ingest(bytes) ==
  /\ ingests < MaxIngests /\ ingests' = ingests + 1
  /\ fed' = bytes
  /\ \/ /\ router = {} \/ bytes = {}
        /\ status' = "NullArgument"
        /\ UNCHANGED <<router, out_action, known, asRouter>>
     \/ \E cache \in router, received \in bytes :
          LET decoded == Decode(received, POHOLOS_MAX_FRAME_LEN)
              p == decoded.value
          IN  \/ /\ ~ decoded.ok
                 /\ status' = "DecodeError"
                 /\ UNCHANGED <<router, out_action, known, asRouter>>
              \/ /\ decoded.ok
                 /\ status' = "Ok"
                 /\ out_action' = Flatten(out_action, RouteAction(Host, cache, p))
                 /\ router' = {SeenAfter(Host, cache, p)}
                 /\ known' = R!CacheAfter(Host, known, AsRouted(p))
                 /\ asRouter' = [delivers |-> R!Delivers(Host, known, AsRouted(p)),
                                 forwards |-> R!Forwards(Host, known, AsRouted(p))]

MNext ==
  \/ RouterNew
  \/ RouterFree
  \/ \E bytes \in {{}} \cup {{b} : b \in Received} : Ingest(bytes)

MSpec == MInit /\ [][MNext]_mvars

----------------------------------------------------------------------------
\* The engine behind the C interface decides as module Router does for the
\* mesh, although it keys messages by the bytes dedup_key hashes and not by
\* the messages themselves: what the two shapes of a packet hash to must not
\* run into each other (packet.rs, dedup_key).
EngineIsRouter ==
  status = "Ok" =>
    /\ (out_action.kind \in {"Deliver", "DeliverAndForward"}) <=> asRouter.delivers
    /\ (out_action.kind \in {"Forward", "DeliverAndForward"}) <=> asRouter.forwards

\* What a host reads is one message and nothing of an earlier one ("Unused
\* fields are zeroed, so payload_len == 0 / frame_len == 0 reliably mean
\* absent"): the packet fields are those of the bytes fed in, with the hop
\* taken when the message is only passing through; the frame carries the same
\* message with one hop less; an ignored action is empty.
FlatActionIsWhole ==
  status = "Ok" =>
    LET out == out_action
        p == Decode(CHOOSE b \in fed : TRUE, POHOLOS_MAX_FRAME_LEN).value
        shown == [ttl |-> out.ttl, seq |-> out.seq, src |-> out.src,
                  dest |-> IF out.has_dest THEN out.dest ELSE NoDest,
                  payload |-> SubSeq(out.payload, 1, out.payload_len)]
        relay == Decode(SubSeq(out.frame, 1, out.frame_len), POHOLOS_MAX_FRAME_LEN)
    IN  /\ \A i \in DOMAIN out.payload : i > out.payload_len => out.payload[i] = 0
        /\ \A i \in DOMAIN out.frame : i > out.frame_len => out.frame[i] = 0
        /\ out.kind = "Deliver" => shown = p /\ out.frame_len = 0
        /\ out.kind = "DeliverAndForward" => shown = p /\ relay = Ok(Hopped(p))
        /\ out.kind = "Forward" => shown = Hopped(p) /\ relay = Ok(Hopped(p))
        /\ out.kind = "Ignore" =>
             out = [EMPTY EXCEPT !.ignore_reason = out.ignore_reason]
============================================================================
