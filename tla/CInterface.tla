----------------------------- MODULE CInterface -----------------------------
(***************************************************************************)
(* The C interface of the routing engine, crates/poholos-ffi/src/lib.rs:   *)
(* the router behind an opaque handle and the fixed-size PoholosAction its *)
(* decisions are flattened into.  The decision itself is Router::ingest of *)
(* crates/poholos/src/router.rs on the packets of module Wire.             *)
(***************************************************************************)
EXTENDS Wire, Seen

CONSTANT Host               \* wire id of the host's display name

ASSUME HostAssumption == Host \in WireId

POHOLOS_MAX_FRAME_LEN == MAX_EXT_FRAME_LEN
POHOLOS_MAX_PAYLOAD_LEN == MAX_EXT_FRAME_LEN - HEADER_LEN_HEARSAY

\* RouteAction::Ignore(reason)
Ignore(reason) == [kind |-> "Ignore", reason |-> reason]

\* Router::ingest on the packet it has decoded.
RouteAction(local, cache, p) ==
  CASE p.src = local -> Ignore("Own")
    [] p.src # local /\ ~ NewlySeen(cache, KeyBytes(p)) -> Ignore("Duplicate")
    [] OTHER ->
         IF p.dest = NoDest
         THEN IF MayHop(p)
              THEN [kind |-> "DeliverAndForward", packet |-> p, frame |-> Encode(Hopped(p))]
              ELSE [kind |-> "Deliver", packet |-> p]
         ELSE IF p.dest = local THEN [kind |-> "Deliver", packet |-> p]
         ELSE IF MayHop(p) THEN [kind |-> "Forward", frame |-> Encode(Hopped(p))]
         ELSE Ignore("ExpiredTtl")

\* The seen cache Router::ingest leaves.
SeenAfter(local, cache, p) == IF p.src = local THEN cache ELSE Insert(cache, KeyBytes(p))

----------------------------------------------------------------------------
Zeros(n) == [i \in 1 .. n |-> 0]

\* The first bytes of a fixed array replaced by others.
Into(array, bytes) ==
  [i \in DOMAIN array |-> IF i <= Len(bytes) THEN bytes[i] ELSE array[i]]

\* PoholosAction::EMPTY
EMPTY ==
  [kind |-> "Ignore", ignore_reason |-> "None", has_dest |-> FALSE, ttl |-> 0,
   seq |-> 0, payload_len |-> 0, frame_len |-> 0, src |-> Zeros(4),
   dest |-> Zeros(4), payload |-> Zeros(POHOLOS_MAX_PAYLOAD_LEN),
   frame |-> Zeros(POHOLOS_MAX_FRAME_LEN)]

\* fill_packet
FillPacket(out, p) ==
  [out EXCEPT !.has_dest = p.dest # NoDest,
              !.ttl = p.ttl,
              !.seq = p.seq,
              !.src = p.src,
              !.dest = IF p.dest = NoDest THEN Zeros(4) ELSE p.dest,
              !.payload = Into(@, p.payload),
              !.payload_len = Len(p.payload)]

\* fill_frame
FillFrame(out, frame) ==
  [out EXCEPT !.frame = Into(@, frame), !.frame_len = Len(frame)]

\* Mutant of Start: the caller's storage is filled in place.
StartInPlace(out) == out

\* Flattening starts from the empty action, whatever the storage holds.
Start(out) == EMPTY

\* flatten, into storage that holds `out`.  A relay is decoded again, so that
\* the packet fields are those of the relayed packet.
Flatten(out, action) ==
  LET start == [Start(out) EXCEPT !.kind = action.kind]
  IN  CASE action.kind = "Deliver" -> FillPacket(start, action.packet)
        [] action.kind = "DeliverAndForward" ->
             FillFrame(FillPacket(start, action.packet), action.frame)
        [] action.kind = "Forward" ->
             LET relay == Decode(action.frame, POHOLOS_MAX_FRAME_LEN)
             IN  IF relay.ok
                 THEN FillPacket(FillFrame(start, action.frame), relay.value)
                 ELSE FillFrame(start, action.frame)
        [] action.kind = "Ignore" -> [start EXCEPT !.ignore_reason = action.reason]
============================================================================
