-------------------------------- MODULE Wire --------------------------------
(***************************************************************************)
(* Packets and their on-air encoding: crates/poholos/src/packet.rs and     *)
(* crates/poholos/src/wire.rs.  A frame is a sequence of bytes; a wire id  *)
(* is its four bytes on air, and a packet without destination has the      *)
(* empty sequence in place of one.  `cap` is the const parameter CAP of    *)
(* FrameN and PacketN.                                                     *)
(***************************************************************************)
EXTENDS Naturals, Sequences

MAX_FRAME_LEN == 22         \* what survives the overhead of legacy advertising
HEADER_LEN_HEARSAY == 7     \* flags, seq, src
HEADER_LEN_TELEGRAM == 11   \* and dest
MAX_EXT_FRAME_LEN == HEADER_LEN_TELEGRAM + 200
MAX_TTL == 31               \* five bits
DEFAULT_TTL == 16

WIRE_VERSION == 0
WIRE_VERSION_EXT == 1

Byte == 0 .. 255
SeqNumber == 0 .. 65535
WireId == [1 .. 4 -> Byte]
NoDest == << >>

HeaderLen(dest) == IF dest = NoDest THEN HEADER_LEN_HEARSAY ELSE HEADER_LEN_TELEGRAM

Ok(value) == [ok |-> TRUE, value |-> value]
Err(kind) == [ok |-> FALSE, error |-> kind]

----------------------------------------------------------------------------
(***************************************************************************)
(* Packets.                                                                *)
(***************************************************************************)

\* The packets of capacity cap.
PacketN(cap) ==
  {p \in [ttl : 1 .. MAX_TTL, seq : SeqNumber, src : WireId, dest : WireId \cup {NoDest},
          payload : Seq(Byte)] : HeaderLen(p.dest) + Len(p.payload) <= cap}

ValidTtl(ttl) == ttl # 0 /\ ttl <= MAX_TTL

\* PayloadN::copy_from
PayloadFits(payload, max) == Len(payload) <= max

\* hearsay_with (dest = NoDest) and telegram_with: the TTL is looked at first.
Construct(src, dest, seq, payload, ttl, cap) ==
  IF ~ ValidTtl(ttl) THEN Err("TtlOutOfRange")
  ELSE IF ~ PayloadFits(payload, cap - HeaderLen(dest)) THEN Err("PayloadTooLong")
  ELSE Ok([ttl |-> ttl, seq |-> seq, src |-> src, dest |-> dest, payload |-> payload])

\* hop: whether a hop remains ...
MayHop(p) == p.ttl > 1

\* ... and the packet with that hop taken.
Hopped(p) == [p EXCEPT !.ttl = @ - 1]

BigEndian(n) == <<n \div 256, n % 256>>

\* Mutant of KeyBytes: the shape is not hashed.
KeyBytesShapeless(p) == p.src \o BigEndian(p.seq) \o p.dest \o p.payload

\* The bytes dedup_key folds into the hash, which itself is taken to be
\* injective.
KeyBytes(p) ==
  <<IF p.dest = NoDest THEN 0 ELSE 1>> \o p.src \o BigEndian(p.seq) \o p.dest \o p.payload

----------------------------------------------------------------------------
(***************************************************************************)
(* The codec.                                                              *)
(***************************************************************************)

\* Mutant of Version: a frame that just fits is tagged extended.
VersionOffByOne(p) ==
  IF HeaderLen(p.dest) + Len(p.payload) >= MAX_FRAME_LEN
  THEN WIRE_VERSION_EXT ELSE WIRE_VERSION

\* Frames within the legacy budget stay version 0.
Version(p) ==
  IF HeaderLen(p.dest) + Len(p.payload) > MAX_FRAME_LEN
  THEN WIRE_VERSION_EXT ELSE WIRE_VERSION

\* Byte 0: version in two bits, has_dest in one, TTL in five.
Flags(p) == 64 * Version(p) + (IF p.dest = NoDest THEN 0 ELSE 32) + (p.ttl % 32)

Encode(p) == <<Flags(p)>> \o BigEndian(p.seq) \o p.src \o p.dest \o p.payload

VersionOf(flags) == flags \div 64
HasDest(flags) == (flags \div 32) % 2 = 1
TtlOf(flags) == flags % 32
HeaderLenOf(flags) == IF HasDest(flags) THEN HEADER_LEN_TELEGRAM ELSE HEADER_LEN_HEARSAY

\* Mutant of Rejection: the TTL is left to the constructor.
RejectionButTtl(bytes, cap) ==
  IF Len(bytes) > cap THEN "Oversized"
  ELSE IF Len(bytes) < HEADER_LEN_HEARSAY THEN "Truncated"
  ELSE IF VersionOf(bytes[1]) \notin {WIRE_VERSION, WIRE_VERSION_EXT} THEN "UnsupportedVersion"
  ELSE IF Len(bytes) < HeaderLenOf(bytes[1]) THEN "Truncated"
  ELSE "None"

\* Why decode refuses bytes: the tests in the order of the code.
Rejection(bytes, cap) ==
  IF Len(bytes) > cap THEN "Oversized"
  ELSE IF Len(bytes) < HEADER_LEN_HEARSAY THEN "Truncated"
  ELSE IF VersionOf(bytes[1]) \notin {WIRE_VERSION, WIRE_VERSION_EXT} THEN "UnsupportedVersion"
  ELSE IF TtlOf(bytes[1]) = 0 THEN "ZeroTtl"
  ELSE IF Len(bytes) < HeaderLenOf(bytes[1]) THEN "Truncated"
  ELSE "None"

Decode(bytes, cap) ==
  IF Rejection(bytes, cap) # "None" THEN Err(Rejection(bytes, cap))
  ELSE Construct(SubSeq(bytes, 4, 7),
                 IF HasDest(bytes[1]) THEN SubSeq(bytes, 8, 11) ELSE NoDest,
                 256 * bytes[2] + bytes[3],
                 SubSeq(bytes, HeaderLenOf(bytes[1]) + 1, Len(bytes)),
                 TtlOf(bytes[1]),
                 cap)

\* FrameN::copy_from, by which received bytes enter a frame of capacity cap.
CopyFrom(bytes, cap) == IF Len(bytes) > cap THEN Err("Oversized") ELSE Ok(bytes)
============================================================================
