------------------------------ MODULE Passage ------------------------------
(***************************************************************************)
(* The passage of one message from node to node: composed on one platform, *)
(* advertised in the carrier of that platform, picked out of the           *)
(* advertisement by a node of any platform, decoded, forwarded with one    *)
(* hop less, and so on.  Foreign advertisements may start a passage too.   *)
(* Which nodes forward is decided in module Router; here every node that   *)
(* may forward does, or the message goes no further.                       *)
(***************************************************************************)
EXTENDS Carriers, Integers, Functions

CONSTANTS
  Typed,                    \* [src, dest, seq, payload, ttl] given to a constructor
  Foreign                   \* the AD structures of advertisements of other devices

\* What a constructor is given, and what any advertisement is made of: at most
\* 254 bytes behind the type, and a service UUID of 16.
ASSUME TypedAssumption ==
  Typed \subseteq [src : WireId, dest : WireId \cup {NoDest}, seq : SeqNumber,
                   payload : Seq(Byte), ttl : Byte]
ASSUME ForeignAssumption ==
  /\ Foreign \subseteq Seq(AdStructure)
  /\ \A structures \in Foreign : \A i \in DOMAIN structures :
       structures[i].type = AD_TYPE_UUID128 => Len(structures[i].data) = 16

Platforms == {"linux", "windows", "macos", "board"}

\* The largest frame each platform puts on air.
MAX_FRAME ==
  [linux |-> MAX_FRAME_LEN, windows |-> 156, macos |-> MAX_UUID_FRAME,
   board |-> MAX_EXT_FRAME_LEN]

\* An advertisement on air: its AD structures, how many bytes a report of it
\* has (fewer when it is cut off, more when it is padded with zeros), and
\* whether it is an extended advertisement.
Advertisement(structures, bytes, extended) ==
  [structures |-> structures, bytes |-> bytes, extended |-> extended]

VARIABLES
  frames,                   \* the frame a node has at hand, or {}
  platform,                 \* of that node
  on_air,                   \* the advertisement on air, or {}
  origin,                   \* the packet first encoded or first heard, or {}
  arrived,                  \* the packet last decoded, or {}
  hops                      \* how often origin was forwarded before it arrived

pvars == <<frames, platform, on_air, origin, arrived, hops>>

PInit ==
  /\ frames = {} /\ on_air = {} /\ origin = {} /\ arrived = {}
  /\ platform \in Platforms
  /\ hops = 0

\* A packet is constructed from what was typed, and encoded.
Compose(typed) ==
  /\ origin = {} /\ on_air = {}
  /\ LET packet == Construct(typed.src, typed.dest, typed.seq, typed.payload, typed.ttl,
                             MAX_EXT_FRAME_LEN)
     IN  /\ packet.ok
         /\ origin' = {packet.value}
         /\ frames' = {Encode(packet.value)}
  /\ UNCHANGED <<platform, on_air, arrived, hops>>

\* Frames above the legacy budget use extended advertising.
Extended(frame) == Len(frame) > MAX_FRAME_LEN

\* What a platform puts the frame in: manufacturer data, or a service UUID
\* next to the advertised name.
Structures(frame) ==
  IF platform = "macos"
  THEN <<Structure(AD_TYPE_FLAGS, <<26>>),
         Structure(AD_TYPE_UUID128, FrameToServiceUuid(frame))>>
  ELSE IF platform = "board"
  THEN <<Structure(AD_TYPE_MANUFACTURER, COMPANY_ID \o frame)>>
  ELSE <<Structure(AD_TYPE_FLAGS, <<6>>),
         Structure(AD_TYPE_MANUFACTURER, COMPANY_ID \o frame)>>

\* set_frame of the platform, which sees only frames within its budget.
SetFrame(frame, bytes) ==
  /\ Len(frame) <= MAX_FRAME[platform]
  /\ on_air' = {Advertisement(Structures(frame), bytes, Extended(frame))}
  /\ frames' = {}
  /\ UNCHANGED <<platform, origin, arrived, hops>>

\* send_own refuses a frame over the budget, send_relay skips it.
OverBudget(frame) ==
  /\ Len(frame) > MAX_FRAME[platform]
  /\ frames' = {}
  /\ UNCHANGED <<platform, on_air, origin, arrived, hops>>

\* How many bytes a report of the structures may have.
ReportLengths(structures) == {Len(Raw(structures)) + k : k \in {-1, 0, 2}} \cap Nat

\* Another device advertises.
ForeignAdvertisement(structures, bytes) ==
  /\ origin = {} /\ on_air = {}
  /\ on_air' = {Advertisement(structures, bytes, FALSE)}
  /\ UNCHANGED <<frames, platform, origin, arrived, hops>>

----------------------------------------------------------------------------
\* The report a board's controller hands over, and the frames ScanHandler
\* finds in it.
Report(ad) ==
  LET raw == Raw(ad.structures)
  IN  [i \in 1 .. ad.bytes |-> IF i <= Len(raw) THEN raw[i] ELSE 0]

OnBoard(ad) == {f \in ManufacturerFrame(Report(ad)) : CopyFrom(f, MAX_EXT_FRAME_LEN).ok}

\* What the desktop's Bluetooth stack makes of an advertisement that came
\* through whole: the value under our company id, and the service UUIDs.
Manufacturer(ad) ==
  LET ours == {s \in Range(ad.structures) :
                 IsOurs(<<s.type>> \o s.data)}
  IN  {SubSeq(s.data, 3, Len(s.data)) : s \in ours}
Services(ad) == {s.data : s \in {x \in Range(ad.structures) : x.type = AD_TYPE_UUID128}}

\* The frames a desktop's scan_loop sends on.
OnDesktop(ad) ==
  IF ad.bytes < Len(Raw(ad.structures)) THEN {}
  ELSE FrameFromManufacturer(Manufacturer(ad))
       \cup UNION {FrameFromServiceUuid(u) : u \in Services(ad)}

Heard(receiver, ad) == IF receiver = "board" THEN OnBoard(ad) ELSE OnDesktop(ad)

\* A node hears the advertisement, decodes the frame and forwards the packet
\* while hops remain.
Hear(receiver, ad, frame) ==
  /\ frame \in Heard(receiver, ad)
  /\ LET packet == Decode(frame, MAX_EXT_FRAME_LEN)
     IN  /\ packet.ok
         /\ arrived' = {packet.value}
         /\ origin' = IF origin = {} THEN {packet.value} ELSE origin
         /\ hops' = IF arrived = {} THEN 0 ELSE hops + 1
         /\ frames' = IF MayHop(packet.value) THEN {Encode(Hopped(packet.value))} ELSE {}
  /\ platform' = receiver
  /\ on_air' = {}

PNext ==
  \/ \E typed \in Typed : Compose(typed)
  \/ \E frame \in frames : \E bytes \in ReportLengths(Structures(frame)) :
       SetFrame(frame, bytes)
  \/ \E frame \in frames : OverBudget(frame)
  \/ \E structures \in Foreign : \E bytes \in ReportLengths(structures) :
       ForeignAdvertisement(structures, bytes)
  \/ \E ad \in on_air, receiver \in Platforms : \E frame \in Heard(receiver, ad) :
       Hear(receiver, ad, frame)

PSpec == PInit /\ [][PNext]_pvars

----------------------------------------------------------------------------
\* Whatever carriers, re-encodings and reports cut short a message passes
\* through, it arrives as it was first encoded, less the hops taken: shape,
\* payload and length included, so that every copy has the same dedup key.
ArrivesAsSent ==
  \A p \in origin, q \in arrived : q = [p EXCEPT !.ttl = @ - hops] /\ KeyBytes(q) = KeyBytes(p)

\* `decode` never reaches its `expect`: what passes its tests satisfies the
\* invariants of the packet, at either capacity and for any frame at all that
\* is picked out of the air, and `encode` never puts TTL 0 on air again.
CodecNeverPanics ==
  \A ad \in on_air, receiver \in Platforms, cap \in {MAX_FRAME_LEN, MAX_EXT_FRAME_LEN} :
    \A f \in Heard(receiver, ad) :
      /\ Rejection(f, cap) = "None" => Decode(f, cap).ok
      /\ origin # {} => Rejection(f, MAX_EXT_FRAME_LEN) = "None"

\* The wire version, chosen in `encode` from the payload, and the kind of
\* advertisement, chosen by the platform from the frame, always agree: what is
\* short enough for every node is version 0 in a legacy advertisement.
ReachMatchesVersion ==
  \A ad \in on_air : \A f \in UNION {Heard(r, ad) : r \in Platforms} :
    origin # {} => /\ (VersionOf(f[1]) = WIRE_VERSION_EXT) <=> ad.extended
                   /\ ad.extended \/ Decode(f, MAX_FRAME_LEN) = Decode(f, MAX_EXT_FRAME_LEN)

\* The walk over raw bytes finds what the structures were composed of: the
\* first entry under our company id that came through whole, whatever other
\* structures stand before it and wherever the report is cut off.
WalkFindsTheFrame ==
  \A ad \in on_air :
    LET whole(i) == Len(Raw(SubSeq(ad.structures, 1, i))) <= ad.bytes
        ours == {i \in DOMAIN ad.structures :
                   /\ whole(i)
                   /\ ad.structures[i].type = AD_TYPE_MANUFACTURER
                   /\ Len(ad.structures[i].data) >= 2
                   /\ SubSeq(ad.structures[i].data, 1, 2) = COMPANY_ID}
        first == {i \in ours : \A j \in ours : i <= j}
    IN  ManufacturerFrame(Report(ad)) =
          {SubSeq(ad.structures[i].data, 3, Len(ad.structures[i].data)) : i \in first}
============================================================================
