------------------------------ MODULE Carriers ------------------------------
(***************************************************************************)
(* How a frame travels inside a Bluetooth advertisement: as manufacturer   *)
(* data found by walking the raw AD structures (`manufacturer_frame`,      *)
(* crates/poholos/src/wire.rs) or handed over as a map, and packed into a  *)
(* 128-bit service UUID (crates/poholos-cli/src/transport/ble/scan.rs).    *)
(*                                                                         *)
(* An Option is the set of its value, or the empty set.                    *)
(***************************************************************************)
EXTENDS Wire, FiniteSets

COMPANY_ID == <<12, 241>>   \* 0xF10C as on air, little-endian

AD_TYPE_FLAGS == 1
AD_TYPE_UUID128 == 7
AD_TYPE_MANUFACTURER == 255
MANUFACTURER_HEADER_LEN == 3

UUID_TAG == 240
MAX_UUID_FRAME == 15
MIN_FRAME == 7

\* An AD structure: a type and its data.
AdStructure == [type : Byte, data : {data \in Seq(Byte) : Len(data) < 255}]
Structure(type, data) == [type |-> type, data |-> data]

\* The bytes of AD structures on air, each behind its length.
Raw(structures) ==
  LET bytes[i \in 0 .. Len(structures)] ==
        IF i = 0 THEN << >>
        ELSE bytes[i - 1] \o <<Len(structures[i].data) + 1, structures[i].type>>
                          \o structures[i].data
  IN  bytes[Len(structures)]

\* Mutant of IsOurs: the company id is not compared.
AnyManufacturer(entry) ==
  entry[1] = AD_TYPE_MANUFACTURER /\ Len(entry) >= MANUFACTURER_HEADER_LEN

\* The entry of an AD structure is manufacturer data under our company id.
IsOurs(entry) ==
  /\ entry[1] = AD_TYPE_MANUFACTURER
  /\ Len(entry) >= MANUFACTURER_HEADER_LEN
  /\ SubSeq(entry, 2, 3) = COMPANY_ID

\* manufacturer_frame: the frame in the first entry that is ours; a length of
\* zero or one that runs over the end stops the walk.
ManufacturerFrame(ad) ==
  LET from[i \in 1 .. Len(ad) + 1] ==
        IF i > Len(ad) \/ ad[i] = 0 \/ i + ad[i] > Len(ad) THEN {}
        ELSE LET entry == SubSeq(ad, i + 1, i + ad[i])
             IN  IF IsOurs(entry)
                 THEN {SubSeq(entry, MANUFACTURER_HEADER_LEN + 1, Len(entry))}
                 ELSE from[i + ad[i] + 1]
  IN  from[1]

\* frame_from_manufacturer, given the value of the stack's map under our
\* company id, if it has one.
FrameFromManufacturer(data) == {bytes \in data : CopyFrom(bytes, MAX_EXT_FRAME_LEN).ok}

\* frame_to_service_uuid, of a frame within MAX_UUID_FRAME: tag and length in
\* one byte, then the frame, then zeros.
FrameToServiceUuid(frame) ==
  [i \in 1 .. 16 |-> IF i = 1 THEN UUID_TAG + Len(frame)
                     ELSE IF i - 1 <= Len(frame) THEN frame[i - 1] ELSE 0]

\* Mutant of FrameFromServiceUuid: the padding is taken for payload.
FrameFromPaddedUuid(uuid) ==
  IF uuid[1] \div 16 = 15 /\ uuid[1] % 16 \in MIN_FRAME .. MAX_UUID_FRAME
  THEN {SubSeq(uuid, 2, 16)} ELSE {}

\* frame_from_service_uuid: a foreign UUID fails the tag or the length.
FrameFromServiceUuid(uuid) ==
  LET len == uuid[1] % 16
  IN  IF 16 * (uuid[1] \div 16) = UUID_TAG /\ len \in MIN_FRAME .. MAX_UUID_FRAME
      THEN {SubSeq(uuid, 2, len + 1)} ELSE {}
============================================================================
