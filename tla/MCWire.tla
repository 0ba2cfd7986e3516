------------------------------- MODULE MCWire -------------------------------
(* The passage of a message, a host of the C interface and the Swift monitor  *)
(* side by side.  They share no state, so it is enough to let one of them     *)
(* move in a behaviour.                                                       *)
EXTENDS Passage, Monitor, MeshMonitor

A == <<170, 1, 0, 255>>
B == <<0, 0, 0, 7>>
H == <<1, 2, 3, 4>>

\* A payload of n bytes that begins like the wire id B.
Payload(n) == [i \in 1 .. n |-> IF i <= 4 THEN B[i] ELSE i % 256]

Message(dest, seq, n, ttl) ==
  [src |-> A, dest |-> dest, seq |-> seq, payload |-> Payload(n), ttl |-> ttl]

\* Both shapes at each side of the limits of a UUID, of a legacy frame, of the
\* Windows adapter and of an extended frame; every TTL that is special.
TypedMC ==
  {Message(NoDest, 65535, n, 3) : n \in {0, 4, 8, 9, 15, 16, 149, 150, 204, 205}}
  \cup {Message(B, 256, n, 3) : n \in {0, 4, 5, 11, 12, 145, 146, 200, 201}}
  \cup {Message(d, 1, 5, t) : d \in {B, NoDest}, t \in {0, 1, 2, 31, 32}}

Noise(flags, n) == <<flags, 0, 5>> \o A \o Payload(n)

\* Frames nobody here encodes: TTL 0, unknown versions, version 1 although
\* short, telegrams without a destination, one byte, none, too many.
NoiseFrames ==
  {Noise(f, n) : f \in {0, 3, 32, 35, 67, 99, 131, 195}, n \in {0, 3, 4, 16}}
  \cup {<< >>, <<3>>, SubSeq(Noise(3, 0), 1, 6), Noise(67, 204), Noise(67, 205)}

Ours(frame) == Structure(AD_TYPE_MANUFACTURER, COMPANY_ID \o frame)

\* Our company id with noise, alone and behind structures of other vendors;
\* other vendors' data that looks like a frame; service UUIDs of others.
ForeignMC ==
  {<<Structure(AD_TYPE_FLAGS, <<6>>), Ours(f)>> : f \in NoiseFrames}
  \cup {<<Structure(AD_TYPE_MANUFACTURER, <<76, 0>> \o Noise(3, 2)), Ours(Noise(2, 1))>>,
        <<Structure(AD_TYPE_MANUFACTURER, <<12>>), Ours(Noise(2, 1)), Ours(Noise(3, 2))>>,
        <<Structure(AD_TYPE_MANUFACTURER, <<76, 0>> \o Noise(3, 2))>>,
        <<Structure(9, COMPANY_ID \o Noise(3, 2)), Structure(AD_TYPE_FLAGS, <<6>>)>>,
        <<Structure(AD_TYPE_MANUFACTURER, COMPANY_ID)>>, << >>}
  \cup {<<Structure(AD_TYPE_UUID128, u)>> :
          u \in {<<0, 0, 24, 15, 0, 0, 16, 0, 128, 0, 0, 128, 95, 155, 52, 251>>,
                 [i \in 1 .. 16 |-> IF i = 1 THEN 241 ELSE 0],
                 <<247>> \o Noise(3, 0) \o Payload(8),
                 <<248>> \o Noise(35, 0) \o Payload(8)}}

\* The host hears both shapes of the same bytes, copies with other TTLs, its
\* own echo, a telegram to it and one that ends here, long ones, and noise.
ReceivedMC ==
  {Encode([ttl |-> t, seq |-> 5, src |-> A, dest |-> d, payload |-> p]) :
     t \in {1, 3}, d \in {NoDest, B, H}, p \in {<< >>, B \o <<9>>, <<9>>}}
  \cup {Encode([ttl |-> 2, seq |-> 5, src |-> H, dest |-> NoDest, payload |-> <<9>>]),
        Encode([ttl |-> 2, seq |-> 6, src |-> A, dest |-> NoDest, payload |-> Payload(204)]),
        Noise(0, 3), << >>}

\* The monitor hears copies of a broadcast and of a telegram to another node,
\* one with no hops left.
Telegram(dest, ttl) == [msg |-> [src |-> A, dest |-> dest, id |-> 1], ttl |-> ttl]
SendersMC == {A, B}
OnAirMC == {Telegram(NoDest, 3), Telegram(NoDest, 2), Telegram(B, 2), Telegram(B, 1)}

Init == PInit /\ MInit /\ WInit

Next ==
  \/ /\ PNext /\ ingests = 0 /\ router = {} /\ events = 0
     /\ UNCHANGED <<mvars, wvars>>
  \/ /\ MNext /\ platform = "linux" /\ origin = {} /\ on_air = {} /\ events = 0
     /\ UNCHANGED <<pvars, wvars>>
  \/ /\ WNext /\ platform = "linux" /\ origin = {} /\ on_air = {} /\ ingests = 0 /\ router = {}
     /\ UNCHANGED <<pvars, mvars>>

Spec == Init /\ [][Next]_<<pvars, mvars, wvars>>
============================================================================
