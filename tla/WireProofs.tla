----------------------------- MODULE WireProofs -----------------------------
(***************************************************************************)
(* The wire format, the C interface that decodes it and the carriers that  *)
(* take it from node to node, proved for every packet, every sequence of   *)
(* advertisements and every host of the interface.                         *)
(***************************************************************************)
EXTENDS Passage, Monitor, SeenFacts, WellFoundedInduction

\* What a concatenation is made of.
LEMMA CatFacts ==
  ASSUME NEW S, NEW s \in Seq(S), NEW t \in Seq(S)
  PROVE  /\ s \o t \in Seq(S) /\ Len(s) \in Nat /\ Len(t) \in Nat
         /\ Len(s \o t) = Len(s) + Len(t)
         /\ \A i \in 1 .. Len(s) : (s \o t)[i] = s[i]
         /\ \A i \in 1 .. Len(t) : (s \o t)[Len(s) + i] = t[i]
OBVIOUS

LEMMA CatTyped ==
  ASSUME NEW S, NEW s \in Seq(S), NEW t \in Seq(S)
  PROVE  s \o t \in Seq(S)
OBVIOUS

LEMMA CatLength ==
  ASSUME NEW S, NEW s \in Seq(S), NEW t \in Seq(S)
  PROVE  Len(s \o t) = Len(s) + Len(t)
OBVIOUS

LEMMA CatFront ==
  ASSUME NEW S, NEW s \in Seq(S), NEW t \in Seq(S)
  PROVE  \A i \in 1 .. Len(s) : (s \o t)[i] = s[i]
OBVIOUS

LEMMA CatBack ==
  ASSUME NEW S, NEW s \in Seq(S), NEW t \in Seq(S)
  PROVE  \A i \in 1 .. Len(t) : (s \o t)[Len(s) + i] = t[i]
OBVIOUS

\* A slice of the front is one of the whole.
LEMMA SliceOfFront ==
  ASSUME NEW S, NEW s \in Seq(S), NEW t \in Seq(S), NEW a \in Nat \ {0}, NEW b \in Nat,
         a <= b, b <= Len(s)
  PROVE  SubSeq(s \o t, a, b) = SubSeq(s, a, b)
<1>1. /\ s \o t \in Seq(S) /\ Len(s) \in Nat /\ Len(t) \in Nat
      /\ Len(s \o t) = Len(s) + Len(t)
      /\ \A i \in 1 .. Len(s) : (s \o t)[i] = s[i]
  BY CatFacts
<1> DEFINE c == s \o t
<1> HIDE DEF c
<1>2. /\ SubSeq(c, a, b) \in Seq(S) /\ Len(SubSeq(c, a, b)) = b - a + 1
      /\ \A i \in 1 .. b - a + 1 : SubSeq(c, a, b)[i] = c[a + i - 1]
  BY <1>1, SubSeqProperties DEF c
<1>3. /\ SubSeq(s, a, b) \in Seq(S) /\ Len(SubSeq(s, a, b)) = b - a + 1
      /\ \A i \in 1 .. b - a + 1 : SubSeq(s, a, b)[i] = s[a + i - 1]
  BY <1>1, SubSeqProperties
<1>4. \A i \in 1 .. b - a + 1 : a + i - 1 \in 1 .. Len(s)
  BY <1>1
<1>5. \A i \in 1 .. b - a + 1 : SubSeq(c, a, b)[i] = SubSeq(s, a, b)[i]
  BY <1>1, <1>2, <1>3, <1>4 DEF c
<1> QED
  BY <1>2, <1>3, <1>5, SeqEqual DEF c

\* The back of a concatenation is the second part of it.
LEMMA SliceOfBack ==
  ASSUME NEW S, NEW s \in Seq(S), NEW t \in Seq(S)
  PROVE  SubSeq(s \o t, Len(s) + 1, Len(s) + Len(t)) = t
<1> DEFINE a == Len(s) + 1
           b == Len(s) + Len(t)
<1>1. /\ s \o t \in Seq(S) /\ Len(s) \in Nat /\ Len(t) \in Nat
      /\ Len(s \o t) = Len(s) + Len(t)
      /\ \A i \in 1 .. Len(t) : (s \o t)[Len(s) + i] = t[i]
  BY CatFacts
<1> DEFINE c == s \o t
<1> HIDE DEF c
<1>2. /\ SubSeq(c, a, b) \in Seq(S) /\ Len(SubSeq(c, a, b)) = Len(t)
      /\ \A i \in 1 .. Len(t) : SubSeq(c, a, b)[i] = c[a + i - 1]
  BY <1>1, SubSeqProperties DEF c
<1>3. \A i \in 1 .. Len(t) : SubSeq(c, a, b)[i] = t[i]
  BY <1>1, <1>2 DEF c
<1> QED
  BY <1>2, <1>3, SeqEqual DEF c

LEMMA BigEndianFacts ==
  ASSUME NEW n \in SeqNumber
  PROVE  /\ BigEndian(n) \in Seq(Byte) /\ Len(BigEndian(n)) = 2
         /\ BigEndian(n)[1] = n \div 256 /\ BigEndian(n)[2] = n % 256
         /\ 256 * (n \div 256) + (n % 256) = n
<1>1. /\ n \div 256 \in 0 .. 255 /\ n % 256 \in 0 .. 255
      /\ 256 * (n \div 256) + (n % 256) = n
  BY SMT DEF SeqNumber
<1> QED
  BY <1>1 DEF BigEndian, Byte

LEMMA WireIdFacts ==
  ASSUME NEW id
  PROVE  id \in WireId <=> id \in Seq(Byte) /\ Len(id) = 4
<1> DEFINE B == Byte
<1> HIDE DEF B
<1>1. ASSUME id \in WireId PROVE id \in Seq(B) /\ Len(id) = 4
  <2>1. 4 \in Nat /\ id \in [1 .. 4 -> B]
    BY <1>1 DEF WireId, B
  <2>2. id \in Seq(B)
    BY <2>1, SeqDef
  <2>3. DOMAIN id = 1 .. 4 /\ Len(id) \in Nat /\ DOMAIN id = 1 .. Len(id)
    BY <2>1, <2>2, LenProperties
  <2> QED
    BY <2>2, <2>3
<1>2. ASSUME id \in Seq(B), Len(id) = 4 PROVE id \in WireId
  <2>1. id \in [1 .. 4 -> B]
    BY <1>2, LenProperties
  <2> QED
    BY <2>1 DEF WireId, B
<1> QED
  BY <1>1, <1>2 DEF B

\* The flags byte and what is read back from it.
LEMMA FlagsFacts ==
  ASSUME NEW p, p.ttl \in 1 .. MAX_TTL
  PROVE  /\ Flags(p) \in Byte
         /\ VersionOf(Flags(p)) \in {WIRE_VERSION, WIRE_VERSION_EXT}
         /\ HasDest(Flags(p)) <=> p.dest # NoDest
         /\ TtlOf(Flags(p)) = p.ttl
<1> DEFINE v == Version(p)
           d == IF p.dest = NoDest THEN 0 ELSE 32
           t == p.ttl
<1>1. v \in 0 .. 1 /\ d \in {0, 32} /\ (p.dest # NoDest <=> d = 32) /\ t \in 1 .. 31
  BY DEF Version, WIRE_VERSION, WIRE_VERSION_EXT, MAX_TTL
<1>2. Flags(p) = 64 * v + d + (t % 32)
  BY DEF Flags
<1> HIDE DEF v, d, t
<1>3. t % 32 = t
  BY <1>1
<1>4. 64 * v + d + t \in 0 .. 255 /\ (64 * v + d + t) % 32 = t
      /\ (64 * v + d + t) \div 64 = v
      /\ (((64 * v + d + t) \div 32) % 2 = 1 <=> d = 32)
  BY <1>1
<1> QED
  BY <1>1, <1>2, <1>3, <1>4 DEF Byte, VersionOf, HasDest, TtlOf, WIRE_VERSION, WIRE_VERSION_EXT, t

\* The fields of a packet.
LEMMA PacketRecord ==
  ASSUME NEW cap, NEW p \in PacketN(cap)
  PROVE  p = [ttl |-> p.ttl, seq |-> p.seq, src |-> p.src, dest |-> p.dest, payload |-> p.payload]
<1>1. p \in [ttl : 1 .. MAX_TTL, seq : SeqNumber, src : WireId, dest : WireId \cup {NoDest},
             payload : Seq(Byte)]
  BY Zenon DEF PacketN
<1> DEFINE T == 1 .. MAX_TTL
           N == SeqNumber
           D == WireId \cup {NoDest}
           Y == Seq(Byte)
<1>2. p \in [ttl : T, seq : N, src : WireId, dest : D, payload : Y]
  BY <1>1
<1> HIDE DEF T, N, D, Y
<1> QED
  BY <1>2

LEMMA PacketFields ==
  ASSUME NEW cap, NEW p \in PacketN(cap)
  PROVE  /\ p.ttl \in 1 .. MAX_TTL
         /\ p.seq \in SeqNumber
         /\ p.src \in WireId
         /\ p.dest \in WireId \cup {NoDest}
         /\ p.payload \in Seq(Byte)
         /\ HeaderLen(p.dest) + Len(p.payload) <= cap
<1>1. /\ p \in [ttl : 1 .. MAX_TTL, seq : SeqNumber, src : WireId, dest : WireId \cup {NoDest},
                payload : Seq(Byte)]
      /\ HeaderLen(p.dest) + Len(p.payload) <= cap
  BY Zenon DEF PacketN
<1> DEFINE T == 1 .. MAX_TTL
           N == SeqNumber
           D == WireId \cup {NoDest}
           Y == Seq(Byte)
<1>2. p \in [ttl : T, seq : N, src : WireId, dest : D, payload : Y]
  BY <1>1
<1> HIDE DEF T, N, D, Y
<1>3. p.ttl \in T /\ p.seq \in N /\ p.src \in WireId /\ p.dest \in D /\ p.payload \in Y
  BY <1>2
<1> QED
  BY <1>1, <1>3, Zenon DEF T, N, D, Y

LEMMA DestFacts ==
  ASSUME NEW dest \in WireId \cup {NoDest}
  PROVE  /\ dest \in Seq(Byte)
         /\ Len(dest) = (IF dest = NoDest THEN 0 ELSE 4)
         /\ HeaderLen(dest) = 7 + Len(dest)
<1> DEFINE B == Byte
<1> HIDE DEF B
<1>1. CASE dest = NoDest
  <2>1. dest \in Seq(B) /\ Len(dest) = 0
    BY <1>1, EmptySeq DEF NoDest
  <2> QED
    BY <1>1, <2>1 DEF HeaderLen, HEADER_LEN_HEARSAY, B
<1>2. CASE dest # NoDest
  <2>1. dest \in Seq(Byte) /\ Len(dest) = 4
    BY <1>2, WireIdFacts
  <2> QED
    BY <1>2, <2>1 DEF HeaderLen, HEADER_LEN_TELEGRAM
<1> QED
  BY <1>1, <1>2
\* Where the fields of a packet stand in its frame.
LEMMA EncodeFacts ==
  ASSUME NEW cap, NEW p \in PacketN(cap)
  PROVE  /\ Encode(p) \in Seq(Byte)
         /\ Len(Encode(p)) = HeaderLen(p.dest) + Len(p.payload)
         /\ Encode(p)[1] = Flags(p)
         /\ 256 * Encode(p)[2] + Encode(p)[3] = p.seq
         /\ SubSeq(Encode(p), 4, 7) = p.src
         /\ p.dest # NoDest => SubSeq(Encode(p), 8, 11) = p.dest
         /\ SubSeq(Encode(p), HeaderLen(p.dest) + 1, Len(Encode(p))) = p.payload
<1> DEFINE B == Byte
           F == <<Flags(p)>>
           N == BigEndian(p.seq)
           S == p.src
           D == p.dest
           Y == p.payload
           h3 == F \o N
           h7 == h3 \o S
           h11 == h7 \o D
           e == h11 \o Y
<1>1. e = Encode(p)
  BY DEF Encode
<1>2. F \in Seq(B) /\ Len(F) = 1 /\ F[1] = Flags(p)
  <2>1. Flags(p) \in B
    BY PacketFields, FlagsFacts
  <2> HIDE DEF B
  <2> QED
    BY <2>1
<1>3. N \in Seq(B) /\ Len(N) = 2 /\ 256 * N[1] + N[2] = p.seq
  <2>1. p.seq \in SeqNumber
    BY PacketFields
  <2> QED
    BY <2>1, BigEndianFacts
<1>4. /\ S \in Seq(B) /\ Len(S) = 4 /\ D \in Seq(B) /\ Len(D) = (IF D = NoDest THEN 0 ELSE 4)
      /\ Y \in Seq(B) /\ Len(Y) \in Nat
  <2>1. S \in WireId /\ D \in WireId \cup {NoDest} /\ Y \in Seq(B)
    BY PacketFields
  <2> QED
    BY <2>1, WireIdFacts, DestFacts, LenProperties
<1>5. HeaderLen(D) = 7 + Len(D)
  BY PacketFields, DestFacts
<1> HIDE DEF B, F, N, S, D, Y
<1>6. h3 \in Seq(B) /\ Len(h3) = 3 /\ h3[1] = F[1] /\ h3[2] = N[1] /\ h3[3] = N[2]
  <2>1. F \in Seq(B) /\ N \in Seq(B)
    BY <1>2, <1>3
  <2>2. h3 \in Seq(B)
    BY <2>1, CatTyped
  <2>3. Len(h3) = Len(F) + Len(N)
    BY <2>1, CatLength
  <2>4. \A i \in 1 .. Len(F) : h3[i] = F[i]
    BY <2>1, CatFront, Zenon
  <2>5. \A i \in 1 .. Len(N) : h3[Len(F) + i] = N[i]
    BY <2>1, CatBack, Zenon
  <2> HIDE DEF h3
  <2> QED
    BY <1>2, <1>3, <2>2, <2>3, <2>4, <2>5
<1> HIDE DEF h3
<1>7. /\ h7 \in Seq(B) /\ Len(h7) = 7 /\ h7[1] = h3[1] /\ h7[2] = h3[2] /\ h7[3] = h3[3]
      /\ SubSeq(h7, 4, 7) = S
  <2>1. h3 \in Seq(B) /\ S \in Seq(B)
    BY <1>4, <1>6
  <2>2. h7 \in Seq(B)
    BY <2>1, CatTyped
  <2>3. Len(h7) = Len(h3) + Len(S)
    BY <2>1, CatLength
  <2>4. \A i \in 1 .. Len(h3) : h7[i] = h3[i]
    BY <2>1, CatFront, Zenon
  <2>5. SubSeq(h7, Len(h3) + 1, Len(h3) + Len(S)) = S
    BY <2>1, SliceOfBack, Zenon
  <2>6. Len(h3) + 1 = 4 /\ Len(h3) + Len(S) = 7
    BY <1>4, <1>6
  <2> HIDE DEF h7
  <2> QED
    BY <1>6, <2>2, <2>3, <2>4, <2>5, <2>6
<1> HIDE DEF h7
<1>8. /\ h11 \in Seq(B) /\ Len(h11) = 7 + Len(D)
      /\ h11[1] = h7[1] /\ h11[2] = h7[2] /\ h11[3] = h7[3]
      /\ SubSeq(h11, 4, 7) = S
      /\ D # NoDest => SubSeq(h11, 8, 11) = D
  <2>1. h7 \in Seq(B) /\ D \in Seq(B)
    BY <1>4, <1>7
  <2>2. h11 \in Seq(B)
    BY <2>1, CatTyped
  <2>3. Len(h11) = Len(h7) + Len(D)
    BY <2>1, CatLength
  <2>4. \A i \in 1 .. Len(h7) : h11[i] = h7[i]
    BY <2>1, CatFront, Zenon
  <2>5. 4 \in Nat \ {0} /\ 7 \in Nat /\ 4 <= 7 /\ 7 <= Len(h7)
    BY <1>7
  <2>6. SubSeq(h11, 4, 7) = SubSeq(h7, 4, 7)
    BY <2>1, <2>5, SliceOfFront, Zenon
  <2>7. SubSeq(h11, Len(h7) + 1, Len(h7) + Len(D)) = D
    BY <2>1, SliceOfBack, Zenon
  <2>8. D # NoDest => Len(h7) + 1 = 8 /\ Len(h7) + Len(D) = 11
    BY <1>4, <1>7
  <2> HIDE DEF h11
  <2>9. h11[1] = h7[1] /\ h11[2] = h7[2] /\ h11[3] = h7[3]
    BY <1>7, <2>4
  <2>10. D # NoDest => SubSeq(h11, 8, 11) = D
    BY <2>7, <2>8, Zenon
  <2> QED
    BY <1>7, <2>2, <2>3, <2>6, <2>9, <2>10
<1> HIDE DEF h11
<1>9. h11 \in Seq(B) /\ Y \in Seq(B) /\ Len(h11) \in Nat /\ Len(h11) >= 7
  BY <1>4, <1>8, LenProperties
<1>10. e \in Seq(B)
  BY <1>9, CatTyped
<1>11. Len(e) = Len(h11) + Len(Y)
  BY <1>9, CatLength
<1>12. \A i \in 1 .. Len(h11) : e[i] = h11[i]
  BY <1>9, CatFront, Zenon
<1>17. SubSeq(e, 4, 7) = S
  <2>1. 4 \in Nat \ {0} /\ 7 \in Nat /\ 4 <= 7 /\ 7 <= Len(h11)
    BY <1>9
  <2>2. SubSeq(e, 4, 7) = SubSeq(h11, 4, 7)
    BY <1>9, <2>1, SliceOfFront, Zenon
  <2> QED
    BY <1>8, <2>2
<1>18. D # NoDest => SubSeq(e, 8, 11) = D
  <2>1. CASE D # NoDest
    <3>1. 8 \in Nat \ {0} /\ 11 \in Nat /\ 8 <= 11 /\ 11 <= Len(h11)
      BY <1>4, <1>8, <2>1
    <3>2. SubSeq(e, 8, 11) = SubSeq(h11, 8, 11)
      BY <1>9, <3>1, SliceOfFront, Zenon
    <3> QED
      BY <1>8, <2>1, <3>2, Zenon
  <2> QED
    BY <2>1
<1>19. SubSeq(e, HeaderLen(D) + 1, Len(e)) = Y
  <2>1. HeaderLen(D) = Len(h11)
    BY <1>5, <1>8
  <2>2. SubSeq(e, Len(h11) + 1, Len(h11) + Len(Y)) = Y
    BY <1>9, SliceOfBack, Zenon
  <2> QED
    BY <1>11, <2>1, <2>2, Zenon
<1> HIDE DEF e
<1>16. e[1] = h11[1] /\ e[2] = h11[2] /\ e[3] = h11[3]
  BY <1>9, <1>12
<1>13. 256 * e[2] + e[3] = p.seq
  BY <1>3, <1>6, <1>7, <1>8, <1>16
<1>14. Len(e) = HeaderLen(D) + Len(Y)
  BY <1>5, <1>8, <1>11
<1>15. e[1] = Flags(p)
  BY <1>2, <1>6, <1>7, <1>8, <1>16
<1> QED
  BY <1>1, <1>10, <1>13, <1>14, <1>15, <1>17, <1>18, <1>19, Zenon DEF B, D, S, Y

\* decode gives back what was encoded, whatever the capacity: no field is lost
\* or moved by the flags byte, the optional destination or the version.
THEOREM RoundTrip ==
  \A cap \in Nat : \A p \in PacketN(cap) : Decode(Encode(p), cap) = Ok(p)
<1> SUFFICES ASSUME NEW cap \in Nat, NEW p \in PacketN(cap)
             PROVE  Decode(Encode(p), cap) = Ok(p)
  OBVIOUS
<1> DEFINE e == Encode(p)
           f == e[1]
           L == Len(e)
           H == HeaderLen(p.dest)
<1>1. /\ p.ttl \in 1 .. MAX_TTL
      /\ p.dest \in WireId \cup {NoDest}
      /\ H + Len(p.payload) <= cap
      /\ Len(p.payload) \in Nat
  BY PacketFields, LenProperties
<1>2. e \in Seq(Byte) /\ L = H + Len(p.payload) /\ f = Flags(p)
  BY EncodeFacts
<1>3. 256 * e[2] + e[3] = p.seq
  BY EncodeFacts
<1>4. SubSeq(e, 4, 7) = p.src
  BY EncodeFacts
<1>5. p.dest # NoDest => SubSeq(e, 8, 11) = p.dest
  BY EncodeFacts
<1>6. SubSeq(e, H + 1, L) = p.payload
  BY EncodeFacts
<1>7. /\ VersionOf(f) \in {WIRE_VERSION, WIRE_VERSION_EXT}
      /\ HasDest(f) <=> p.dest # NoDest
      /\ TtlOf(f) = p.ttl
  BY <1>1, <1>2, FlagsFacts
<1>8. HeaderLenOf(f) = H
  BY <1>7 DEF HeaderLenOf, HeaderLen
<1>9. H \in {7, 11} /\ HEADER_LEN_HEARSAY = 7
  BY DEF HeaderLen, HEADER_LEN_HEARSAY, HEADER_LEN_TELEGRAM
<1>10. (IF HasDest(f) THEN SubSeq(e, 8, 11) ELSE NoDest) = p.dest
  BY <1>5, <1>7
<1>11. p.ttl # 0 /\ p.ttl <= MAX_TTL
  <2> DEFINE t == p.ttl
  <2>1. t \in 1 .. 31 /\ MAX_TTL = 31
    BY <1>1 DEF MAX_TTL
  <2> HIDE DEF t
  <2>2. t # 0 /\ t <= 31
    BY <2>1
  <2> QED
    BY <2>1, <2>2 DEF t
<1>12. ~ (L > cap) /\ ~ (L < HEADER_LEN_HEARSAY) /\ ~ (L < HeaderLenOf(f))
  <2> HIDE DEF e, H, L, f
  <2> QED
    BY <1>1, <1>2, <1>8, <1>9
<1>13. PayloadFits(p.payload, cap - H)
  <2> HIDE DEF H
  <2> QED
    BY <1>1, <1>9 DEF PayloadFits
<1>14. p = [ttl |-> p.ttl, seq |-> p.seq, src |-> p.src, dest |-> p.dest, payload |-> p.payload]
  BY PacketRecord
<1> HIDE DEF e
<1>15. Rejection(e, cap) = "None"
  BY <1>7, <1>11, <1>12 DEF Rejection
<1>16. Decode(e, cap) = Construct(p.src, p.dest, p.seq, p.payload, p.ttl, cap)
  BY <1>3, <1>4, <1>6, <1>7, <1>8, <1>10, <1>15, Zenon DEF Decode
<1>17. Construct(p.src, p.dest, p.seq, p.payload, p.ttl, cap) = Ok(p)
  BY <1>11, <1>13, <1>14, Zenon DEF Construct, ValidTtl
<1> QED
  BY <1>16, <1>17 DEF e

LEMMA ByteFacts ==
  ASSUME NEW x \in Byte
  PROVE  x \in Nat /\ TtlOf(x) \in 0 .. MAX_TTL
  BY DEF Byte, TtlOf, MAX_TTL

LEMMA UpTo == \A a, k \in Nat : k <= a => k \in 0 .. a
OBVIOUS

LEMMA SeqNumberFacts ==
  ASSUME NEW x \in Byte, NEW y \in Byte
  PROVE  256 * x + y \in SeqNumber
<1> DEFINE top == 65535
           n == 256 * x + y
<1>1. x \in 0 .. 255 /\ y \in 0 .. 255
  BY SMT DEF Byte
<1>2. top \in Nat /\ n \in Nat /\ n <= top
  BY <1>1, SMT
<1>3. SeqNumber = 0 .. top
  BY SMT DEF SeqNumber
<1> HIDE DEF top, n
<1>4. n \in SeqNumber
  BY <1>2, <1>3, UpTo
<1> QED
  BY <1>4 DEF n

\* What decode accepts is a packet of the capacity it was asked for.
THEOREM DecodedIsPacket ==
  \A cap \in Nat : \A bytes \in Seq(Byte) :
    Decode(bytes, cap).ok => Decode(bytes, cap).value \in PacketN(cap)
<1> SUFFICES ASSUME NEW cap \in Nat, NEW bytes \in Seq(Byte), Decode(bytes, cap).ok
             PROVE  Decode(bytes, cap).value \in PacketN(cap)
  OBVIOUS
<1> DEFINE f == bytes[1]
           L == Len(bytes)
           src == SubSeq(bytes, 4, 7)
           dest == IF HasDest(f) THEN SubSeq(bytes, 8, 11) ELSE NoDest
           number == 256 * bytes[2] + bytes[3]
           payload == SubSeq(bytes, HeaderLenOf(f) + 1, L)
           ttl == TtlOf(f)
           C == Construct(src, dest, number, payload, ttl, cap)
<1>1. \A e : Err(e).ok = FALSE
  BY DEF Err
<1>2. Rejection(bytes, cap) = "None" /\ Decode(bytes, cap) = C
  BY <1>1 DEF Decode
<1>3. ~ (L > cap) /\ ~ (L < HEADER_LEN_HEARSAY) /\ ~ (L < HeaderLenOf(f))
  BY <1>2 DEF Rejection
<1>4. L \in Nat /\ HeaderLenOf(f) \in {7, 11} /\ L >= 7 /\ L >= HeaderLenOf(f)
  BY <1>3, LenProperties DEF HeaderLenOf, HEADER_LEN_HEARSAY, HEADER_LEN_TELEGRAM
<1>5. \A i \in 1 .. L : bytes[i] \in Byte
  BY ElementOfSeq
<1>6. bytes[1] \in Byte /\ bytes[2] \in Byte /\ bytes[3] \in Byte
  <2> HIDE DEF L
  <2> QED
    BY <1>4, <1>5
<1>7. number \in SeqNumber
  BY <1>6, SeqNumberFacts
<1>8. src \in WireId
  <2>1. src \in Seq(Byte) /\ Len(src) = 7 - 4 + 1
    BY <1>4, SubSeqProperties
  <2> HIDE DEF src
  <2>2. src \in Seq(Byte) /\ Len(src) = 4
    BY <2>1
  <2> QED
    BY <2>2, WireIdFacts
<1>9. dest \in WireId \cup {NoDest} /\ HeaderLen(dest) = HeaderLenOf(f)
  <2>1. CASE HasDest(f)
    <3>1. HeaderLenOf(f) = 11 /\ L >= 11
      BY <1>4, <2>1 DEF HeaderLenOf, HEADER_LEN_TELEGRAM
    <3>2. SubSeq(bytes, 8, 11) \in Seq(Byte) /\ Len(SubSeq(bytes, 8, 11)) = 11 - 8 + 1
      BY <1>4, <3>1, SubSeqProperties
    <3> DEFINE id == SubSeq(bytes, 8, 11)
    <3>3. id \in WireId /\ id # NoDest
      <4> HIDE DEF id
      <4>1. id \in Seq(Byte) /\ Len(id) = 4
        BY <3>2 DEF id
      <4>2. Len(NoDest) = 0
        BY EmptySeq DEF NoDest
      <4> QED
        BY <4>1, <4>2, WireIdFacts
    <3> QED
      BY <2>1, <3>1, <3>3 DEF HeaderLen, HEADER_LEN_TELEGRAM
  <2>2. CASE ~ HasDest(f)
    BY <2>2 DEF HeaderLenOf, HeaderLen
  <2> QED
    BY <2>1, <2>2
<1>10. payload \in Seq(Byte) /\ Len(payload) \in Nat
  <2>1. payload \in Seq(Byte)
    <3> DEFINE a == HeaderLenOf(f) + 1
    <3>1. a \in 1 .. L + 1 /\ L \in Nat /\ L = Len(bytes)
      BY <1>4
    <3> HIDE DEF a
    <3>2. CASE a <= L
      BY <3>1, <3>2, SubSeqProperties DEF a
    <3>3. CASE a = L + 1
      <4>1. SubSeq(bytes, a, L) = << >>
        BY <3>1, <3>3, SubSeqProperties
      <4> QED
        BY <4>1, EmptySeq DEF a
    <3> QED
      BY <3>1, <3>2, <3>3
  <2> QED
    BY <2>1, LenProperties
<1>11. ttl \in 0 .. MAX_TTL
  BY <1>6, ByteFacts
<1> HIDE DEF f, L, src, dest, number, payload, ttl
<1>12. /\ C = Ok([ttl |-> ttl, seq |-> number, src |-> src, dest |-> dest, payload |-> payload])
       /\ ValidTtl(ttl) /\ PayloadFits(payload, cap - HeaderLen(dest))
  BY <1>1, <1>2 DEF Construct
<1> DEFINE p == [ttl |-> ttl, seq |-> number, src |-> src, dest |-> dest, payload |-> payload]
<1>13. Decode(bytes, cap).value = p
  BY <1>2, <1>12 DEF Ok
<1>14. ttl \in 1 .. MAX_TTL
  BY <1>11, <1>12 DEF ValidTtl, MAX_TTL
<1>15. HeaderLen(dest) + Len(payload) <= cap
  BY <1>4, <1>9, <1>10, <1>12 DEF PayloadFits
<1>16. p \in PacketN(cap)
  BY <1>7, <1>8, <1>9, <1>10, <1>14, <1>15 DEF PacketN
<1> QED
  BY <1>13, <1>16

(***************************************************************************)
(* The dedup key.                                                          *)
(***************************************************************************)

\* Two concatenations of parts of the same lengths.
LEMMA CatInjective ==
  ASSUME NEW S, NEW s \in Seq(S), NEW t \in Seq(S), NEW s2 \in Seq(S), NEW t2 \in Seq(S),
         Len(s) = Len(s2), s \o t = s2 \o t2
  PROVE  s = s2 /\ t = t2
<1> DEFINE c == s \o t
           c2 == s2 \o t2
<1>1. Len(s) \in Nat /\ Len(t) \in Nat /\ Len(t2) \in Nat
  BY LenProperties
<1>2. Len(c) = Len(s) + Len(t) /\ Len(c2) = Len(s2) + Len(t2)
  BY CatLength
<1>3. /\ \A i \in 1 .. Len(s) : c[i] = s[i]
      /\ \A i \in 1 .. Len(s2) : c2[i] = s2[i]
  BY CatFront
<1>4. /\ \A i \in 1 .. Len(t) : c[Len(s) + i] = t[i]
      /\ \A i \in 1 .. Len(t2) : c2[Len(s2) + i] = t2[i]
  BY CatBack
<1>5. c = c2
  OBVIOUS
<1> HIDE DEF c, c2
<1>6. Len(t) = Len(t2)
  BY <1>1, <1>2, <1>5
<1>7. s = s2
  BY <1>3, <1>5, SeqEqual
<1>8. t = t2
  BY <1>4, <1>5, <1>6, SeqEqual
<1> QED
  BY <1>7, <1>8

\* The key hashes every field but the TTL, and packets of the two shapes never
\* hash the same bytes: the key identifies the message (packet.rs, dedup_key).
THEOREM KeyIsMessage ==
  \A cap \in Nat : \A p, q \in PacketN(cap) :
    KeyBytes(p) = KeyBytes(q) <=> p = [q EXCEPT !.ttl = p.ttl]
<1> SUFFICES ASSUME NEW cap \in Nat, NEW p \in PacketN(cap), NEW q \in PacketN(cap)
             PROVE  KeyBytes(p) = KeyBytes(q) <=> p = [q EXCEPT !.ttl = p.ttl]
  OBVIOUS
<1> DEFINE B == Byte
           Shape(x) == <<IF x.dest = NoDest THEN 0 ELSE 1>>
           H5(x) == Shape(x) \o x.src
           H7(x) == H5(x) \o BigEndian(x.seq)
           H11(x) == H7(x) \o x.dest
           K(x) == H11(x) \o x.payload
<1>1. \A x : KeyBytes(x) = K(x)
  BY DEF KeyBytes
<1>2. ASSUME NEW x \in PacketN(cap)
      PROVE  /\ Shape(x) \in Seq(B) /\ Len(Shape(x)) = 1
             /\ Shape(x)[1] = 0 <=> x.dest = NoDest
             /\ x.src \in Seq(B) /\ Len(x.src) = 4
             /\ BigEndian(x.seq) \in Seq(B) /\ Len(BigEndian(x.seq)) = 2
             /\ x.dest \in Seq(B) /\ Len(x.dest) = (IF x.dest = NoDest THEN 0 ELSE 4)
             /\ x.payload \in Seq(B)
  <2>1. /\ x.seq \in SeqNumber /\ x.src \in WireId /\ x.dest \in WireId \cup {NoDest}
        /\ x.payload \in Seq(B)
    BY PacketFields
  <2>2. x.src \in Seq(B) /\ Len(x.src) = 4
    BY <2>1, WireIdFacts
  <2>3. BigEndian(x.seq) \in Seq(B) /\ Len(BigEndian(x.seq)) = 2
    BY <2>1, BigEndianFacts
  <2>4. x.dest \in Seq(B) /\ Len(x.dest) = (IF x.dest = NoDest THEN 0 ELSE 4)
    BY <2>1, DestFacts
  <2>5. 0 \in B /\ 1 \in B
    BY DEF Byte
  <2> HIDE DEF B
  <2>6. /\ Shape(x) \in Seq(B) /\ Len(Shape(x)) = 1
        /\ Shape(x)[1] = 0 <=> x.dest = NoDest
    BY <2>5
  <2> QED
    BY <2>1, <2>2, <2>3, <2>4, <2>6, Zenon
<1> HIDE DEF B, Shape
<1>3. ASSUME NEW x \in PacketN(cap)
      PROVE  H5(x) \in Seq(B) /\ Len(H5(x)) = 5 /\ H5(x)[1] = Shape(x)[1]
  <2>1. Shape(x) \in Seq(B) /\ x.src \in Seq(B)
    BY <1>2
  <2>2. H5(x) \in Seq(B)
    BY <2>1, CatTyped
  <2>3. Len(H5(x)) = Len(Shape(x)) + Len(x.src)
    BY <2>1, CatLength
  <2>4. \A i \in 1 .. Len(Shape(x)) : H5(x)[i] = Shape(x)[i]
    BY <2>1, CatFront, Zenon
  <2>5. Len(Shape(x)) = 1 /\ Len(x.src) = 4
    BY <1>2
  <2>6. 1 \in 1 .. Len(Shape(x))
    BY <2>5
  <2> HIDE DEF H5
  <2>7. H5(x)[1] = Shape(x)[1]
    BY <2>4, <2>6, Zenon
  <2> QED
    BY <2>2, <2>3, <2>5, <2>7
<1> HIDE DEF H5
<1>4. ASSUME NEW x \in PacketN(cap)
      PROVE  H7(x) \in Seq(B) /\ Len(H7(x)) = 7 /\ H7(x)[1] = Shape(x)[1]
  <2>1. H5(x) \in Seq(B) /\ BigEndian(x.seq) \in Seq(B)
    BY <1>2, <1>3
  <2>2. H7(x) \in Seq(B)
    BY <2>1, CatTyped
  <2>3. Len(H7(x)) = Len(H5(x)) + Len(BigEndian(x.seq))
    BY <2>1, CatLength
  <2>4. \A i \in 1 .. Len(H5(x)) : H7(x)[i] = H5(x)[i]
    BY <2>1, CatFront, Zenon
  <2>5. Len(H5(x)) = 5 /\ Len(BigEndian(x.seq)) = 2 /\ H5(x)[1] = Shape(x)[1]
    BY <1>2, <1>3
  <2>6. 1 \in 1 .. Len(H5(x))
    BY <2>5
  <2> HIDE DEF H7
  <2>7. H7(x)[1] = H5(x)[1]
    BY <2>4, <2>6, Zenon
  <2> QED
    BY <2>2, <2>3, <2>5, <2>7
<1> HIDE DEF H7
<1>5. ASSUME NEW x \in PacketN(cap)
      PROVE  H11(x) \in Seq(B) /\ Len(H11(x)) = 7 + Len(x.dest) /\ H11(x)[1] = Shape(x)[1]
  <2>1. H7(x) \in Seq(B) /\ x.dest \in Seq(B)
    BY <1>2, <1>4
  <2>2. H11(x) \in Seq(B)
    BY <2>1, CatTyped
  <2>3. Len(H11(x)) = Len(H7(x)) + Len(x.dest)
    BY <2>1, CatLength
  <2>4. \A i \in 1 .. Len(H7(x)) : H11(x)[i] = H7(x)[i]
    BY <2>1, CatFront, Zenon
  <2>5. Len(H7(x)) = 7 /\ H7(x)[1] = Shape(x)[1]
    BY <1>4
  <2>6. 1 \in 1 .. Len(H7(x))
    BY <2>5
  <2> HIDE DEF H11
  <2>7. H11(x)[1] = H7(x)[1]
    BY <2>4, <2>6, Zenon
  <2> QED
    BY <2>2, <2>3, <2>5, <2>7
<1> HIDE DEF H11
<1>6. ASSUME NEW x \in PacketN(cap)
      PROVE  K(x)[1] = Shape(x)[1]
  <2>1. H11(x) \in Seq(B) /\ x.payload \in Seq(B)
    BY <1>2, <1>5
  <2>2. \A i \in 1 .. Len(H11(x)) : K(x)[i] = H11(x)[i]
    BY <2>1, CatFront, Zenon
  <2>3. 1 \in 1 .. Len(H11(x))
    BY <1>2, <1>5
  <2> HIDE DEF K
  <2> QED
    BY <1>5, <2>2, <2>3
<1>7. ASSUME KeyBytes(p) = KeyBytes(q)
      PROVE  /\ p.src = q.src /\ p.seq = q.seq /\ p.dest = q.dest /\ p.payload = q.payload
  <2>1. K(p) = K(q)
    BY <1>1, <1>7, Zenon
  <2>2. p.dest = NoDest <=> q.dest = NoDest
    <3> HIDE DEF K
    <3> QED
      BY <1>2, <1>6, <2>1
  <2>3. Len(H11(p)) = Len(H11(q))
    BY <1>2, <1>5, <2>2
  <2>4. H11(p) = H11(q) /\ p.payload = q.payload
    <3>1. H11(p) \in Seq(B) /\ H11(q) \in Seq(B) /\ p.payload \in Seq(B) /\ q.payload \in Seq(B)
      BY <1>2, <1>5
    <3> QED
      BY <2>1, <2>3, <3>1, CatInjective
  <2>5. H7(p) = H7(q) /\ p.dest = q.dest
    <3>1. H7(p) \in Seq(B) /\ H7(q) \in Seq(B) /\ p.dest \in Seq(B) /\ q.dest \in Seq(B)
      BY <1>2, <1>4
    <3>2. Len(H7(p)) = Len(H7(q))
      BY <1>4
    <3>3. H7(p) \o p.dest = H7(q) \o q.dest
      BY <2>4 DEF H11
    <3> QED
      BY <3>1, <3>2, <3>3, CatInjective
  <2>6. H5(p) = H5(q) /\ BigEndian(p.seq) = BigEndian(q.seq)
    <3>1. /\ H5(p) \in Seq(B) /\ H5(q) \in Seq(B)
          /\ BigEndian(p.seq) \in Seq(B) /\ BigEndian(q.seq) \in Seq(B)
      BY <1>2, <1>3
    <3>2. Len(H5(p)) = Len(H5(q))
      BY <1>3
    <3>3. H5(p) \o BigEndian(p.seq) = H5(q) \o BigEndian(q.seq)
      BY <2>5 DEF H7
    <3> QED
      BY <3>1, <3>2, <3>3, CatInjective
  <2>7. p.src = q.src
    <3>1. Shape(p) \in Seq(B) /\ Shape(q) \in Seq(B) /\ p.src \in Seq(B) /\ q.src \in Seq(B)
      BY <1>2
    <3>2. Len(Shape(p)) = Len(Shape(q))
      BY <1>2
    <3>3. Shape(p) \o p.src = Shape(q) \o q.src
      BY <2>6 DEF H5
    <3> QED
      BY <3>1, <3>2, <3>3, CatInjective
  <2>8. p.seq = q.seq
    <3>1. p.seq \in SeqNumber /\ q.seq \in SeqNumber
      BY PacketFields
    <3>2. /\ BigEndian(p.seq)[1] = p.seq \div 256 /\ BigEndian(p.seq)[2] = p.seq % 256
          /\ 256 * (p.seq \div 256) + (p.seq % 256) = p.seq
      BY <3>1, BigEndianFacts
    <3>3. /\ BigEndian(q.seq)[1] = q.seq \div 256 /\ BigEndian(q.seq)[2] = q.seq % 256
          /\ 256 * (q.seq \div 256) + (q.seq % 256) = q.seq
      BY <3>1, BigEndianFacts
    <3> QED
      BY <2>6, <3>2, <3>3
  <2> QED
    BY <2>4, <2>5, <2>7, <2>8
<1>8. /\ p = [ttl |-> p.ttl, seq |-> p.seq, src |-> p.src, dest |-> p.dest, payload |-> p.payload]
      /\ q = [ttl |-> q.ttl, seq |-> q.seq, src |-> q.src, dest |-> q.dest, payload |-> q.payload]
  BY PacketRecord
<1>9. ASSUME KeyBytes(p) = KeyBytes(q) PROVE p = [q EXCEPT !.ttl = p.ttl]
  BY <1>7, <1>8, <1>9
<1>10. ASSUME p = [q EXCEPT !.ttl = p.ttl] PROVE KeyBytes(p) = KeyBytes(q)
  <2>1. p.src = q.src /\ p.seq = q.seq /\ p.dest = q.dest /\ p.payload = q.payload
    BY <1>8, <1>10
  <2> QED
    BY <2>1, Zenon DEF KeyBytes
<1> QED
  BY <1>9, <1>10

(***************************************************************************)
(* The flattened action.                                                   *)
(***************************************************************************)

LEMMA CapFacts ==
  /\ POHOLOS_MAX_FRAME_LEN \in Nat /\ POHOLOS_MAX_PAYLOAD_LEN \in Nat
  /\ POHOLOS_MAX_PAYLOAD_LEN = POHOLOS_MAX_FRAME_LEN - 7
  BY SMT DEF POHOLOS_MAX_FRAME_LEN, POHOLOS_MAX_PAYLOAD_LEN, MAX_EXT_FRAME_LEN,
             HEADER_LEN_TELEGRAM, HEADER_LEN_HEARSAY

\* A packet fits the fixed arrays, and so does its frame.
LEMMA PacketFits ==
  ASSUME NEW p \in PacketN(POHOLOS_MAX_FRAME_LEN)
  PROVE  /\ p.payload \in Seq(Byte) /\ Len(p.payload) <= POHOLOS_MAX_PAYLOAD_LEN
         /\ Encode(p) \in Seq(Byte) /\ Len(Encode(p)) <= POHOLOS_MAX_FRAME_LEN
<1>1. /\ p.payload \in Seq(Byte) /\ Len(p.payload) \in Nat
      /\ HeaderLen(p.dest) + Len(p.payload) <= POHOLOS_MAX_FRAME_LEN
  BY PacketFields, LenProperties
<1>2. HeaderLen(p.dest) \in {7, 11}
  BY DEF HeaderLen, HEADER_LEN_HEARSAY, HEADER_LEN_TELEGRAM
<1>3. Encode(p) \in Seq(Byte) /\ Len(Encode(p)) = HeaderLen(p.dest) + Len(p.payload)
  BY EncodeFacts
<1> QED
  BY <1>1, <1>2, <1>3, CapFacts

\* A packet with a hop taken.
LEMMA HoppedFacts ==
  ASSUME NEW cap, NEW p \in PacketN(cap), MayHop(p)
  PROVE  /\ Hopped(p) \in PacketN(cap)
         /\ Hopped(p) = [ttl |-> p.ttl - 1, seq |-> p.seq, src |-> p.src, dest |-> p.dest,
                         payload |-> p.payload]
<1>1. /\ p.ttl \in 1 .. MAX_TTL
      /\ p.seq \in SeqNumber /\ p.src \in WireId /\ p.dest \in WireId \cup {NoDest}
      /\ p.payload \in Seq(Byte) /\ HeaderLen(p.dest) + Len(p.payload) <= cap
  BY PacketFields
<1>2. p = [ttl |-> p.ttl, seq |-> p.seq, src |-> p.src, dest |-> p.dest, payload |-> p.payload]
  BY PacketRecord
<1> DEFINE h == [ttl |-> p.ttl - 1, seq |-> p.seq, src |-> p.src, dest |-> p.dest,
                 payload |-> p.payload]
<1>3. Hopped(p) = h
  BY <1>2 DEF Hopped
<1>4. p.ttl - 1 \in 1 .. MAX_TTL
  <2> DEFINE t == p.ttl
  <2>1. t \in 1 .. 31 /\ MAX_TTL = 31 /\ t > 1
    BY <1>1 DEF MAX_TTL, MayHop
  <2> HIDE DEF t
  <2>2. t - 1 \in 1 .. 31
    BY <2>1
  <2> QED
    BY <2>1, <2>2 DEF t
<1>5. h \in PacketN(cap)
  BY <1>1, <1>4 DEF PacketN
<1> QED
  BY <1>3, <1>5

\* What is copied into an array of zeros can be read back, and nothing else is
\* in it.
LEMMA IntoFacts ==
  ASSUME NEW n \in Nat, NEW bytes \in Seq(Byte), Len(bytes) <= n
  PROVE  /\ SubSeq(Into(Zeros(n), bytes), 1, Len(bytes)) = bytes
         /\ \A i \in DOMAIN Into(Zeros(n), bytes) :
              i > Len(bytes) => Into(Zeros(n), bytes)[i] = 0
<1> DEFINE a == Into(Zeros(n), bytes)
           L == Len(bytes)
           B == Byte
<1>1. a = [i \in 1 .. n |-> IF i <= L THEN bytes[i] ELSE 0]
  BY DEF Into, Zeros
<1> HIDE DEF a, B
<1>2. L \in Nat /\ \A i \in 1 .. L : bytes[i] \in B
  BY LenProperties, ElementOfSeq DEF B
<1>3. \A i \in 1 .. L : a[i] = bytes[i]
  BY <1>1, <1>2
<1>4. \A i \in 1 .. L : a[i] \in B
  BY <1>2, <1>3
<1>5. /\ SubSeq(a, 1, L) \in Seq(B)
      /\ Len(SubSeq(a, 1, L)) = L
      /\ \A i \in 1 .. L : SubSeq(a, 1, L)[i] = a[i]
  <2>1. 1 \in Int /\ L \in Int
    BY <1>2
  <2>2. /\ SubSeq(a, 1, L) \in Seq(B)
        /\ Len(SubSeq(a, 1, L)) = IF 1 <= L THEN L - 1 + 1 ELSE 0
        /\ \A i \in 1 .. L - 1 + 1 : SubSeq(a, 1, L)[i] = a[1 + i - 1]
    BY <1>4, <2>1, SubSeqProperties
  <2> QED
    BY <1>2, <2>2
<1>6. SubSeq(a, 1, L) = bytes
  <2>1. bytes \in Seq(B)
    BY DEF B
  <2> QED
    BY <1>3, <1>5, <2>1, SeqEqual
<1>7. \A i \in DOMAIN a : i > L => a[i] = 0
  BY <1>1, <1>2
<1> QED
  BY <1>6, <1>7 DEF a

\* The action a host finds after a call that concerned packet p.
Filled(kind, p, frame, frame_len) ==
  [kind |-> kind, ignore_reason |-> "None", has_dest |-> p.dest # NoDest, ttl |-> p.ttl,
   seq |-> p.seq, payload_len |-> Len(p.payload), frame_len |-> frame_len, src |-> p.src,
   dest |-> IF p.dest = NoDest THEN Zeros(4) ELSE p.dest,
   payload |-> Into(Zeros(POHOLOS_MAX_PAYLOAD_LEN), p.payload), frame |-> frame]

LEMMA FillFacts ==
  ASSUME NEW kind, NEW p, NEW frame
  PROVE  /\ FillPacket([EMPTY EXCEPT !.kind = kind], p)
              = Filled(kind, p, Zeros(POHOLOS_MAX_FRAME_LEN), 0)
         /\ FillFrame(FillPacket([EMPTY EXCEPT !.kind = kind], p), frame)
              = Filled(kind, p, Into(Zeros(POHOLOS_MAX_FRAME_LEN), frame), Len(frame))
         /\ FillPacket(FillFrame([EMPTY EXCEPT !.kind = kind], frame), p)
              = Filled(kind, p, Into(Zeros(POHOLOS_MAX_FRAME_LEN), frame), Len(frame))
<1> DEFINE ZF == Zeros(POHOLOS_MAX_FRAME_LEN)
           ZP == Zeros(POHOLOS_MAX_PAYLOAD_LEN)
           Z4 == Zeros(4)
           no == FALSE
           start == [EMPTY EXCEPT !.kind = kind]
           has == p.dest # NoDest
           d == IF p.dest = NoDest THEN Z4 ELSE p.dest
           n == Len(p.payload)
           a == Into(ZP, p.payload)
           b == Into(ZF, frame)
           Record(f, m) ==
             [kind |-> kind, ignore_reason |-> "None", has_dest |-> has, ttl |-> p.ttl,
              seq |-> p.seq, payload_len |-> n, frame_len |-> m, src |-> p.src,
              dest |-> d, payload |-> a, frame |-> f]
           Put(out, x) ==
             [out EXCEPT !.has_dest = has, !.ttl = p.ttl, !.seq = p.seq, !.src = p.src,
                         !.dest = d, !.payload = x, !.payload_len = n]
           PutFrame(out, x) == [out EXCEPT !.frame = x, !.frame_len = Len(frame)]
<1>1. EMPTY = [kind |-> "Ignore", ignore_reason |-> "None", has_dest |-> no, ttl |-> 0,
               seq |-> 0, payload_len |-> 0, frame_len |-> 0, src |-> Z4,
               dest |-> Z4, payload |-> ZP, frame |-> ZF]
  BY Zenon DEF EMPTY
<1>2. \A f, m : Filled(kind, p, f, m) = Record(f, m)
  BY Zenon DEF Filled
<1>3. \A out : FillPacket(out, p) = Put(out, Into(out.payload, p.payload))
  BY Zenon DEF FillPacket
<1>4. \A out : FillFrame(out, frame) = PutFrame(out, Into(out.frame, frame))
  BY Zenon DEF FillFrame
<1>5. a = Into(ZP, p.payload) /\ b = Into(ZF, frame)
  OBVIOUS
<1> HIDE DEF ZF, ZP, Z4, no, has, d, n, a, b
<1>6. start = [kind |-> kind, ignore_reason |-> "None", has_dest |-> no, ttl |-> 0,
               seq |-> 0, payload_len |-> 0, frame_len |-> 0, src |-> Z4,
               dest |-> Z4, payload |-> ZP, frame |-> ZF]
  BY <1>1
<1> HIDE DEF start
<1>7. FillPacket(start, p) = Record(ZF, 0)
  <2>1. start.payload = ZP
    BY <1>6
  <2>2. FillPacket(start, p) = Put(start, a)
    BY <1>3, <1>5, <2>1, Zenon
  <2>3. Put(start, a) = Record(ZF, 0)
    <3> DEFINE q == Put(start, a)
    <3>1. q = Put(start, a)
      OBVIOUS
    <3> HIDE DEF q
    <3>2. q = Record(ZF, 0)
      BY <1>6, <3>1
    <3> QED
      BY <3>1, <3>2, Zenon
  <2> QED
    BY <2>2, <2>3, Zenon
<1>8. FillFrame(FillPacket(start, p), frame) = Record(b, Len(frame))
  <2> DEFINE r == Record(ZF, 0)
  <2>1. r.frame = ZF
    OBVIOUS
  <2>2. FillFrame(r, frame) = PutFrame(r, b)
    BY <1>4, <1>5, <2>1, Zenon
  <2>3. PutFrame(r, b) = Record(b, Len(frame))
    <3> DEFINE q == PutFrame(r, b)
               l == Len(frame)
    <3>1. r = Record(ZF, 0) /\ q = PutFrame(r, b)
      OBVIOUS
    <3> HIDE DEF q, r
    <3>2. q = Record(b, Len(frame))
      BY <3>1
    <3> QED
      BY <3>1, <3>2, Zenon
  <2> QED
    BY <1>7, <2>2, <2>3, Zenon
<1>9. FillPacket(FillFrame(start, frame), p) = Record(b, Len(frame))
  <2>1. start.frame = ZF
    BY <1>6
  <2>2. FillFrame(start, frame) = PutFrame(start, b)
    BY <1>4, <1>5, <2>1, Zenon
  <2> DEFINE r == PutFrame(start, b)
  <2>3. r.payload = ZP
    BY <1>6
  <2>4. FillPacket(r, p) = Put(r, a)
    BY <1>3, <1>5, <2>3, Zenon
  <2>5. Put(r, a) = Record(b, Len(frame))
    <3> DEFINE q == Put(r, a)
    <3>1. r = PutFrame(start, b) /\ q = Put(r, a)
      OBVIOUS
    <3> HIDE DEF q, r
    <3>2. q = Record(b, Len(frame))
      BY <1>6, <3>1
    <3> QED
      BY <3>1, <3>2, Zenon
  <2> QED
    BY <2>2, <2>4, <2>5, Zenon
<1> HIDE DEF Record
<1> QED
  BY <1>2, <1>7, <1>8, <1>9, <1>5, Zenon DEF start, ZF

\* The packet a host reads from an action, and what FlatActionIsWhole asks of
\* the action for packet p.
Handed(out) ==
  [ttl |-> out.ttl, seq |-> out.seq, src |-> out.src,
   dest |-> IF out.has_dest THEN out.dest ELSE NoDest,
   payload |-> SubSeq(out.payload, 1, out.payload_len)]

Relay(out) == Decode(SubSeq(out.frame, 1, out.frame_len), POHOLOS_MAX_FRAME_LEN)

Clean(out) ==
  /\ \A i \in DOMAIN out.payload : i > out.payload_len => out.payload[i] = 0
  /\ \A i \in DOMAIN out.frame : i > out.frame_len => out.frame[i] = 0

Whole(out, p) ==
  /\ Clean(out)
  /\ out.kind = "Deliver" => Handed(out) = p /\ out.frame_len = 0
  /\ out.kind = "DeliverAndForward" => Handed(out) = p /\ Relay(out) = Ok(Hopped(p))
  /\ out.kind = "Forward" => Handed(out) = Hopped(p) /\ Relay(out) = Ok(Hopped(p))
  /\ out.kind = "Ignore" => out = [EMPTY EXCEPT !.ignore_reason = out.ignore_reason]

\* Zeros are what nothing is copied into.
LEMMA ZerosFacts ==
  ASSUME NEW n \in Nat
  PROVE  \A i \in DOMAIN Zeros(n) : i > 0 => Zeros(n)[i] = 0
  BY DEF Zeros

LEMMA FilledFacts ==
  ASSUME NEW kind, NEW q \in PacketN(POHOLOS_MAX_FRAME_LEN), NEW frame, NEW m,
         \A i \in DOMAIN frame : i > m => frame[i] = 0
  PROVE  LET r == Filled(kind, q, frame, m)
         IN  /\ r.kind = kind /\ r.frame = frame /\ r.frame_len = m
             /\ Handed(r) = q
             /\ Clean(r)
<1> DEFINE r == Filled(kind, q, frame, m)
           has == q.dest # NoDest
           d == IF q.dest = NoDest THEN Zeros(4) ELSE q.dest
           n == Len(q.payload)
           a == Into(Zeros(POHOLOS_MAX_PAYLOAD_LEN), q.payload)
<1>1. r = [kind |-> kind, ignore_reason |-> "None", has_dest |-> has, ttl |-> q.ttl,
           seq |-> q.seq, payload_len |-> n, frame_len |-> m, src |-> q.src,
           dest |-> d, payload |-> a, frame |-> frame]
  BY Zenon DEF Filled
<1>2. SubSeq(a, 1, n) = q.payload /\ \A i \in DOMAIN a : i > n => a[i] = 0
  <2>1. POHOLOS_MAX_PAYLOAD_LEN \in Nat
    BY CapFacts
  <2>2. q.payload \in Seq(Byte) /\ Len(q.payload) <= POHOLOS_MAX_PAYLOAD_LEN
    BY PacketFits
  <2> QED
    BY <2>1, <2>2, IntoFacts
<1>3. (IF has THEN d ELSE NoDest) = q.dest
  BY Zenon
<1> HIDE DEF has, d, n, a, r
<1>4. /\ r.kind = kind /\ r.frame = frame /\ r.frame_len = m /\ r.payload = a
      /\ r.payload_len = n /\ r.ttl = q.ttl /\ r.seq = q.seq /\ r.src = q.src
      /\ r.has_dest = has /\ r.dest = d
  BY <1>1
<1>5. Handed(r) = [ttl |-> q.ttl, seq |-> q.seq, src |-> q.src, dest |-> q.dest,
                  payload |-> q.payload]
  <2>1. Handed(r) = [ttl |-> q.ttl, seq |-> q.seq, src |-> q.src,
                    dest |-> IF has THEN d ELSE NoDest, payload |-> SubSeq(a, 1, n)]
    BY <1>4, Zenon DEF Handed
  <2> QED
    BY <1>2, <1>3, <2>1, Zenon
<1>6. Handed(r) = q
  BY <1>5, PacketRecord, Zenon
<1>7. Clean(r)
  BY <1>2, <1>4, Zenon DEF Clean
<1> QED
  BY <1>4, <1>6, <1>7 DEF r

\* What a router may decide.
LEMMA RouteFacts ==
  ASSUME NEW keys, NEW p
  PROVE  LET action == RouteAction(Host, keys, p)
             fresh == p.src # Host /\ NewlySeen(keys, KeyBytes(p))
         IN  \/ /\ \E reason : action = Ignore(reason)
                /\ ~ fresh \/ (p.dest \notin {NoDest, Host} /\ ~ MayHop(p))
             \/ /\ action = [kind |-> "Deliver", packet |-> p]
                /\ fresh /\ p.dest \in {NoDest, Host} /\ (p.dest = Host \/ ~ MayHop(p))
             \/ /\ action = [kind |-> "DeliverAndForward", packet |-> p,
                             frame |-> Encode(Hopped(p))]
                /\ fresh /\ p.dest = NoDest /\ p.dest # Host /\ MayHop(p)
             \/ /\ action = [kind |-> "Forward", frame |-> Encode(Hopped(p))]
                /\ fresh /\ p.dest \notin {NoDest, Host} /\ MayHop(p)
<1> DEFINE own == p.src = Host
           new == NewlySeen(keys, KeyBytes(p))
           hop == MayHop(p)
           action == RouteAction(Host, keys, p)
           decided ==
             IF p.dest = NoDest
             THEN IF hop
                  THEN [kind |-> "DeliverAndForward", packet |-> p, frame |-> Encode(Hopped(p))]
                  ELSE [kind |-> "Deliver", packet |-> p]
             ELSE IF p.dest = Host THEN [kind |-> "Deliver", packet |-> p]
             ELSE IF hop THEN [kind |-> "Forward", frame |-> Encode(Hopped(p))]
             ELSE Ignore("ExpiredTtl")
<1>1. Host # NoDest
  <2>1. Len(Host) = 4
    BY HostAssumption, WireIdFacts
  <2>2. Len(NoDest) = 0
    BY EmptySeq DEF NoDest
  <2> QED
    BY <2>1, <2>2
<1>2. own \in BOOLEAN /\ new \in BOOLEAN /\ hop \in BOOLEAN
  BY DEF NewlySeen, MayHop
<1>3. action = CASE own -> Ignore("Own")
                 [] ~ own /\ ~ new -> Ignore("Duplicate")
                 [] OTHER -> decided
  BY Zenon DEF RouteAction
<1> HIDE DEF own, new, hop, decided, action
<1>4. /\ own => action = Ignore("Own")
      /\ ~ own /\ ~ new => action = Ignore("Duplicate")
      /\ ~ own /\ new => action = decided
  BY <1>2, <1>3
<1>5. \/ decided = Ignore("ExpiredTtl") /\ p.dest \notin {NoDest, Host} /\ ~ hop
      \/ /\ decided = [kind |-> "Deliver", packet |-> p]
         /\ p.dest \in {NoDest, Host} /\ (p.dest = Host \/ ~ hop)
      \/ /\ decided = [kind |-> "DeliverAndForward", packet |-> p, frame |-> Encode(Hopped(p))]
         /\ p.dest = NoDest /\ p.dest # Host /\ hop
      \/ /\ decided = [kind |-> "Forward", frame |-> Encode(Hopped(p))]
         /\ p.dest \notin {NoDest, Host} /\ hop
  <2>1. CASE p.dest = NoDest
    BY <1>1, <2>1, Zenon DEF decided
  <2>2. CASE p.dest # NoDest /\ p.dest = Host
    BY <2>2, Zenon DEF decided
  <2>3. CASE p.dest # NoDest /\ p.dest # Host
    BY <2>3, Zenon DEF decided
  <2> QED
    BY <2>1, <2>2, <2>3
<1>6. own \/ (~ own /\ ~ new) \/ (~ own /\ new)
  BY <1>2
<1> DEFINE fresh == ~ own /\ new
<1>7. \/ (\E reason : action = Ignore(reason)) /\ ~ fresh
      \/ action = decided /\ fresh
  BY <1>4, <1>6, Zenon
<1>8. \/ (\E reason : action = Ignore(reason)) /\ ~ fresh
      \/ /\ fresh /\ (\E reason : action = Ignore(reason))
         /\ p.dest \notin {NoDest, Host} /\ ~ hop
      \/ /\ fresh /\ action = [kind |-> "Deliver", packet |-> p]
         /\ p.dest \in {NoDest, Host} /\ (p.dest = Host \/ ~ hop)
      \/ /\ fresh
         /\ action = [kind |-> "DeliverAndForward", packet |-> p, frame |-> Encode(Hopped(p))]
         /\ p.dest = NoDest /\ p.dest # Host /\ hop
      \/ /\ fresh /\ action = [kind |-> "Forward", frame |-> Encode(Hopped(p))]
         /\ p.dest \notin {NoDest, Host} /\ hop
  BY <1>5, <1>7, Zenon
<1> QED
  BY <1>8, Zenon DEF own, new, hop, action

\* Flattened into whatever storage, a decision is whole and keeps its kind.
LEMMA FlattenIsWhole ==
  ASSUME NEW keys, NEW out, NEW p \in PacketN(POHOLOS_MAX_FRAME_LEN)
  PROVE  LET action == RouteAction(Host, keys, p)
         IN  /\ Whole(Flatten(out, action), p)
             /\ Flatten(out, action).kind = action.kind
<1> DEFINE action == RouteAction(Host, keys, p)
           CAP == POHOLOS_MAX_FRAME_LEN
           ZF == Zeros(CAP)
           q == Hopped(p)
           f == Encode(q)
           start == [EMPTY EXCEPT !.kind = action.kind]
           new == Flatten(out, action)
           relay == Decode(f, CAP)
<1>1. CAP \in Nat
  BY CapFacts
<1>2. ASSUME MayHop(p)
      PROVE  /\ q \in PacketN(CAP) /\ relay = Ok(q)
             /\ SubSeq(Into(ZF, f), 1, Len(f)) = f
             /\ \A i \in DOMAIN Into(ZF, f) : i > Len(f) => Into(ZF, f)[i] = 0
  <2>1. q \in PacketN(CAP)
    BY <1>2, HoppedFacts
  <2>2. f \in Seq(Byte) /\ Len(f) <= CAP
    BY <2>1, PacketFits
  <2> QED
    BY <1>1, <2>1, <2>2, RoundTrip, IntoFacts
<1>3. \A x : Ok(x).ok = TRUE /\ Ok(x).value = x
  BY DEF Ok
<1>4. new = CASE action.kind = "Deliver" -> FillPacket(start, action.packet)
              [] action.kind = "DeliverAndForward" ->
                   FillFrame(FillPacket(start, action.packet), action.frame)
              [] action.kind = "Forward" ->
                   (LET r == Decode(action.frame, CAP)
                    IN  IF r.ok THEN FillPacket(FillFrame(start, action.frame), r.value)
                                ELSE FillFrame(start, action.frame))
              [] action.kind = "Ignore" -> [start EXCEPT !.ignore_reason = action.reason]
  BY Zenon DEF Flatten, Start
<1>5. CASE action = [kind |-> "Deliver", packet |-> p]
  <2>1. action.kind = "Deliver" /\ action.packet = p
    BY <1>5
  <2> HIDE DEF action, new
  <2>2. new = FillPacket(start, p)
    BY <1>4, <2>1
  <2>3. new = Filled("Deliver", p, ZF, 0)
    BY <2>1, <2>2, FillFacts, Zenon
  <2>4. \A i \in DOMAIN ZF : i > 0 => ZF[i] = 0
    BY <1>1, ZerosFacts
  <2>5. new.kind = "Deliver" /\ new.frame_len = 0 /\ Handed(new) = p /\ Clean(new)
    BY <2>3, <2>4, FilledFacts
  <2> QED
    BY <2>1, <2>5 DEF Whole, new, action
<1>6. CASE MayHop(p) /\ action = [kind |-> "DeliverAndForward", packet |-> p, frame |-> f]
  <2>1. action.kind = "DeliverAndForward" /\ action.packet = p /\ action.frame = f
    BY <1>6
  <2> HIDE DEF action, new, f
  <2>2. new = FillFrame(FillPacket(start, p), f)
    BY <1>4, <2>1
  <2> DEFINE k == "DeliverAndForward"
  <2>3. new = Filled("DeliverAndForward", p, Into(ZF, f), Len(f))
    <3>1. FillFrame(FillPacket([EMPTY EXCEPT !.kind = k], p), f) = Filled(k, p, Into(ZF, f), Len(f))
      BY FillFacts
    <3>2. start = [EMPTY EXCEPT !.kind = k]
      BY <2>1, Zenon
    <3> QED
      BY <2>2, <3>1, <3>2, Zenon
  <2>4. /\ new.kind = "DeliverAndForward" /\ new.frame = Into(ZF, f) /\ new.frame_len = Len(f)
        /\ Handed(new) = p /\ Clean(new)
    BY <1>2, <1>6, <2>3, FilledFacts
  <2>5. Relay(new) = Ok(q)
    BY <1>2, <1>6, <2>4, Zenon DEF Relay
  <2> QED
    BY <2>1, <2>4, <2>5 DEF Whole, new, action
<1>7. CASE MayHop(p) /\ action = [kind |-> "Forward", frame |-> f]
  <2>1. action.kind = "Forward" /\ action.frame = f
    BY <1>7
  <2>2. relay.ok /\ relay.value = q
    BY <1>2, <1>3, <1>7
  <2> HIDE DEF action, new, f, q
  <2>3. new = FillPacket(FillFrame(start, f), q)
    BY <1>4, <2>1, <2>2
  <2> DEFINE k == "Forward"
  <2>4. new = Filled("Forward", q, Into(ZF, f), Len(f))
    <3>1. FillPacket(FillFrame([EMPTY EXCEPT !.kind = k], f), q) = Filled(k, q, Into(ZF, f), Len(f))
      BY FillFacts
    <3>2. start = [EMPTY EXCEPT !.kind = k]
      BY <2>1, Zenon
    <3> QED
      BY <2>3, <3>1, <3>2, Zenon
  <2>5. /\ new.kind = "Forward" /\ new.frame = Into(ZF, f) /\ new.frame_len = Len(f)
        /\ Handed(new) = q /\ Clean(new)
    BY <1>2, <1>7, <2>4, FilledFacts
  <2>6. Relay(new) = Ok(q)
    BY <1>2, <1>7, <2>5, Zenon DEF Relay
  <2> QED
    BY <2>1, <2>5, <2>6 DEF Whole, new, action, q
<1>8. ASSUME NEW reason, action = Ignore(reason)
      PROVE  Whole(new, p) /\ new.kind = action.kind
  <2>1. action.kind = "Ignore" /\ action.reason = reason
    BY <1>8 DEF Ignore
  <2> HIDE DEF action, new
  <2>2. new = [start EXCEPT !.ignore_reason = reason]
    BY <1>4, <2>1
  <2> DEFINE no == FALSE
             ZP == Zeros(POHOLOS_MAX_PAYLOAD_LEN)
             Z4 == Zeros(4)
  <2>3. EMPTY = [kind |-> "Ignore", ignore_reason |-> "None", has_dest |-> no, ttl |-> 0,
                 seq |-> 0, payload_len |-> 0, frame_len |-> 0, src |-> Z4,
                 dest |-> Z4, payload |-> ZP, frame |-> ZF]
    BY Zenon DEF EMPTY
  <2>4. /\ \A i \in DOMAIN ZF : i > 0 => ZF[i] = 0
        /\ \A i \in DOMAIN ZP : i > 0 => ZP[i] = 0
    BY <1>1, CapFacts, ZerosFacts
  <2> HIDE DEF no, ZP, Z4, ZF
  <2>5. start = EMPTY
    BY <2>1, <2>3
  <2> HIDE DEF start
  <2>6. new = [EMPTY EXCEPT !.ignore_reason = reason]
    BY <2>2, <2>5
  <2>7. /\ new.kind = "Ignore" /\ new.ignore_reason = reason
        /\ new.payload = ZP /\ new.payload_len = 0 /\ new.frame = ZF /\ new.frame_len = 0
    BY <2>3, <2>6
  <2>8. Clean(new)
    BY <2>4, <2>7, Zenon DEF Clean
  <2> QED
    BY <2>1, <2>6, <2>7, <2>8 DEF Whole
<1>9. \/ \E reason : action = Ignore(reason)
      \/ action = [kind |-> "Deliver", packet |-> p]
      \/ MayHop(p) /\ action = [kind |-> "DeliverAndForward", packet |-> p, frame |-> f]
      \/ MayHop(p) /\ action = [kind |-> "Forward", frame |-> f]
  BY RouteFacts, Zenon
<1> QED
  BY <1>5, <1>6, <1>7, <1>8, <1>9

\* What a host reads after a successful call is one message and nothing of an
\* earlier one, whatever it has fed in before.
THEOREM ActionIsWhole == MSpec => []FlatActionIsWhole
<1> DEFINE CAP == POHOLOS_MAX_FRAME_LEN
           Packet(bytes) == Decode(CHOOSE b \in bytes : TRUE, CAP).value
<1>1. MInit => FlatActionIsWhole
  BY DEF MInit, FlatActionIsWhole
<1>2. FlatActionIsWhole /\ [MNext]_mvars => FlatActionIsWhole'
  <2> SUFFICES ASSUME FlatActionIsWhole, [MNext]_mvars PROVE FlatActionIsWhole'
    OBVIOUS
  <2>1. ASSUME UNCHANGED <<out_action, status, fed>> PROVE FlatActionIsWhole'
    BY <2>1 DEF FlatActionIsWhole
  <2>2. CASE RouterNew \/ RouterFree
    BY <2>1, <2>2 DEF RouterNew, RouterFree
  <2>3. CASE UNCHANGED mvars
    BY <2>1, <2>3 DEF mvars
  <2>4. ASSUME NEW bytes \in {{}} \cup {{b} : b \in Received}, Ingest(bytes)
        PROVE  FlatActionIsWhole'
    <3>1. CASE status' # "Ok"
      BY <3>1 DEF FlatActionIsWhole
    <3>2. CASE status' = "Ok"
      <4>1. PICK keys \in router, received \in bytes :
               /\ Decode(received, CAP).ok
               /\ out_action' = Flatten(out_action,
                                        RouteAction(Host, keys, Decode(received, CAP).value))
        BY <2>4, <3>2 DEF Ingest
      <4>2. received \in Received /\ bytes = {received}
        BY <2>4
      <4>3. received \in Seq(Byte)
        BY <4>2, ReceivedAssumption
      <4> DEFINE p == Decode(received, CAP).value
      <4>4. p \in PacketN(CAP)
        BY <4>1, <4>3, CapFacts, DecodedIsPacket
      <4>5. Whole(out_action', p)
        BY <4>1, <4>4, FlattenIsWhole
      <4>6. fed' = bytes /\ (CHOOSE b \in bytes : TRUE) = received
        BY <2>4, <4>2 DEF Ingest
      <4>7. Packet(fed') = p
        BY <4>6
      <4> HIDE DEF Packet, p
      <4>8. Whole(out_action', Packet(fed'))
        BY <4>5, <4>7
      <4> QED
        BY <4>8, Zenon DEF FlatActionIsWhole, Whole, Handed, Relay, Clean, Packet
    <3> QED
      BY <3>1, <3>2
  <2> QED
    BY <2>2, <2>3, <2>4 DEF MNext
<1> QED
  BY <1>1, <1>2, PTL DEF MSpec

(***************************************************************************)
(* The engine against module Router: the keys of its cache are those of    *)
(* the messages Router would remember, place by place.                     *)
(***************************************************************************)

Routed == {AsRouted(p).msg : p \in PacketN(POHOLOS_MAX_FRAME_LEN)}

KeyOf(msg) ==
  <<IF msg.dest = NoDest THEN 0 ELSE 1>> \o msg.src \o BigEndian(msg.id[1]) \o msg.dest \o msg.id[2]

RoutedKeys == {KeyOf(msg) : msg \in Routed}

Mirrors(keys, messages) ==
  /\ keys \in Seq(RoutedKeys) /\ messages \in Seq(Routed)
  /\ Len(keys) = Len(messages) /\ Len(messages) <= SEEN_CAPACITY
  /\ Distinct(keys) /\ Distinct(messages)
  /\ \A i \in 1 .. Len(messages) : keys[i] = KeyOf(messages[i])

MirrorInv ==
  /\ ingests \in Nat
  /\ ingests = 0 => known = R!EmptyCache
  /\ \A keys \in router : Mirrors(keys, known)

LEMMA AsRoutedFacts ==
  ASSUME NEW p
  PROVE  /\ AsRouted(p).msg = [src |-> p.src, dest |-> p.dest, id |-> <<p.seq, p.payload>>]
         /\ AsRouted(p).msg.src = p.src /\ AsRouted(p).msg.dest = p.dest
         /\ AsRouted(p).msg.id[1] = p.seq /\ AsRouted(p).msg.id[2] = p.payload
         /\ AsRouted(p).ttl = p.ttl
  BY DEF AsRouted

LEMMA KeyOfFacts ==
  ASSUME NEW p \in PacketN(POHOLOS_MAX_FRAME_LEN)
  PROVE  /\ AsRouted(p).msg \in Routed
         /\ KeyBytes(p) = KeyOf(AsRouted(p).msg) /\ KeyBytes(p) \in RoutedKeys
<1> DEFINE msg == AsRouted(p).msg
<1>1. msg \in Routed
  BY DEF Routed
<1>2. msg.src = p.src /\ msg.dest = p.dest /\ msg.id[1] = p.seq /\ msg.id[2] = p.payload
  BY AsRoutedFacts
<1> HIDE DEF msg
<1>3. KeyBytes(p) = KeyOf(msg)
  BY <1>2, Zenon DEF KeyBytes, KeyOf
<1> QED
  BY <1>1, <1>3 DEF RoutedKeys, msg

LEMMA KeyOfInjective ==
  ASSUME NEW m \in Routed, NEW n \in Routed, KeyOf(m) = KeyOf(n)
  PROVE  m = n
<1> DEFINE CAP == POHOLOS_MAX_FRAME_LEN
<1>1. CAP \in Nat
  BY CapFacts
<1>2. PICK p \in PacketN(CAP), q \in PacketN(CAP) : m = AsRouted(p).msg /\ n = AsRouted(q).msg
  BY DEF Routed
<1>3. KeyBytes(p) = KeyBytes(q)
  BY <1>2, KeyOfFacts
<1>4. p = [q EXCEPT !.ttl = p.ttl]
  BY <1>1, <1>3, KeyIsMessage
<1>5. /\ q = [ttl |-> q.ttl, seq |-> q.seq, src |-> q.src, dest |-> q.dest, payload |-> q.payload]
  BY PacketRecord
<1>6. p.src = q.src /\ p.seq = q.seq /\ p.dest = q.dest /\ p.payload = q.payload
  BY <1>4, <1>5
<1>7. /\ m = [src |-> p.src, dest |-> p.dest, id |-> <<p.seq, p.payload>>]
      /\ n = [src |-> q.src, dest |-> q.dest, id |-> <<q.seq, q.payload>>]
  BY <1>2, AsRoutedFacts
<1> QED
  BY <1>6, <1>7, Zenon

LEMMA MirrorsContain ==
  ASSUME NEW keys, NEW messages, Mirrors(keys, messages), NEW m \in Routed
  PROVE  Contains(keys, KeyOf(m)) <=> Contains(messages, m)
<1>1. /\ messages \in Seq(Routed) /\ Len(keys) = Len(messages)
      /\ \A i \in 1 .. Len(messages) : keys[i] = KeyOf(messages[i])
  BY DEF Mirrors
<1>2. \A i \in 1 .. Len(messages) : messages[i] \in Routed
  BY <1>1, ElementOfSeq
<1>3. \A i \in 1 .. Len(messages) : keys[i] = KeyOf(m) <=> messages[i] = m
  BY <1>1, <1>2, KeyOfInjective
<1> QED
  BY <1>1, <1>3 DEF Contains

\* An insert on both sides leaves them mirrors of each other.
LEMMA MirrorsInsert ==
  ASSUME NEW keys, NEW messages, Mirrors(keys, messages), NEW m \in Routed
  PROVE  Mirrors(Insert(keys, KeyOf(m)), Insert(messages, m))
<1> DEFINE key == KeyOf(m)
           after == Insert(keys, key)
           later == Insert(messages, m)
           L == Len(messages)
<1>1. /\ keys \in Seq(RoutedKeys) /\ messages \in Seq(Routed)
      /\ Len(keys) = L /\ L <= SEEN_CAPACITY
      /\ Distinct(keys) /\ Distinct(messages)
      /\ \A i \in 1 .. L : keys[i] = KeyOf(messages[i])
  BY DEF Mirrors
<1>2. key \in RoutedKeys /\ L \in Nat /\ DOMAIN messages = 1 .. L
  BY <1>1, LenProperties DEF RoutedKeys
<1>3. after \in Seq(RoutedKeys) /\ Len(after) <= SEEN_CAPACITY /\ Distinct(after)
  BY <1>1, <1>2, InsertKeepsCache
<1>4. later \in Seq(Routed) /\ Len(later) <= SEEN_CAPACITY /\ Distinct(later)
  BY <1>1, InsertKeepsCache
<1>5. PICK p \in 1 .. L + 1 :
        /\ Moved(keys, after, key, p)
        /\ \/ p <= L /\ keys[p] = key
           \/ p = L + 1 /\ ~ Contains(keys, key) /\ L < SEEN_CAPACITY
           \/ p = 1 /\ ~ Contains(keys, key) /\ L = SEEN_CAPACITY
  <2>1. \E p \in 1 .. Len(keys) + 1 :
          /\ Moved(keys, after, key, p)
          /\ \/ p <= Len(keys) /\ keys[p] = key
             \/ p = Len(keys) + 1 /\ ~ Contains(keys, key) /\ Len(keys) < SEEN_CAPACITY
             \/ p = 1 /\ ~ Contains(keys, key) /\ Len(keys) = SEEN_CAPACITY
    <3>1. keys \in Seq(RoutedKeys) /\ key \in RoutedKeys /\ Len(keys) <= SEEN_CAPACITY
      BY <1>1, <1>2
    <3> HIDE DEF key
    <3> QED
      BY <3>1, InsertFacts
  <2> QED
    BY <1>1, <2>1, Zenon
<1>6. PICK q \in 1 .. L + 1 :
        /\ Moved(messages, later, m, q)
        /\ \/ q <= L /\ messages[q] = m
           \/ q = L + 1 /\ ~ Contains(messages, m) /\ L < SEEN_CAPACITY
           \/ q = 1 /\ ~ Contains(messages, m) /\ L = SEEN_CAPACITY
  BY <1>1, InsertFacts
<1>7. Contains(keys, key) <=> Contains(messages, m)
  BY MirrorsContain
<1>8. Contains(messages, m) <=> \E i \in 1 .. L : messages[i] = m
  BY DEF Contains
<1>9. \A i \in 1 .. L : keys[i] = key <=> messages[i] = m
  <2>1. \A i \in 1 .. L : messages[i] \in Routed
    BY <1>1, ElementOfSeq
  <2> QED
    BY <1>1, <2>1, KeyOfInjective
<1> HIDE DEF key, after, later, L
<1>10. SEEN_CAPACITY \in Nat
  BY CapacityAssumption
<1>11. p = q
  <2>1. CASE Contains(messages, m)
    <3>1. p \in 1 .. L /\ q \in 1 .. L /\ keys[p] = key /\ messages[q] = m
      BY <1>2, <1>5, <1>6, <1>7, <2>1
    <3>2. messages[p] = m
      BY <1>9, <3>1
    <3> QED
      BY <1>1, <1>2, <3>1, <3>2 DEF Distinct
  <2>2. CASE ~ Contains(messages, m)
    <3>1. ~ (p <= L /\ keys[p] = key)
      BY <1>2, <1>5, <1>8, <1>9, <2>2
    <3>2. ~ (q <= L /\ messages[q] = m)
      BY <1>2, <1>6, <1>8, <2>2
    <3> QED
      BY <1>2, <1>5, <1>6, <1>10, <3>1, <3>2
  <2> QED
    BY <2>1, <2>2
<1> DEFINE n == Remaining(L, p)
<1>12. /\ n \in Nat \ {0} /\ \A i \in 1 .. n - 1 : Old(p, i) \in 1 .. L
  BY <1>2, OldFacts
<1>13. /\ Len(after) = n /\ Len(later) = n
       /\ after[n] = key /\ later[n] = m
       /\ \A i \in 1 .. n - 1 : after[i] = keys[Old(p, i)] /\ later[i] = messages[Old(p, i)]
  BY <1>1, <1>5, <1>6, <1>11 DEF Moved, L
<1> HIDE DEF n
<1>14. \A i \in 1 .. n : after[i] = KeyOf(later[i])
  <2> SUFFICES ASSUME NEW i \in 1 .. n PROVE after[i] = KeyOf(later[i])
    OBVIOUS
  <2>1. CASE i = n
    BY <1>13, <2>1 DEF key
  <2>2. CASE i # n
    <3>1. i \in 1 .. n - 1
      BY <1>12, <2>2
    <3> QED
      BY <1>1, <1>12, <1>13, <3>1
  <2> QED
    BY <2>1, <2>2
<1> QED
  BY <1>3, <1>4, <1>13, <1>14 DEF Mirrors, key, after, later

\* The operators of the instance are those of Seen.
LEMMA SameEngine ==
  ASSUME NEW keys, NEW key
  PROVE  /\ R!Insert(keys, key) = Insert(keys, key)
         /\ R!NewlySeen(keys, key) <=> ~ Contains(keys, key)
         /\ R!EmptyCache = EmptyCache
<1>1. R!Contains(keys, key) <=> Contains(keys, key)
  BY DEF R!Contains, Contains
<1>2. R!Insert(keys, key) = Insert(keys, key)
  BY DEF R!Insert, Insert, R!Contains, Contains, R!Refresh, Refresh, R!Admit,
         Admit, R!RemoveAt, RemoveAt, R!Position, Position
<1> QED
  BY <1>1, <1>2 DEF R!NewlySeen, R!EmptyCache, EmptyCache

LEMMA EmptyMirrors == Mirrors(EmptyCache, EmptyCache)
<1>1. /\ EmptyCache \in Seq(RoutedKeys) /\ EmptyCache \in Seq(Routed)
      /\ Len(EmptyCache) <= SEEN_CAPACITY /\ Distinct(EmptyCache)
  BY EmptyCacheFacts
<1>2. Len(EmptyCache) = 0
  BY EmptySeq DEF EmptyCache
<1> QED
  BY <1>1, <1>2 DEF Mirrors

\* One decision, made on the bytes and made on the message.
LEMMA SameDecision ==
  ASSUME NEW keys, NEW messages, Mirrors(keys, messages),
         NEW p \in PacketN(POHOLOS_MAX_FRAME_LEN)
  PROVE  LET kind == RouteAction(Host, keys, p).kind
         IN  /\ kind \in {"Deliver", "DeliverAndForward"}
                  <=> R!Delivers(Host, messages, AsRouted(p))
             /\ kind \in {"Forward", "DeliverAndForward"}
                  <=> R!Forwards(Host, messages, AsRouted(p))
             /\ Mirrors(SeenAfter(Host, keys, p), R!CacheAfter(Host, messages, AsRouted(p)))
<1> DEFINE kind == RouteAction(Host, keys, p).kind
           routed == AsRouted(p)
           msg == routed.msg
           own == p.src = Host
           fresh == p.src # Host /\ NewlySeen(keys, KeyBytes(p))
           hop == MayHop(p)
           d == p.dest
<1>1. msg \in Routed /\ KeyBytes(p) = KeyOf(msg)
  BY KeyOfFacts
<1>2. msg.src = p.src /\ msg.dest = d /\ routed.ttl = p.ttl
  BY AsRoutedFacts
<1>3. R!Key(routed) = msg
  BY DEF R!Key
<1>4. R!NewlySeen(messages, msg) <=> NewlySeen(keys, KeyBytes(p))
  BY <1>1, MirrorsContain, SameEngine DEF NewlySeen
<1>5. R!IsFresh(Host, messages, routed) <=> fresh
  BY <1>2, <1>3, <1>4, Zenon DEF R!IsFresh, R!IsOwn
<1>6. R!Delivers(Host, messages, routed) <=> fresh /\ d \in {NoDest, Host}
  BY <1>2, <1>5, Zenon DEF R!Delivers, R!IsForMe
<1>7. R!MayHop(routed) <=> hop
  BY <1>2, Zenon DEF R!MayHop, MayHop
<1>8. R!Forwards(Host, messages, routed) <=> fresh /\ d # Host /\ hop
  BY <1>2, <1>5, <1>7, Zenon DEF R!Forwards
<1>9. \/ kind = "Ignore" /\ (~ fresh \/ (d \notin {NoDest, Host} /\ ~ hop))
      \/ kind = "Deliver" /\ fresh /\ d \in {NoDest, Host} /\ (d = Host \/ ~ hop)
      \/ kind = "DeliverAndForward" /\ fresh /\ d = NoDest /\ d # Host /\ hop
      \/ kind = "Forward" /\ fresh /\ d \notin {NoDest, Host} /\ hop
  BY RouteFacts DEF Ignore
<1>10. Mirrors(SeenAfter(Host, keys, p), R!CacheAfter(Host, messages, routed))
  <2>1. CASE own
    BY <1>2, <2>1, Zenon DEF SeenAfter, R!CacheAfter, R!IsOwn
  <2>2. CASE ~ own
    <3>1. SeenAfter(Host, keys, p) = Insert(keys, KeyOf(msg))
      BY <1>1, <2>2, Zenon DEF SeenAfter
    <3>2. R!CacheAfter(Host, messages, routed) = Insert(messages, msg)
      BY <1>2, <1>3, <2>2, SameEngine, Zenon DEF R!CacheAfter, R!IsOwn
    <3> QED
      BY <1>1, <3>1, <3>2, MirrorsInsert
  <2> QED
    BY <2>1, <2>2
<1> HIDE DEF kind, fresh, hop, d, routed
<1> QED
  BY <1>6, <1>8, <1>9, <1>10 DEF kind, routed

LEMMA MirrorInvHolds ==
  /\ MInit => MirrorInv
  /\ MirrorInv /\ [MNext]_mvars => MirrorInv'
<1>1. MInit => MirrorInv
  BY DEF MInit, MirrorInv
<1>2. ASSUME MirrorInv, [MNext]_mvars PROVE MirrorInv'
  <2>0. /\ ingests \in Nat
        /\ ingests = 0 => known = R!EmptyCache
        /\ \A keys \in router : Mirrors(keys, known)
    BY <1>2 DEF MirrorInv
  <2>1. CASE UNCHANGED mvars
    BY <2>0, <2>1 DEF mvars, MirrorInv
  <2>2. CASE RouterNew
    <3>1. router' = {EmptyCache} /\ known = R!EmptyCache /\ known' = known /\ ingests' = ingests
      BY <2>0, <2>2 DEF RouterNew
    <3>2. Mirrors(EmptyCache, known')
      BY <3>1, EmptyMirrors, SameEngine
    <3> QED
      BY <2>0, <3>1, <3>2 DEF MirrorInv
  <2>3. CASE RouterFree
    BY <2>0, <2>3 DEF RouterFree, MirrorInv
  <2>4. ASSUME NEW bytes \in {{}} \cup {{b} : b \in Received}, Ingest(bytes)
        PROVE  MirrorInv'
    <3>1. ingests' \in Nat /\ ingests' # 0
      BY <2>0, <2>4 DEF Ingest
    <3>2. CASE UNCHANGED <<router, known>>
      BY <2>0, <3>1, <3>2 DEF MirrorInv
    <3>3. CASE ~ UNCHANGED <<router, known>>
      <4>1. PICK keys \in router, received \in bytes :
               LET p == Decode(received, POHOLOS_MAX_FRAME_LEN).value
               IN  /\ Decode(received, POHOLOS_MAX_FRAME_LEN).ok
                   /\ router' = {SeenAfter(Host, keys, p)}
                   /\ known' = R!CacheAfter(Host, known, AsRouted(p))
        BY <2>4, <3>3 DEF Ingest
      <4> DEFINE p == Decode(received, POHOLOS_MAX_FRAME_LEN).value
      <4>2. received \in Seq(Byte)
        BY <2>4, ReceivedAssumption
      <4>3. p \in PacketN(POHOLOS_MAX_FRAME_LEN)
        BY <4>1, <4>2, CapFacts, DecodedIsPacket
      <4>4. Mirrors(SeenAfter(Host, keys, p), R!CacheAfter(Host, known, AsRouted(p)))
        BY <2>0, <4>3, SameDecision
      <4> QED
        BY <3>1, <4>1, <4>4 DEF MirrorInv
    <3> QED
      BY <3>2, <3>3
  <2> QED
    BY <1>2, <2>1, <2>2, <2>3, <2>4 DEF MNext
<1> QED
  BY <1>1, <1>2

\* The engine behind the C interface decides on bytes as module Router does on
\* messages, for every capacity of the cache and whatever it is fed.
THEOREM EngineDecides == MSpec => []EngineIsRouter
<1>1. MInit => EngineIsRouter
  BY DEF MInit, EngineIsRouter
<1>2. MirrorInv /\ EngineIsRouter /\ [MNext]_mvars => EngineIsRouter'
  <2> SUFFICES ASSUME MirrorInv, EngineIsRouter, [MNext]_mvars PROVE EngineIsRouter'
    OBVIOUS
  <2>1. ASSUME UNCHANGED <<out_action, status, asRouter>> PROVE EngineIsRouter'
    BY <2>1 DEF EngineIsRouter
  <2>2. CASE RouterNew \/ RouterFree
    BY <2>1, <2>2 DEF RouterNew, RouterFree
  <2>3. CASE UNCHANGED mvars
    BY <2>1, <2>3 DEF mvars
  <2>4. ASSUME NEW bytes \in {{}} \cup {{b} : b \in Received}, Ingest(bytes)
        PROVE  EngineIsRouter'
    <3>1. CASE status' # "Ok"
      BY <3>1 DEF EngineIsRouter
    <3>2. CASE status' = "Ok"
      <4>1. PICK keys \in router, received \in bytes :
               LET p == Decode(received, POHOLOS_MAX_FRAME_LEN).value
               IN  /\ Decode(received, POHOLOS_MAX_FRAME_LEN).ok
                   /\ out_action' = Flatten(out_action, RouteAction(Host, keys, p))
                   /\ asRouter' = [delivers |-> R!Delivers(Host, known, AsRouted(p)),
                                   forwards |-> R!Forwards(Host, known, AsRouted(p))]
        BY <2>4, <3>2 DEF Ingest
      <4> DEFINE p == Decode(received, POHOLOS_MAX_FRAME_LEN).value
                 kind == RouteAction(Host, keys, p).kind
                 delivers == R!Delivers(Host, known, AsRouted(p))
                 forwards == R!Forwards(Host, known, AsRouted(p))
      <4>2. received \in Seq(Byte)
        BY <2>4, ReceivedAssumption
      <4>3. p \in PacketN(POHOLOS_MAX_FRAME_LEN)
        BY <4>1, <4>2, CapFacts, DecodedIsPacket
      <4>4. /\ kind \in {"Deliver", "DeliverAndForward"} <=> delivers
            /\ kind \in {"Forward", "DeliverAndForward"} <=> forwards
        <5>1. Mirrors(keys, known)
          BY DEF MirrorInv
        <5> QED
          BY <4>3, <5>1, SameDecision
      <4>5. out_action'.kind = kind
        BY <4>1, <4>3, FlattenIsWhole
      <4>6. asRouter' = [delivers |-> delivers, forwards |-> forwards]
        BY <4>1
      <4> HIDE DEF p, kind, delivers, forwards
      <4>7. asRouter'.delivers = delivers /\ asRouter'.forwards = forwards
        BY <4>6
      <4> QED
        BY <4>4, <4>5, <4>7, Zenon DEF EngineIsRouter
    <3> QED
      BY <3>1, <3>2
  <2> QED
    BY <2>2, <2>3, <2>4 DEF MNext
<1> QED
  BY <1>1, <1>2, MirrorInvHolds, PTL DEF MSpec

(***************************************************************************)
(* Induction, for the definitions that are recursive functions.            *)
(***************************************************************************)

\* Induction over the naturals, by sets.
LEMMA SetInduction ==
  ASSUME NEW S, 0 \in S, \A n \in Nat : n \in S => n + 1 \in S
  PROVE  Nat \subseteq S
<1> DEFINE Missed == {n \in Nat : n \notin S}
           Less == OpToRel(<, Nat)
<1> SUFFICES ASSUME Missed # {} PROVE FALSE
  OBVIOUS
<1>1. Missed \subseteq Nat /\ IsWellFoundedOn(Less, Nat)
  BY NatLessThanWellFounded
<1>2. \E n \in Missed : \A m \in Missed : <<m, n>> \notin Less
  <2> HIDE DEF Missed, Less
  <2> QED
    BY <1>1, WFMin
<1>3. PICK n \in Missed : \A m \in Missed : <<m, n>> \notin Less
  BY <1>2
<1>4. n \in Nat /\ n \notin S /\ n # 0
  OBVIOUS
<1>5. n - 1 \in Nat /\ n - 1 < n /\ (n - 1) + 1 = n
  BY <1>4
<1>6. n - 1 \in Missed
  BY <1>4, <1>5
<1>7. <<n - 1, n>> \in Less
  BY <1>4, <1>5 DEF OpToRel
<1> QED
  BY <1>3, <1>6, <1>7

(***************************************************************************)
(* The walk of manufacturer_frame and the bytes it walks over.             *)
(***************************************************************************)

\* What the walk answers at place i, given its answers further on.
WalkStep(ad, w, i) ==
  IF i > Len(ad) \/ ad[i] = 0 \/ i + ad[i] > Len(ad) THEN {}
  ELSE LET entry == SubSeq(ad, i + 1, i + ad[i])
       IN  IF IsOurs(entry)
           THEN {SubSeq(entry, MANUFACTURER_HEADER_LEN + 1, Len(entry))}
           ELSE w[i + ad[i] + 1]

\* The walk looks only ahead.
LEMMA WalkLooksAhead ==
  ASSUME NEW ad \in Seq(Byte), NEW v, NEW w, NEW i \in 1 .. Len(ad) + 1,
         \A j \in i + 1 .. Len(ad) + 1 : v[j] = w[j]
  PROVE  WalkStep(ad, v, i) = WalkStep(ad, w, i)
<1>1. CASE i > Len(ad) \/ ad[i] = 0 \/ i + ad[i] > Len(ad)
  BY <1>1 DEF WalkStep
<1>2. CASE ~ (i > Len(ad) \/ ad[i] = 0 \/ i + ad[i] > Len(ad))
  <2>1. i \in 1 .. Len(ad) /\ Len(ad) \in Nat
    BY <1>2
  <2>2. ad[i] \in Byte /\ ad[i] # 0
    BY <1>2, <2>1
  <2>3. i + ad[i] + 1 \in i + 1 .. Len(ad) + 1
    <3> DEFINE b == ad[i]
    <3>0. b \in Byte /\ b # 0 /\ ~ (i + b > Len(ad))
      BY <1>2, <2>2
    <3> HIDE DEF b
    <3>1. b \in Nat /\ b > 0 /\ i + b <= Len(ad)
      BY <2>1, <3>0 DEF Byte
    <3>2. i + b + 1 \in i + 1 .. Len(ad) + 1
      BY <2>1, <3>1
    <3> QED
      BY <3>2 DEF b
  <2>4. v[i + ad[i] + 1] = w[i + ad[i] + 1]
    BY <2>3
  <2> QED
    BY <1>2, <2>4, Zenon DEF WalkStep
<1> QED
  BY <1>1, <1>2

LEMMA WalkExists ==
  ASSUME NEW ad \in Seq(Byte)
  PROVE  \E w : \A i \in 1 .. Len(ad) + 1 : w[i] = WalkStep(ad, w, i)
<1> DEFINE n == Len(ad)
           From(k) == {i \in 1 .. n + 1 : i + k > n}
           Some(k) == \E w : \A i \in From(k) : w[i] = WalkStep(ad, w, i)
           S == {k \in Nat : Some(k)}
<1>0. n \in Nat
  OBVIOUS
<1>1. 0 \in S
  <2>1. From(0) = {n + 1}
    BY <1>0
  <2> DEFINE w == [i \in {n + 1} |-> {}]
  <2>2. w[n + 1] = {} /\ WalkStep(ad, w, n + 1) = {}
    BY <1>0 DEF WalkStep
  <2>3. Some(0)
    BY <2>1, <2>2
  <2> QED
    BY <2>3
<1>2. ASSUME NEW k \in Nat, k \in S PROVE k + 1 \in S
  <2>1. PICK w : \A i \in From(k) : w[i] = WalkStep(ad, w, i)
    BY <1>2
  <2> DEFINE at == n - k
             v == [i \in 1 .. n + 1 |-> IF i = at THEN WalkStep(ad, w, at) ELSE w[i]]
  <2>2. ASSUME NEW i \in From(k + 1) PROVE v[i] = WalkStep(ad, v, i)
    <3>1. i \in 1 .. n + 1 /\ i >= at /\ at \in Int
      BY <1>0
    <3>2. \A j \in i + 1 .. Len(ad) + 1 : j # at /\ j \in 1 .. n + 1
      BY <1>0, <3>1
    <3>3. \A j \in i + 1 .. Len(ad) + 1 : v[j] = w[j]
      BY <3>2
    <3> HIDE DEF v
    <3>4. WalkStep(ad, v, i) = WalkStep(ad, w, i)
      BY <3>1, <3>3, WalkLooksAhead
    <3>5. CASE i = at
      BY <3>1, <3>4, <3>5 DEF v
    <3>6. CASE i # at
      <4>1. i \in From(k)
        BY <1>0, <3>1, <3>6
      <4>2. w[i] = WalkStep(ad, w, i)
        BY <2>1, <4>1
      <4> QED
        BY <3>1, <3>4, <3>6, <4>2 DEF v
    <3> QED
      BY <3>5, <3>6
  <2> HIDE DEF v
  <2>3. Some(k + 1)
    BY <2>2
  <2> QED
    BY <2>3
<1>3. n \in S
  <2> HIDE DEF S
  <2>1. Nat \subseteq S
    BY <1>1, <1>2, SetInduction
  <2> QED
    BY <1>0, <2>1
<1>4. From(n) = 1 .. n + 1
  BY <1>0
<1>5. Some(n)
  BY <1>3
<1> QED
  BY <1>4, <1>5

\* The walk of manufacturer_frame answers as its steps do.
LEMMA WalkFacts ==
  ASSUME NEW ad \in Seq(Byte)
  PROVE  \E w : /\ ManufacturerFrame(ad) = w[1]
                /\ \A i \in 1 .. Len(ad) + 1 : w[i] = WalkStep(ad, w, i)
<1> DEFINE D == 1 .. Len(ad) + 1
           Is(w) == w = [i \in D |-> WalkStep(ad, w, i)]
           from == CHOOSE w : Is(w)
<1>1. PICK v : \A i \in D : v[i] = WalkStep(ad, v, i)
  BY WalkExists
<1> DEFINE u == [i \in D |-> v[i]]
<1>2. Len(ad) \in Nat
  OBVIOUS
<1>3. ASSUME NEW i \in D PROVE u[i] = WalkStep(ad, u, i)
  <2>1. \A j \in i + 1 .. Len(ad) + 1 : u[j] = v[j]
    BY <1>2
  <2> HIDE DEF u
  <2>2. WalkStep(ad, u, i) = WalkStep(ad, v, i)
    BY <2>1, WalkLooksAhead
  <2> QED
    BY <1>1, <2>2 DEF u
<1>4. Is(u)
  <2>1. u = [i \in D |-> u[i]]
    OBVIOUS
  <2> HIDE DEF u
  <2> QED
    BY <1>3, <2>1
<1>5. Is(from)
  <2> HIDE DEF Is
  <2> QED
    BY <1>4, Zenon
<1>6. \A i \in D : from[i] = WalkStep(ad, from, i)
  <2> HIDE DEF from
  <2> QED
    BY <1>5
<1>7. ManufacturerFrame(ad) = from[1]
  BY Zenon DEF ManufacturerFrame, WalkStep
<1> QED
  BY <1>6, <1>7

\* One more structure behind the bytes so far.
RawStep(before, structure) ==
  before \o <<Len(structure.data) + 1, structure.type>> \o structure.data

LEMMA RawStepFacts ==
  ASSUME NEW before \in Seq(Byte), NEW structure \in AdStructure
  PROVE  LET after == RawStep(before, structure)
             n == Len(before)
             d == Len(structure.data)
         IN  /\ after \in Seq(Byte) /\ n \in Nat /\ d \in Nat
             /\ Len(after) = n + 2 + d
             /\ \A i \in 1 .. n : after[i] = before[i]
             /\ after[n + 1] = d + 1 /\ after[n + 2] = structure.type
             /\ \A i \in 1 .. d : after[n + 2 + i] = structure.data[i]
<1> DEFINE n == Len(before)
           data == structure.data
           d == Len(data)
           head == <<d + 1, structure.type>>
           mid == before \o head
           after == RawStep(before, structure)
<1>1. structure.type \in Byte /\ data \in Seq(Byte) /\ d < 255
  BY DEF AdStructure
<1> HIDE DEF data
<1>2. n \in Nat /\ d \in Nat
  BY <1>1
<1>3. d \in 0 .. 254 /\ d + 1 \in Byte
  <2> HIDE DEF d
  <2> QED
    BY <1>1, <1>2, SMT DEF Byte
<1>4. head \in Seq(Byte) /\ Len(head) = 2 /\ head[1] = d + 1 /\ head[2] = structure.type
  <2> HIDE DEF d
  <2> QED
    BY <1>1, <1>3
<1> HIDE DEF head, d
<1>5. /\ mid \in Seq(Byte) /\ Len(mid) = n + 2
      /\ \A i \in 1 .. n : mid[i] = before[i]
      /\ mid[n + 1] = head[1] /\ mid[n + 2] = head[2]
  <2>1. mid \in Seq(Byte)
    BY <1>4, CatTyped
  <2>2. Len(mid) = n + 2
    BY <1>4, CatLength
  <2>3. \A i \in 1 .. n : mid[i] = before[i]
    BY <1>4, CatFront
  <2>4. \A i \in 1 .. 2 : mid[n + i] = head[i]
    <3>0. head \in Seq(Byte)
      BY <1>4
    <3>1. \A i \in 1 .. Len(head) : (before \o head)[Len(before) + i] = head[i]
      BY <3>0, CatBack
    <3> QED
      BY <1>4, <3>1
  <2> HIDE DEF mid, n
  <2> QED
    BY <2>1, <2>2, <2>3, <2>4
<1> HIDE DEF mid, n
<1>6. after = mid \o data
  BY DEF RawStep, mid, head, d, data
<1> HIDE DEF after
<1>7. /\ after \in Seq(Byte) /\ Len(after) = n + 2 + d
      /\ \A i \in 1 .. n + 2 : after[i] = mid[i]
      /\ \A i \in 1 .. d : after[n + 2 + i] = data[i]
  <2>1. after \in Seq(Byte)
    BY <1>1, <1>5, <1>6, CatTyped
  <2>2. Len(after) = n + 2 + d
    BY <1>1, <1>5, <1>6, CatLength DEF d
  <2>3. \A i \in 1 .. n + 2 : after[i] = mid[i]
    <3>1. \A i \in 1 .. Len(mid) : after[i] = mid[i]
      BY <1>1, <1>5, <1>6, CatFront
    <3> QED
      BY <1>5, <3>1
  <2>4. \A i \in 1 .. d : after[n + 2 + i] = data[i]
    <3>1. \A i \in 1 .. Len(data) : after[Len(mid) + i] = data[i]
      BY <1>1, <1>5, <1>6, CatBack
    <3> QED
      BY <1>5, <3>1 DEF d
  <2> QED
    BY <2>1, <2>2, <2>3, <2>4
<1>8. /\ \A i \in 1 .. n : after[i] = before[i]
      /\ after[n + 1] = d + 1 /\ after[n + 2] = structure.type
  BY <1>2, <1>4, <1>5, <1>7
<1> QED
  BY <1>2, <1>3, <1>7, <1>8, Zenon DEF n, d, after, data

\* b holds the bytes of the first i structures, for every i.
Grows(b, structures) ==
  /\ b[0] = << >>
  /\ \A i \in 1 .. Len(structures) : b[i] = RawStep(b[i - 1], structures[i])

LEMMA GrowsExists ==
  ASSUME NEW S, NEW structures \in Seq(S)
  PROVE  \E b : Grows(b, structures)
<1> DEFINE n == Len(structures)
           Some(k) == \E b : /\ b[0] = << >>
                             /\ \A i \in 1 .. n : i <= k => b[i] = RawStep(b[i - 1], structures[i])
           T == {k \in Nat : Some(k)}
<1>0. n \in Nat
  OBVIOUS
<1>1. 0 \in T
  <2> DEFINE b == [i \in {0} |-> << >>]
  <2>1. b[0] = << >> /\ \A i \in 1 .. n : ~ (i <= 0)
    BY <1>0
  <2>2. Some(0)
    BY <2>1
  <2> QED
    BY <2>2
<1>2. ASSUME NEW k \in Nat, k \in T PROVE k + 1 \in T
  <2>1. PICK b : /\ b[0] = << >>
                 /\ \A i \in 1 .. n : i <= k => b[i] = RawStep(b[i - 1], structures[i])
    BY <1>2
  <2> DEFINE at == k + 1
             c == [i \in 0 .. k + 1 |-> IF i = at THEN RawStep(b[k], structures[at]) ELSE b[i]]
  <2>2. c[0] = << >>
    BY <2>1
  <2>3. ASSUME NEW i \in 1 .. n, i <= k + 1 PROVE c[i] = RawStep(c[i - 1], structures[i])
    <3>1. i \in 0 .. k + 1 /\ i - 1 \in 0 .. k + 1 /\ i - 1 # at
      BY <1>0, <2>3
    <3>2. c[i - 1] = b[i - 1]
      BY <3>1
    <3>3. CASE i = at
      <4>1. i - 1 = k
        BY <3>3
      <4> QED
        BY <3>1, <3>2, <3>3, <4>1
    <3>4. CASE i # at
      <4>1. i <= k
        BY <1>0, <2>3, <3>4
      <4> QED
        BY <2>1, <3>1, <3>2, <3>4, <4>1
    <3> QED
      BY <3>3, <3>4
  <2> HIDE DEF c
  <2>4. Some(k + 1)
    BY <2>2, <2>3
  <2> QED
    BY <2>4
<1>3. n \in T
  <2> HIDE DEF T
  <2>1. Nat \subseteq T
    BY <1>1, <1>2, SetInduction
  <2> QED
    BY <1>0, <2>1
<1>4. Some(n)
  BY <1>3
<1>5. \A i \in 1 .. n : i <= n
  BY <1>0
<1> QED
  BY <1>4, <1>5 DEF Grows

\* Raw is the last of them.
LEMMA RawIsLast ==
  ASSUME NEW S, NEW structures \in Seq(S)
  PROVE  \E b : Grows(b, structures) /\ Raw(structures) = b[Len(structures)]
<1> DEFINE D == 0 .. Len(structures)
           Entry(b, i) == IF i = 0 THEN << >> ELSE RawStep(b[i - 1], structures[i])
           Is(b) == b = [i \in D |-> Entry(b, i)]
           bytes == CHOOSE b : Is(b)
<1>0. Len(structures) \in Nat
  OBVIOUS
<1>1. PICK a : Grows(a, structures)
  BY GrowsExists
<1> DEFINE b == [i \in D |-> a[i]]
<1>2. ASSUME NEW i \in D PROVE b[i] = Entry(b, i)
  <2>1. CASE i = 0
    BY <1>0, <1>1, <2>1 DEF Grows
  <2>2. CASE i # 0
    <3>1. i \in 1 .. Len(structures) /\ i - 1 \in D
      BY <1>0, <2>2
    <3>2. b[i - 1] = a[i - 1] /\ b[i] = a[i]
      BY <3>1
    <3>3. a[i] = RawStep(a[i - 1], structures[i])
      BY <1>1, <3>1 DEF Grows
    <3> HIDE DEF b
    <3> QED
      BY <2>2, <3>2, <3>3
  <2> QED
    BY <2>1, <2>2
<1>3. Is(b)
  <2>1. b = [i \in D |-> b[i]]
    OBVIOUS
  <2> HIDE DEF b, Entry
  <2> QED
    BY <1>2, <2>1
<1>4. Is(bytes)
  <2> HIDE DEF Is
  <2> QED
    BY <1>3, Zenon
<1>5. \A i \in D : bytes[i] = Entry(bytes, i)
  <2> HIDE DEF bytes, Entry
  <2> QED
    BY <1>4
<1>6. Raw(structures) = bytes[Len(structures)]
  BY Zenon DEF Raw, RawStep
<1>7. Grows(bytes, structures)
  <2> HIDE DEF bytes
  <2>1. 0 \in D /\ \A i \in 1 .. Len(structures) : i \in D /\ i # 0
    BY <1>0
  <2> QED
    BY <1>5, <2>1 DEF Grows
<1> QED
  BY <1>6, <1>7

\* Structures that begin alike have bytes that begin alike.
LEMMA GrowAlike ==
  ASSUME NEW b, NEW c, NEW S, NEW s \in Seq(S), NEW t \in Seq(S), Grows(b, s), Grows(c, t),
         NEW k \in Nat, k <= Len(s), k <= Len(t), \A i \in 1 .. k : s[i] = t[i]
  PROVE  b[k] = c[k]
<1> DEFINE T == {i \in Nat : i <= k => b[i] = c[i]}
<1>1. 0 \in T
  BY DEF Grows
<1>2. ASSUME NEW i \in Nat, i \in T PROVE i + 1 \in T
  <2> SUFFICES ASSUME i + 1 <= k PROVE b[i + 1] = c[i + 1]
    OBVIOUS
  <2>1. b[i] = c[i]
    BY <1>2
  <2>2. i + 1 \in 1 .. Len(s) /\ i + 1 \in 1 .. Len(t) /\ i + 1 \in 1 .. k /\ (i + 1) - 1 = i
    OBVIOUS
  <2>3. b[i + 1] = RawStep(b[i], s[i + 1]) /\ c[i + 1] = RawStep(c[i], t[i + 1])
    BY <2>2 DEF Grows
  <2> QED
    BY <2>1, <2>2, <2>3
<1>3. k \in T
  <2> HIDE DEF T
  <2> QED
    BY <1>1, <1>2, SetInduction
<1> QED
  BY <1>3

\* The bytes of the first i structures stand at the front.
LEMMA RawFacts ==
  ASSUME NEW structures \in Seq(AdStructure)
  PROVE  \E b : /\ Grows(b, structures)
                /\ \A i \in 0 .. Len(structures) :
                     /\ b[i] \in Seq(Byte)
                     /\ Raw(SubSeq(structures, 1, i)) = b[i]
                /\ Raw(structures) = b[Len(structures)]
<1> DEFINE n == Len(structures)
<1>0. n \in Nat
  OBVIOUS
<1>1. PICK b : Grows(b, structures) /\ Raw(structures) = b[n]
  BY RawIsLast
<1>2. \A i \in 0 .. n : b[i] \in Seq(Byte)
  <2> DEFINE T == {i \in Nat : i <= n => b[i] \in Seq(Byte)}
  <2>1. 0 \in T
    <3>1. b[0] \in Seq(Byte)
      BY <1>1, EmptySeq DEF Grows
    <3> QED
      BY <3>1
  <2>2. ASSUME NEW i \in Nat, i \in T PROVE i + 1 \in T
    <3> SUFFICES ASSUME i + 1 <= n PROVE b[i + 1] \in Seq(Byte)
      OBVIOUS
    <3>1. b[i] \in Seq(Byte)
      BY <1>0, <2>2
    <3>2. i + 1 \in 1 .. n /\ (i + 1) - 1 = i
      BY <1>0
    <3>3. b[i + 1] = RawStep(b[i], structures[i + 1]) /\ structures[i + 1] \in AdStructure
      BY <1>1, <3>2 DEF Grows
    <3> QED
      BY <3>1, <3>3, RawStepFacts
  <2>3. Nat \subseteq T
    <3> HIDE DEF T
    <3> QED
      BY <2>1, <2>2, SetInduction
  <2> QED
    BY <1>0, <2>3
<1>3. ASSUME NEW i \in 0 .. n PROVE Raw(SubSeq(structures, 1, i)) = b[i]
  <2> DEFINE front == SubSeq(structures, 1, i)
  <2>1. /\ front \in Seq(AdStructure) /\ Len(front) = i /\ i \in Nat /\ i <= n
        /\ \A j \in 1 .. i : front[j] = structures[j]
    BY <1>0
  <2> HIDE DEF front
  <2>2. PICK c : Grows(c, front) /\ Raw(front) = c[i]
    BY <2>1, RawIsLast
  <2>3. c[i] = b[i]
    BY <1>1, <2>1, <2>2, GrowAlike
  <2> QED
    BY <2>2, <2>3 DEF front
<1> QED
  BY <1>1, <1>2, <1>3

\* Structure j stands behind those before it.
Appended(b, structures, j) ==
  LET p == Len(b[j - 1])
      data == structures[j].data
  IN  /\ p \in Nat /\ Len(data) \in Nat
      /\ Len(b[j]) = p + 2 + Len(data)
      /\ \A x \in 1 .. p : b[j][x] = b[j - 1][x]
      /\ b[j][p + 1] = Len(data) + 1 /\ b[j][p + 2] = structures[j].type
      /\ \A x \in 1 .. Len(data) : b[j][p + 2 + x] = data[x]

LEMMA GrowsAt ==
  ASSUME NEW structures \in Seq(AdStructure), NEW b, Grows(b, structures),
         \A i \in 0 .. Len(structures) : b[i] \in Seq(Byte),
         NEW j \in 1 .. Len(structures)
  PROVE  Appended(b, structures, j)
<1>1. j - 1 \in 0 .. Len(structures) /\ structures[j] \in AdStructure
  OBVIOUS
<1>2. b[j] = RawStep(b[j - 1], structures[j]) /\ b[j - 1] \in Seq(Byte)
  BY <1>1 DEF Grows
<1> DEFINE before == b[j - 1]
           structure == structures[j]
           after == b[j]
<1>3. structure \in AdStructure /\ before \in Seq(Byte) /\ after = RawStep(before, structure)
  BY <1>1, <1>2
<1> HIDE DEF before, structure, after
<1>4. LET n == Len(before)
          d == Len(structure.data)
      IN  /\ after \in Seq(Byte) /\ n \in Nat /\ d \in Nat
          /\ Len(after) = n + 2 + d
          /\ \A i \in 1 .. n : after[i] = before[i]
          /\ after[n + 1] = d + 1 /\ after[n + 2] = structure.type
          /\ \A i \in 1 .. d : after[n + 2 + i] = structure.data[i]
  BY <1>3, RawStepFacts
<1> QED
  BY <1>4, Zenon DEF Appended, before, structure, after

\* What stands in the bytes of the first structures stays there.
LEMMA GrowsOn ==
  ASSUME NEW structures \in Seq(AdStructure), NEW b, Grows(b, structures),
         \A i \in 0 .. Len(structures) : b[i] \in Seq(Byte),
         NEW i \in 0 .. Len(structures), NEW j \in i .. Len(structures)
  PROVE  /\ Len(b[i]) \in Nat /\ Len(b[j]) \in Nat
         /\ Len(b[i]) <= Len(b[j])
         /\ \A x \in 1 .. Len(b[i]) : b[j][x] = b[i][x]
<1> DEFINE n == Len(structures)
           On(k) == /\ Len(b[i + k]) \in Nat /\ Len(b[i]) <= Len(b[i + k])
                    /\ \A x \in 1 .. Len(b[i]) : b[i + k][x] = b[i][x]
           T == {k \in Nat : i + k <= n => On(k)}
<1>0. n \in Nat /\ i \in Nat /\ Len(b[i]) \in Nat
  OBVIOUS
<1>1. 0 \in T
  <2>1. i + 0 = i
    BY <1>0
  <2>2. On(0)
    BY <1>0, <2>1
  <2> QED
    BY <2>2
<1>2. ASSUME NEW k \in Nat, k \in T PROVE k + 1 \in T
  <2> SUFFICES ASSUME i + (k + 1) <= n PROVE On(k + 1)
    OBVIOUS
  <2> DEFINE m == i + (k + 1)
             p == Len(b[m - 1])
  <2>1. m \in 1 .. n /\ m - 1 = i + k /\ i + k <= n
    BY <1>0
  <2>2. On(k)
    BY <1>2, <2>1
  <2>3. p \in Nat /\ Len(structures[m].data) \in Nat
        /\ Len(b[m]) = p + 2 + Len(structures[m].data)
        /\ \A x \in 1 .. p : b[m][x] = b[m - 1][x]
    <3> HIDE DEF m
    <3>1. m \in 1 .. Len(structures)
      BY <2>1
    <3>2. Appended(b, structures, m)
      BY <3>1, GrowsAt
    <3> QED
      BY <3>1, <3>2, Zenon DEF Appended
  <2>4. Len(b[m]) \in Nat /\ p <= Len(b[m])
    <3> DEFINE d == Len(structures[m].data)
               l == Len(b[m])
    <3>1. p \in Nat /\ d \in Nat /\ l = p + 2 + d
      BY <2>3
    <3> HIDE DEF p, d, l
    <3>2. l \in Nat /\ p <= l
      BY <3>1
    <3> QED
      BY <3>2 DEF l
  <2>5. p = Len(b[i + k]) /\ b[m - 1] = b[i + k]
    BY <2>1
  <2> HIDE DEF m, p
  <2>6. Len(b[m]) \in Nat /\ Len(b[i]) <= Len(b[m])
    BY <1>0, <2>2, <2>4, <2>5
  <2>7. \A x \in 1 .. Len(b[i]) : b[m][x] = b[i][x]
    BY <1>0, <2>2, <2>3, <2>5
  <2> QED
    BY <2>6, <2>7 DEF m
<1>3. j - i \in T
  <2>1. j - i \in Nat
    OBVIOUS
  <2> HIDE DEF T
  <2> QED
    BY <1>1, <1>2, <2>1, SetInduction
<1>4. i + (j - i) = j /\ j <= n /\ j - i \in Nat
  BY <1>0
<1> QED
  BY <1>0, <1>3, <1>4

\* What a slice, empty or not, is made of.
LEMMA SliceFacts ==
  ASSUME NEW S, NEW s \in Seq(S), NEW m \in Nat \ {0}, NEW n \in Nat, m <= n + 1, n <= Len(s)
  PROVE  /\ SubSeq(s, m, n) \in Seq(S) /\ Len(SubSeq(s, m, n)) = n - m + 1
         /\ \A i \in 1 .. n - m + 1 : SubSeq(s, m, n)[i] = s[m + i - 1]
<1>1. \A i \in m .. n : s[i] \in S
  OBVIOUS
<1> DEFINE t == SubSeq(s, m, n)
<1>2. /\ t \in Seq(S)
      /\ Len(t) = IF m <= n THEN n - m + 1 ELSE 0
      /\ \A i \in 1 .. n - m + 1 : t[i] = s[m + i - 1]
  BY <1>1, SubSeqProperties
<1> HIDE DEF t
<1>3. Len(t) = n - m + 1
  BY <1>2
<1> QED
  BY <1>2, <1>3 DEF t

\* What is left of a sequence without its first k elements.
LEMMA DropFacts ==
  ASSUME NEW S, NEW s \in Seq(S), NEW k \in Nat, NEW m \in Nat, NEW n \in Nat,
         m = k + 1, n = Len(s), k <= n
  PROVE  /\ SubSeq(s, m, n) \in Seq(S) /\ Len(SubSeq(s, m, n)) = n - k
         /\ \A i \in 1 .. n - k : SubSeq(s, m, n)[i] = s[k + i]
<1> DEFINE t == SubSeq(s, m, n)
<1>1. /\ t \in Seq(S) /\ Len(t) = n - m + 1
      /\ \A i \in 1 .. n - m + 1 : t[i] = s[m + i - 1]
  BY SliceFacts
<1>2. n - m + 1 = n - k /\ \A i \in 1 .. n - k : m + i - 1 = k + i
  OBVIOUS
<1> HIDE DEF t
<1>3. t \in Seq(S) /\ Len(t) = n - k /\ \A i \in 1 .. n - k : t[i] = s[k + i]
  BY <1>1, <1>2
<1> QED
  BY <1>3 DEF t

\* Our manufacturer data, as a structure and not as bytes.
IsFrame(structure) ==
  /\ structure.type = AD_TYPE_MANUFACTURER
  /\ Len(structure.data) >= 2
  /\ SubSeq(structure.data, 1, 2) = COMPANY_ID

Payload(structure) == SubSeq(structure.data, 3, Len(structure.data))

\* The bytes behind the length of a structure are recognized as the structure is.
LEMMA EntryFacts ==
  ASSUME NEW structure \in AdStructure, NEW entry \in Seq(Byte),
         Len(entry) = Len(structure.data) + 1, entry[1] = structure.type,
         \A x \in 1 .. Len(structure.data) : entry[1 + x] = structure.data[x]
  PROVE  /\ IsOurs(entry) <=> IsFrame(structure)
         /\ IsFrame(structure) =>
              /\ SubSeq(entry, MANUFACTURER_HEADER_LEN + 1, Len(entry)) = Payload(structure)
              /\ Payload(structure) \in Seq(Byte)
<1> DEFINE data == structure.data
           d == Len(data)
<1>1. data \in Seq(Byte) /\ d \in Nat
  BY DEF AdStructure
<1> HIDE DEF data
<1>2. Len(entry) = d + 1 /\ \A x \in 1 .. d : entry[1 + x] = data[x]
  BY DEF data
<1>3. ASSUME d >= 2 PROVE SubSeq(entry, 2, 3) = SubSeq(data, 1, 2)
  <2>1. /\ SubSeq(entry, 2, 3) \in Seq(Byte) /\ Len(SubSeq(entry, 2, 3)) = 2
        /\ \A i \in 1 .. 2 : SubSeq(entry, 2, 3)[i] = entry[1 + i]
    BY <1>1, <1>2, <1>3
  <2>2. /\ SubSeq(data, 1, 2) \in Seq(Byte) /\ Len(SubSeq(data, 1, 2)) = 2
        /\ \A i \in 1 .. 2 : SubSeq(data, 1, 2)[i] = data[i]
    BY <1>1, <1>3
  <2>3. \A i \in 1 .. 2 : i \in 1 .. d /\ entry[1 + i] = data[i]
    BY <1>1, <1>2, <1>3
  <2> DEFINE a == SubSeq(entry, 2, 3)
             c == SubSeq(data, 1, 2)
  <2> HIDE DEF a, c
  <2>4. a = c
    <3>1. a \in Seq(Byte) /\ c \in Seq(Byte) /\ Len(a) = 2 /\ Len(c) = 2
          /\ \A i \in 1 .. 2 : a[i] = c[i]
      BY <2>1, <2>2, <2>3 DEF a, c
    <3>2. \A i \in 1 .. Len(a) : a[i] = c[i]
      BY <3>1
    <3> QED
      BY <3>1, <3>2, SeqEqual
  <2> QED
    BY <2>4 DEF a, c
<1>4. ASSUME d >= 2
      PROVE  /\ SubSeq(entry, MANUFACTURER_HEADER_LEN + 1, Len(entry)) = SubSeq(data, 3, d)
             /\ SubSeq(data, 3, d) \in Seq(Byte)
  <2> DEFINE a == SubSeq(entry, 4, d + 1)
             c == SubSeq(data, 3, d)
  <2>1. /\ a \in Seq(Byte) /\ Len(a) = d - 2
        /\ \A i \in 1 .. d - 2 : a[i] = entry[3 + i]
    <3> DEFINE e == d + 1
    <3>1. e \in Nat /\ 4 = 3 + 1 /\ e = Len(entry) /\ 3 <= e /\ e - 3 = d - 2
      BY <1>1, <1>2, <1>4
    <3> HIDE DEF e
    <3>2. /\ SubSeq(entry, 4, e) \in Seq(Byte) /\ Len(SubSeq(entry, 4, e)) = e - 3
          /\ \A i \in 1 .. e - 3 : SubSeq(entry, 4, e)[i] = entry[3 + i]
      BY <3>1, DropFacts
    <3> QED
      BY <3>1, <3>2 DEF e
  <2>2. /\ c \in Seq(Byte) /\ Len(c) = d - 2
        /\ \A i \in 1 .. d - 2 : c[i] = data[2 + i]
    <3>1. 3 = 2 + 1 /\ 2 <= d /\ d \in Nat /\ d = Len(data)
      BY <1>1, <1>4
    <3> HIDE DEF d
    <3>2. /\ SubSeq(data, 3, d) \in Seq(Byte) /\ Len(SubSeq(data, 3, d)) = d - 2
          /\ \A i \in 1 .. d - 2 : SubSeq(data, 3, d)[i] = data[2 + i]
      BY <1>1, <3>1, DropFacts
    <3> QED
      BY <3>2
  <2>3. \A i \in 1 .. d - 2 : entry[3 + i] = data[2 + i]
    <3>1. \A i \in 1 .. d - 2 : 2 + i \in 1 .. d /\ 1 + (2 + i) = 3 + i
      BY <1>1, <1>4
    <3> QED
      BY <1>2, <3>1
  <2> HIDE DEF a, c
  <2>4. \A i \in 1 .. Len(a) : a[i] = c[i]
    BY <2>1, <2>2, <2>3
  <2>5. a = c
    BY <2>1, <2>2, <2>4, SeqEqual
  <2>6. MANUFACTURER_HEADER_LEN + 1 = 4 /\ Len(entry) = d + 1
    BY <1>2, SMT DEF MANUFACTURER_HEADER_LEN
  <2> QED
    BY <2>2, <2>5, <2>6 DEF a, c
<1>5. Len(entry) >= MANUFACTURER_HEADER_LEN <=> d >= 2
  BY <1>1, <1>2, SMT DEF MANUFACTURER_HEADER_LEN
<1>6. IsFrame(structure) <=> structure.type = AD_TYPE_MANUFACTURER /\ d >= 2
                             /\ SubSeq(data, 1, 2) = COMPANY_ID
  BY Zenon DEF IsFrame, data
<1>7. IsOurs(entry) <=> entry[1] = AD_TYPE_MANUFACTURER /\ d >= 2
                        /\ SubSeq(entry, 2, 3) = COMPANY_ID
  BY <1>5, Zenon DEF IsOurs
<1>8. IsOurs(entry) <=> IsFrame(structure)
  BY <1>3, <1>6, <1>7, Zenon
<1>9. Payload(structure) = SubSeq(data, 3, d)
  BY DEF Payload, data
<1> QED
  BY <1>4, <1>6, <1>8, <1>9, Zenon

\* An advertisement, whoever made it.
IsAdvertisement(ad) == ad.structures \in Seq(AdStructure) /\ ad.bytes \in Nat

LEMMA ReportFacts ==
  ASSUME NEW ad, IsAdvertisement(ad)
  PROVE  LET r == Report(ad)
             raw == Raw(ad.structures)
         IN  /\ r \in Seq(Byte) /\ Len(r) = ad.bytes
             /\ raw \in Seq(Byte) /\ Len(raw) \in Nat
             /\ \A i \in 1 .. ad.bytes : r[i] = IF i <= Len(raw) THEN raw[i] ELSE 0
<1> DEFINE structures == ad.structures
           raw == Raw(structures)
           N == ad.bytes
           r == [i \in 1 .. N |-> IF i <= Len(raw) THEN raw[i] ELSE 0]
<1>1. structures \in Seq(AdStructure) /\ N \in Nat /\ Len(structures) \in 0 .. Len(structures)
  BY DEF IsAdvertisement
<1> HIDE DEF structures, N
<1>2. raw \in Seq(Byte) /\ Len(raw) \in Nat
  <2>1. raw \in Seq(Byte)
    BY <1>1, RawFacts
  <2> HIDE DEF raw
  <2> QED
    BY <2>1
<1> HIDE DEF raw
<1>3. 0 \in Byte
  BY SMT DEF Byte
<1>4. r \in Seq(Byte) /\ Len(r) = N
  <2>1. \A i \in 1 .. N : (IF i <= Len(raw) THEN raw[i] ELSE 0) \in Byte
    <3>1. \A i \in 1 .. N : i <= Len(raw) => raw[i] \in Byte
      BY <1>1, <1>2
    <3> QED
      BY <1>3, <3>1
  <2>2. r \in [1 .. N -> Byte]
    BY <2>1
  <2> HIDE DEF r
  <2>3. r \in Seq(Byte)
    BY <1>1, <2>2, SeqDef
  <2> QED
    BY <1>1, <2>2, <2>3
<1>5. \A i \in 1 .. N : r[i] = IF i <= Len(raw) THEN raw[i] ELSE 0
  OBVIOUS
<1>6. Report(ad) = r
  BY DEF Report, raw, structures, N
<1> HIDE DEF r
<1> QED
  BY <1>2, <1>4, <1>5, <1>6, Zenon DEF raw, structures, N

\* Structure j in the report of an advertisement.
StandsAt(ad, b, j) ==
  LET r == Report(ad)
      p == Len(b[j - 1]) + 1
      structure == ad.structures[j]
      d == Len(structure.data)
  IN  /\ p \in Nat \ {0} /\ d \in Nat /\ structure \in AdStructure
      /\ Len(b[j]) = p + 1 + d
      /\ p <= ad.bytes => r[p] = d + 1
      /\ Len(b[j]) <= ad.bytes =>
           /\ r[p + 1] = structure.type
           /\ \A x \in 1 .. d : r[p + 1 + x] = structure.data[x]

LEMMA ReportOfStructure ==
  ASSUME NEW ad, IsAdvertisement(ad), NEW b, Grows(b, ad.structures),
         \A i \in 0 .. Len(ad.structures) : b[i] \in Seq(Byte),
         Raw(ad.structures) = b[Len(ad.structures)],
         NEW j \in 1 .. Len(ad.structures)
  PROVE  StandsAt(ad, b, j)
<1> DEFINE structures == ad.structures
           n == Len(structures)
           r == Report(ad)
           raw == Raw(structures)
           q == Len(b[j - 1])
           structure == structures[j]
           data == structure.data
           d == Len(data)
           after == b[j]
<1>1. structures \in Seq(AdStructure) /\ ad.bytes \in Nat /\ n \in Nat /\ structure \in AdStructure
  BY DEF IsAdvertisement
<1>2. /\ q \in Nat /\ d \in Nat
      /\ Len(after) = q + 2 + d
      /\ after[q + 1] = d + 1 /\ after[q + 2] = structure.type
      /\ \A x \in 1 .. d : after[q + 2 + x] = data[x]
  <2>1. Appended(b, structures, j)
    <3> HIDE DEF q, structure, after
    <3> QED
      BY <1>1, GrowsAt
  <2> QED
    BY <2>1, Zenon DEF Appended
<1>3. /\ Len(after) \in Nat /\ Len(raw) \in Nat
      /\ Len(after) <= Len(raw)
      /\ \A x \in 1 .. Len(after) : raw[x] = after[x]
  <2>1. j \in 0 .. Len(structures) /\ n \in j .. Len(structures)
    BY <1>1
  <2>2. /\ Len(b[j]) \in Nat /\ Len(b[n]) \in Nat
        /\ Len(b[j]) <= Len(b[n])
        /\ \A x \in 1 .. Len(b[j]) : b[n][x] = b[j][x]
    BY <1>1, <2>1, GrowsOn
  <2> QED
    BY <2>2
<1>4. \A i \in 1 .. ad.bytes : r[i] = IF i <= Len(raw) THEN raw[i] ELSE 0
  BY ReportFacts
<1> HIDE DEF q, d, data, after, r, raw, structure
<1>5. \A x \in 1 .. Len(after) : x <= ad.bytes => r[x] = after[x]
  BY <1>1, <1>3, <1>4
<1>6. q + 1 <= ad.bytes => r[q + 1] = d + 1
  BY <1>1, <1>2, <1>5
<1>7. ASSUME Len(after) <= ad.bytes
      PROVE  /\ r[q + 2] = structure.type
             /\ \A x \in 1 .. d : r[q + 2 + x] = data[x]
  <2>1. \A x \in 1 .. Len(after) : r[x] = after[x]
    BY <1>1, <1>2, <1>5, <1>7
  <2>2. q + 2 \in 1 .. Len(after) /\ \A x \in 1 .. d : q + 2 + x \in 1 .. Len(after)
    BY <1>2
  <2> QED
    BY <1>2, <2>1, <2>2
<1> DEFINE p == q + 1
<1>8. p \in Nat \ {0} /\ Len(after) = p + 1 + d /\ p + 1 = q + 2
  BY <1>2
<1>9. \A x \in 1 .. d : p + 1 + x = q + 2 + x
  BY <1>2
<1>10. p <= ad.bytes => r[p] = d + 1
  BY <1>6
<1>11. Len(after) <= ad.bytes =>
         /\ r[p + 1] = structure.type
         /\ \A x \in 1 .. d : r[p + 1 + x] = data[x]
  <2> HIDE DEF p
  <2> QED
    BY <1>7, <1>8, <1>9
<1> QED
  BY <1>1, <1>2, <1>8, <1>10, <1>11, Zenon DEF StandsAt, p, q, d, data, after, r, structure

\* The structures of an advertisement that its report has in full, those of
\* them that are frames of ours, and the first one among them.
Complete(ad, i) == Len(Raw(SubSeq(ad.structures, 1, i))) <= ad.bytes
OursIn(ad) ==
  {i \in DOMAIN ad.structures : Complete(ad, i) /\ IsFrame(ad.structures[i])}
FirstOf(places) == {i \in places : \A j \in places : i <= j}
Payloads(ad, places) == {Payload(ad.structures[i]) : i \in places}

\* The frames the walk should still find behind structure i.
Ahead(ad, i) == {j \in OursIn(ad) : j > i}

\* One structure of the walk: what it answers there follows from what it
\* answers behind it.
LEMMA WalkOneStructure ==
  ASSUME NEW ad, IsAdvertisement(ad), NEW b, Grows(b, ad.structures),
         \A i \in 0 .. Len(ad.structures) :
           b[i] \in Seq(Byte) /\ Raw(SubSeq(ad.structures, 1, i)) = b[i],
         Raw(ad.structures) = b[Len(ad.structures)],
         NEW w, \A i \in 1 .. ad.bytes + 1 : w[i] = WalkStep(Report(ad), w, i),
         NEW j \in 1 .. Len(ad.structures),
         Len(b[j - 1]) <= ad.bytes,
         Len(b[j]) <= ad.bytes => w[Len(b[j]) + 1] = Payloads(ad, FirstOf(Ahead(ad, j)))
  PROVE  w[Len(b[j - 1]) + 1] = Payloads(ad, FirstOf(Ahead(ad, j - 1)))
<1> DEFINE structures == ad.structures
           n == Len(structures)
           N == ad.bytes
           r == Report(ad)
           p == Len(b[j - 1]) + 1
           structure == structures[j]
           d == Len(structure.data)
           z == Len(b[j])
           rest == Ahead(ad, j - 1)
<1>1. structures \in Seq(AdStructure) /\ N \in Nat /\ n \in Nat /\ DOMAIN structures = 1 .. n
  BY DEF IsAdvertisement
<1>2. r \in Seq(Byte) /\ Len(r) = N
  BY ReportFacts
<1>3. /\ p \in Nat \ {0} /\ d \in Nat /\ structure \in AdStructure
      /\ z = p + 1 + d
      /\ p <= N => r[p] = d + 1
      /\ z <= N => /\ r[p + 1] = structure.type
                   /\ \A x \in 1 .. d : r[p + 1 + x] = structure.data[x]
  <2>1. StandsAt(ad, b, j)
    BY ReportOfStructure
  <2> QED
    BY <2>1, Zenon DEF StandsAt
<1>4. \A i \in rest : i \in j .. n /\ Complete(ad, i) /\ IsFrame(structures[i])
  BY <1>1 DEF Ahead, OursIn
<1>5. \A i \in 0 .. n : Complete(ad, i) <=> Len(b[i]) <= N
  BY DEF Complete
<1>6. \A i \in j .. n : z <= Len(b[i]) /\ Len(b[i]) \in Nat
  <2>1. j \in 0 .. Len(structures)
    BY <1>1
  <2>2. \A i \in j .. Len(structures) : Len(b[j]) <= Len(b[i]) /\ Len(b[i]) \in Nat
    BY <1>1, <2>1, GrowsOn
  <2> QED
    BY <2>2
<1>7. Complete(ad, j) <=> z <= N
  BY <1>1, <1>5
<1>8. p \in 1 .. N + 1 /\ w[p] = WalkStep(r, w, p)
  <2>1. p \in 1 .. N + 1
    BY <1>1, <1>3
  <2> QED
    BY <2>1
<1>9. p <= N => r[p] # 0 /\ p + r[p] = z
  <2> HIDE DEF p, d, z, r
  <2>1. p <= N => d + 1 # 0 /\ p + (d + 1) = z
    BY <1>3
  <2> QED
    BY <1>3, <2>1
<1> HIDE DEF p, d, z, r, rest, structure
<1>10. CASE z > N
  <2>1. w[p] = {}
    <3>1. p > N \/ p + r[p] > N
      BY <1>1, <1>3, <1>9, <1>10
    <3> QED
      BY <1>2, <1>8, <3>1 DEF WalkStep
  <2>2. rest = {}
    <3>1. \A i \in rest : i \in 0 .. n /\ Len(b[i]) <= N /\ z <= Len(b[i]) /\ Len(b[i]) \in Nat
      BY <1>1, <1>4, <1>5, <1>6
    <3> QED
      BY <1>1, <1>3, <1>10, <3>1
  <2> QED
    BY <2>1, <2>2 DEF Payloads, FirstOf, p, rest
<1>11. CASE ~ (z > N)
  <2> DEFINE entry == SubSeq(r, p + 1, z)
  <2>1. z <= N /\ p <= N /\ z \in Nat /\ p + 1 <= z
    BY <1>1, <1>3, <1>11
  <2>2. /\ entry \in Seq(Byte) /\ Len(entry) = d + 1
        /\ \A i \in 1 .. d + 1 : entry[i] = r[p + i]
    <3> DEFINE a == p + 1
    <3>1. a \in Nat \ {0} /\ a <= z + 1 /\ z <= Len(r) /\ z - a + 1 = d + 1
          /\ \A i \in 1 .. d + 1 : a + i - 1 = p + i
      BY <1>2, <1>3, <2>1
    <3> HIDE DEF a
    <3>2. /\ SubSeq(r, a, z) \in Seq(Byte) /\ Len(SubSeq(r, a, z)) = z - a + 1
          /\ \A i \in 1 .. z - a + 1 : SubSeq(r, a, z)[i] = r[a + i - 1]
      BY <1>2, <2>1, <3>1, SliceFacts
    <3>3. /\ SubSeq(r, a, z) \in Seq(Byte) /\ Len(SubSeq(r, a, z)) = d + 1
          /\ \A i \in 1 .. d + 1 : SubSeq(r, a, z)[i] = r[p + i]
      BY <3>1, <3>2
    <3> QED
      BY <3>3 DEF a
  <2> HIDE DEF entry
  <2>3. entry[1] = structure.type
    BY <1>3, <2>1, <2>2
  <2>4. \A x \in 1 .. d : entry[1 + x] = structure.data[x]
    <3>1. \A x \in 1 .. d : 1 + x \in 1 .. d + 1 /\ p + (1 + x) = p + 1 + x
      BY <1>3
    <3> QED
      BY <1>3, <2>1, <2>2, <3>1
  <2>5. /\ IsOurs(entry) <=> IsFrame(structure)
        /\ IsFrame(structure) =>
             /\ SubSeq(entry, MANUFACTURER_HEADER_LEN + 1, Len(entry)) = Payload(structure)
             /\ Payload(structure) \in Seq(Byte)
    BY <1>3, <2>2, <2>3, <2>4, EntryFacts DEF d
  <2>6. w[p] = IF IsOurs(entry)
               THEN {SubSeq(entry, MANUFACTURER_HEADER_LEN + 1, Len(entry))}
               ELSE w[z + 1]
    <3>1. ~ (p > Len(r) \/ r[p] = 0 \/ p + r[p] > Len(r))
      BY <1>1, <1>2, <1>3, <1>9, <2>1
    <3>2. p + r[p] = z
      BY <1>9, <2>1
    <3> QED
      BY <1>8, <3>1, <3>2, Zenon DEF WalkStep, entry
  <2>7. rest = Ahead(ad, j) \cup (IF IsFrame(structure) THEN {j} ELSE {})
    <3>1. j \in DOMAIN structures /\ j \in Nat /\ j > j - 1 /\ Complete(ad, j)
      BY <1>1, <1>7, <2>1
    <3>2. j \in OursIn(ad) <=> IsFrame(structure)
      BY <3>1 DEF OursIn, structure
    <3>3. \A i \in OursIn(ad) : i \in Nat /\ (i > j - 1 <=> i = j \/ i > j)
      BY <1>1 DEF OursIn
    <3>4. ~ (j > j)
      BY <3>1
    <3> QED
      BY <3>1, <3>2, <3>3, <3>4 DEF rest, Ahead
  <2>8. CASE IsFrame(structure)
    <3>1. \A i \in Ahead(ad, j) : i \in Nat /\ i > j
      BY <1>1 DEF Ahead, OursIn
    <3>2. FirstOf(rest) = {j}
      <4>1. j \in rest /\ j \in Nat
        BY <1>1, <2>7, <2>8
      <4>2. \A i \in rest : i \in Nat /\ (i = j \/ i > j)
        BY <1>1, <2>7, <2>8, <3>1
      <4>3. \A i \in rest : j <= i
        BY <4>1, <4>2
      <4>4. \A i \in rest : i <= j => i = j
        BY <4>1, <4>2
      <4> QED
        BY <4>1, <4>3, <4>4 DEF FirstOf
    <3>3. Payloads(ad, FirstOf(rest)) = {Payload(structure)}
      BY <3>2 DEF Payloads, structure
    <3>4. w[p] = {Payload(structure)}
      BY <2>5, <2>6, <2>8
    <3> QED
      BY <3>3, <3>4 DEF p, rest
  <2>9. CASE ~ IsFrame(structure)
    <3>1. rest = Ahead(ad, j)
      BY <2>7, <2>9
    <3>2. w[p] = w[z + 1]
      BY <2>5, <2>6, <2>9
    <3>3. w[z + 1] = Payloads(ad, FirstOf(Ahead(ad, j)))
      BY <2>1 DEF z
    <3> QED
      BY <3>1, <3>2, <3>3 DEF p, rest
  <2> QED
    BY <2>8, <2>9
<1> QED
  BY <1>10, <1>11

\* The walk finds the first frame of ours that came through whole, in every
\* advertisement and every report of it.
LEMMA WalkFinds ==
  ASSUME NEW ad, IsAdvertisement(ad)
  PROVE  ManufacturerFrame(Report(ad)) = Payloads(ad, FirstOf(OursIn(ad)))
<1> DEFINE structures == ad.structures
           n == Len(structures)
           N == ad.bytes
           r == Report(ad)
           raw == Raw(structures)
           Found(i) == Payloads(ad, FirstOf(Ahead(ad, i)))
<1>1. structures \in Seq(AdStructure) /\ N \in Nat /\ n \in Nat /\ DOMAIN structures = 1 .. n
  BY DEF IsAdvertisement
<1>2. /\ r \in Seq(Byte) /\ Len(r) = N /\ Len(raw) \in Nat
      /\ \A i \in 1 .. N : r[i] = IF i <= Len(raw) THEN raw[i] ELSE 0
  BY ReportFacts
<1>3. PICK b : /\ Grows(b, structures)
               /\ \A i \in 0 .. n : b[i] \in Seq(Byte) /\ Raw(SubSeq(structures, 1, i)) = b[i]
               /\ raw = b[n]
  BY <1>1, RawFacts
<1>4. PICK w : /\ ManufacturerFrame(r) = w[1]
               /\ \A i \in 1 .. N + 1 : w[i] = WalkStep(r, w, i)
  BY <1>2, WalkFacts
<1> DEFINE Holds(i) == Len(b[i]) <= N => w[Len(b[i]) + 1] = Found(i)
           T == {k \in Nat : k <= n => Holds(n - k)}
<1>5. 0 \in T
  <2>1. ASSUME Len(raw) <= N PROVE w[Len(raw) + 1] = {}
    <3> DEFINE p == Len(raw) + 1
    <3>1. p \in 1 .. N + 1 /\ ~ (p <= Len(raw))
      BY <1>1, <1>2, <2>1
    <3> HIDE DEF p
    <3>2. p > N \/ r[p] = 0
      BY <1>1, <1>2, <3>1
    <3>3. w[p] = {}
      BY <1>2, <1>4, <3>1, <3>2 DEF WalkStep
    <3> QED
      BY <3>3 DEF p
  <2>2. Ahead(ad, n) = {}
    <3>1. \A j \in OursIn(ad) : ~ (j > n)
      BY <1>1 DEF OursIn
    <3> QED
      BY <3>1 DEF Ahead
  <2>3. Found(n) = {}
    BY <2>2 DEF Payloads, FirstOf
  <2>4. n - 0 = n
    BY <1>1
  <2>5. Holds(n)
    BY <1>3, <2>1, <2>3
  <2> HIDE DEF Holds
  <2> QED
    BY <2>4, <2>5
<1>6. ASSUME NEW k \in Nat, k \in T PROVE k + 1 \in T
  <2> SUFFICES ASSUME k + 1 <= n PROVE Holds(n - (k + 1))
    OBVIOUS
  <2> DEFINE j == n - k
  <2>1. j \in 1 .. n /\ j - 1 = n - (k + 1) /\ k <= n
    BY <1>1
  <2>2. Holds(j)
    <3> HIDE DEF Holds
    <3> QED
      BY <1>6, <2>1
  <2> HIDE DEF j
  <2>3. Holds(j - 1)
    <3> SUFFICES ASSUME Len(b[j - 1]) <= N PROVE w[Len(b[j - 1]) + 1] = Found(j - 1)
      OBVIOUS
    <3>1. Len(b[j]) <= ad.bytes => w[Len(b[j]) + 1] = Payloads(ad, FirstOf(Ahead(ad, j)))
      BY <2>2
    <3> QED
      BY <1>3, <1>4, <2>1, <3>1, WalkOneStructure
  <2> HIDE DEF Holds
  <2> QED
    BY <2>1, <2>3
<1>7. n \in T
  <2> HIDE DEF T
  <2> QED
    BY <1>1, <1>5, <1>6, SetInduction
<1>8. Holds(0)
  <2>1. n - n = 0 /\ n <= n
    BY <1>1
  <2> HIDE DEF Holds
  <2> QED
    BY <1>7, <2>1
<1>9. b[0] = << >> /\ Len(b[0]) = 0 /\ 0 <= N /\ 0 + 1 = 1
  BY <1>1, <1>3, EmptySeq DEF Grows
<1>10. Ahead(ad, 0) = OursIn(ad)
  <2>1. \A j \in OursIn(ad) : j > 0
    BY <1>1 DEF OursIn
  <2> QED
    BY <2>1 DEF Ahead
<1>11. w[1] = Found(0)
  BY <1>8, <1>9
<1> QED
  BY <1>4, <1>10, <1>11

(***************************************************************************)
(* The two carriers, and what is heard of an advertisement.                *)
(***************************************************************************)

\* A frame within MAX_UUID_FRAME comes back out of its service UUID.
LEMMA UuidFacts ==
  ASSUME NEW f \in Seq(Byte), Len(f) \in MIN_FRAME .. MAX_UUID_FRAME
  PROVE  /\ FrameToServiceUuid(f) \in Seq(Byte) /\ Len(FrameToServiceUuid(f)) = 16
         /\ FrameFromServiceUuid(FrameToServiceUuid(f)) = {f}
<1> DEFINE L == Len(f)
           u == FrameToServiceUuid(f)
<1>1. L \in 7 .. 15 /\ \A i \in 1 .. L : f[i] \in Byte
  BY ElementOfSeq DEF MIN_FRAME, MAX_UUID_FRAME
<1>2. /\ u = [i \in 1 .. 16 |-> IF i = 1 THEN 240 + L ELSE IF i - 1 <= L THEN f[i - 1] ELSE 0]
  BY DEF FrameToServiceUuid, UUID_TAG
<1> HIDE DEF L, u
<1>3. /\ u[1] = 240 + L
      /\ \A i \in 1 .. L : u[1 + i] = f[i]
  <2>1. \A i \in 1 .. L : 1 + i \in 1 .. 16 /\ 1 + i # 1 /\ (1 + i) - 1 = i /\ i <= L
    BY <1>1
  <2> QED
    BY <1>2, <2>1
<1>4. \A i \in 1 .. 16 : u[i] \in Byte
  <2>1. 240 + L \in 0 .. 255 /\ 0 \in 0 .. 255
    BY <1>1
  <2>2. \A i \in 1 .. 16 : i # 1 /\ i - 1 <= L => i - 1 \in 1 .. L
    BY <1>1
  <2> QED
    BY <1>1, <1>2, <2>1, <2>2 DEF Byte
<1>5. u \in Seq(Byte) /\ Len(u) = 16
  <2>1. u \in [1 .. 16 -> Byte]
    BY <1>2, <1>4
  <2>2. 16 \in Nat
    OBVIOUS
  <2>3. u \in Seq(Byte)
    BY <2>1, <2>2, SeqDef
  <2> DEFINE B == Byte
  <2> HIDE DEF B
  <2>4. u \in [1 .. 16 -> B] /\ u \in Seq(B)
    BY <2>1, <2>3 DEF B
  <2> QED
    BY <2>4 DEF B
<1>6. /\ u[1] % 16 = L /\ 16 * (u[1] \div 16) = UUID_TAG
      /\ u[1] % 16 \in MIN_FRAME .. MAX_UUID_FRAME
  <2>1. (240 + L) % 16 = L /\ 16 * ((240 + L) \div 16) = 240
    BY <1>1
  <2> QED
    BY <1>1, <1>3, <2>1, SMT DEF UUID_TAG, MIN_FRAME, MAX_UUID_FRAME
<1>7. SubSeq(u, 2, L + 1) = f
  <2> DEFINE n == L + 1
  <2>1. n \in Nat /\ 2 \in Nat \ {0} /\ 2 <= n + 1 /\ n <= Len(u) /\ n - 2 + 1 = L
    BY <1>1, <1>5
  <2> HIDE DEF n
  <2>2. /\ SubSeq(u, 2, n) \in Seq(Byte) /\ Len(SubSeq(u, 2, n)) = n - 2 + 1
        /\ \A i \in 1 .. n - 2 + 1 : SubSeq(u, 2, n)[i] = u[2 + i - 1]
    <3> DEFINE m == 2
    <3>1. m \in Nat \ {0} /\ n \in Nat /\ m <= n + 1 /\ n <= Len(u) /\ u \in Seq(Byte)
      BY <1>5, <2>1
    <3> HIDE DEF m
    <3>2. /\ SubSeq(u, m, n) \in Seq(Byte) /\ Len(SubSeq(u, m, n)) = n - m + 1
          /\ \A i \in 1 .. n - m + 1 : SubSeq(u, m, n)[i] = u[m + i - 1]
      BY <3>1, SliceFacts, Zenon
    <3> QED
      BY <3>2 DEF m
  <2>3. \A i \in 1 .. L : 2 + i - 1 = 1 + i
    BY <1>1
  <2> DEFINE t == SubSeq(u, 2, n)
  <2> HIDE DEF t
  <2>4. /\ t \in Seq(Byte) /\ Len(t) = L
        /\ \A i \in 1 .. L : t[i] = u[2 + i - 1]
    BY <2>1, <2>2 DEF t
  <2>5. \A i \in 1 .. L : t[i] = f[i]
    BY <1>3, <2>3, <2>4
  <2> QED
    BY <2>4, <2>5, SeqEqual DEF t, n, L
<1>8. FrameFromServiceUuid(u) = {SubSeq(u, 2, L + 1)}
  BY <1>6, Zenon DEF FrameFromServiceUuid
<1> QED
  BY <1>5, <1>7, <1>8 DEF u

\* What is taken out of any service UUID is bytes.
LEMMA UuidTyped ==
  ASSUME NEW u \in Seq(Byte), Len(u) = 16
  PROVE  FrameFromServiceUuid(u) \subseteq Seq(Byte)
<1>1. CASE u[1] % 16 \in MIN_FRAME .. MAX_UUID_FRAME
  <2> DEFINE n == (u[1] % 16) + 1
  <2>1. n \in Nat /\ 2 \in Nat \ {0} /\ 2 <= n + 1 /\ n <= Len(u)
    BY <1>1 DEF MIN_FRAME, MAX_UUID_FRAME
  <2> HIDE DEF n
  <2>2. SubSeq(u, 2, n) \in Seq(Byte)
    <3> DEFINE m == 2
    <3>1. m \in Nat \ {0} /\ n \in Nat /\ m <= n + 1 /\ n <= Len(u) /\ u \in Seq(Byte)
      BY <2>1
    <3> HIDE DEF m
    <3>2. SubSeq(u, m, n) \in Seq(Byte)
      BY <3>1, SliceFacts, Zenon
    <3> QED
      BY <3>2 DEF m
  <2>3. FrameFromServiceUuid(u) \in {{}, {SubSeq(u, 2, n)}}
    BY Zenon DEF FrameFromServiceUuid, n
  <2> QED
    BY <2>2, <2>3
<1>2. CASE u[1] % 16 \notin MIN_FRAME .. MAX_UUID_FRAME
  BY <1>2 DEF FrameFromServiceUuid
<1> QED
  BY <1>1, <1>2

\* The frames of ours in the structures of an advertisement, in whichever
\* carrier, are among F.
CarriesOnly(structures, F) ==
  \A i \in DOMAIN structures :
    /\ IsFrame(structures[i]) => Payload(structures[i]) \in F
    /\ structures[i].type = AD_TYPE_UUID128 =>
         FrameFromServiceUuid(structures[i].data) \subseteq F

\* A node, board or desktop, hears nothing else.
LEMMA HeardIsCarried ==
  ASSUME NEW ad, IsAdvertisement(ad), NEW F, CarriesOnly(ad.structures, F), NEW receiver
  PROVE  Heard(receiver, ad) \subseteq F
<1>1. ad.structures \in Seq(AdStructure)
  BY DEF IsAdvertisement
<1>2. OnBoard(ad) \subseteq F
  <2>1. ManufacturerFrame(Report(ad)) = Payloads(ad, FirstOf(OursIn(ad)))
    BY WalkFinds
  <2>2. Payloads(ad, FirstOf(OursIn(ad))) \subseteq F
    BY Zenon DEF Payloads, FirstOf, OursIn, CarriesOnly
  <2> QED
    BY <2>1, <2>2, Zenon DEF OnBoard
<1>3. FrameFromManufacturer(Manufacturer(ad)) \subseteq F
  <2> SUFFICES ASSUME NEW i \in DOMAIN ad.structures,
                      IsOurs(<<ad.structures[i].type>> \o ad.structures[i].data)
               PROVE  SubSeq(ad.structures[i].data, 3, Len(ad.structures[i].data)) \in F
    BY Zenon DEF FrameFromManufacturer, Manufacturer, Range
  <2> DEFINE structure == ad.structures[i]
             data == structure.data
             entry == <<structure.type>> \o data
  <2>1. structure \in AdStructure
    BY <1>1, ElementOfSeq
  <2>2. <<structure.type>> \in Seq(Byte) /\ Len(<<structure.type>>) = 1
        /\ data \in Seq(Byte) /\ Len(data) \in Nat /\ <<structure.type>>[1] = structure.type
    BY <2>1 DEF AdStructure
  <2> DEFINE h == <<structure.type>>
  <2> HIDE DEF h
  <2>3. /\ h \o data \in Seq(Byte) /\ Len(h \o data) = 1 + Len(data)
        /\ \A x \in 1 .. 1 : (h \o data)[x] = h[x]
        /\ \A x \in 1 .. Len(data) : (h \o data)[1 + x] = data[x]
    BY <2>2, CatTyped, CatLength, CatFront, CatBack DEF h
  <2> DEFINE e == h \o data
  <2> HIDE DEF e
  <2>4. /\ e \in Seq(Byte) /\ Len(e) = Len(structure.data) + 1 /\ e[1] = structure.type
        /\ \A x \in 1 .. Len(structure.data) : e[1 + x] = structure.data[x]
    BY <2>2, <2>3 DEF e, h
  <2>5. IsOurs(e) <=> IsFrame(structure)
    BY <2>1, <2>4, EntryFacts
  <2>6. IsFrame(structure)
    BY <2>5 DEF e, h
  <2>7. Payload(structure) \in F
    BY <2>6 DEF CarriesOnly
  <2> QED
    BY <2>7, Zenon DEF Payload
<1>4. UNION {FrameFromServiceUuid(u) : u \in Services(ad)} \subseteq F
  <2> SUFFICES ASSUME NEW i \in DOMAIN ad.structures, ad.structures[i].type = AD_TYPE_UUID128
               PROVE  FrameFromServiceUuid(ad.structures[i].data) \subseteq F
    BY Zenon DEF Services, Range
  <2> QED
    BY Zenon DEF CarriesOnly
<1> QED
  BY <1>2, <1>3, <1>4, Zenon DEF Heard, OnDesktop

(***************************************************************************)
(* The passage of a message.                                               *)
(***************************************************************************)

\* What passes the tests of decode is never refused by the constructor behind
\* them: decode does not reach its expect, on any bytes and at any capacity.
THEOREM DecodeNeverPanics ==
  \A cap \in Nat : \A bytes \in Seq(Byte) :
    Rejection(bytes, cap) = "None" => Decode(bytes, cap).ok
<1> SUFFICES ASSUME NEW cap \in Nat, NEW bytes \in Seq(Byte), Rejection(bytes, cap) = "None"
             PROVE  Decode(bytes, cap).ok
  OBVIOUS
<1> DEFINE f == bytes[1]
           L == Len(bytes)
           src == SubSeq(bytes, 4, 7)
           dest == IF HasDest(f) THEN SubSeq(bytes, 8, 11) ELSE NoDest
           number == 256 * bytes[2] + bytes[3]
           payload == SubSeq(bytes, HeaderLenOf(f) + 1, L)
           ttl == TtlOf(f)
           C == Construct(src, dest, number, payload, ttl, cap)
<1>2. Decode(bytes, cap) = C
  BY Zenon DEF Decode
<1>3. /\ L <= cap /\ ~ (L < HEADER_LEN_HEARSAY) /\ ~ (L < HeaderLenOf(f))
      /\ ttl # 0
  <2>1. L \in Nat
    BY LenProperties
  <2>2. /\ ~ (L > cap) /\ ~ (L < HEADER_LEN_HEARSAY) /\ ~ (L < HeaderLenOf(f))
        /\ ttl # 0
    BY DEF Rejection
  <2> HIDE DEF L
  <2> QED
    BY <2>1, <2>2
<1>4. L \in Nat /\ HeaderLenOf(f) \in {7, 11} /\ L >= 7 /\ L >= HeaderLenOf(f)
  BY <1>3, LenProperties DEF HeaderLenOf, HEADER_LEN_HEARSAY, HEADER_LEN_TELEGRAM
<1>5. bytes[1] \in Byte
  <2>1. \A i \in 1 .. L : bytes[i] \in Byte
    BY ElementOfSeq
  <2> HIDE DEF L
  <2> QED
    BY <1>4, <2>1
<1>6. ValidTtl(ttl)
  <2>1. ttl \in 0 .. MAX_TTL /\ ttl # 0
    BY <1>3, <1>5, ByteFacts
  <2> HIDE DEF ttl
  <2> QED
    BY <2>1 DEF ValidTtl, MAX_TTL
<1>7. HeaderLen(dest) = HeaderLenOf(f)
  <2>1. CASE HasDest(f)
    <3>1. L >= 11
      BY <1>4, <2>1 DEF HeaderLenOf, HEADER_LEN_TELEGRAM
    <3>2. SubSeq(bytes, 8, 11) \in Seq(Byte) /\ Len(SubSeq(bytes, 8, 11)) = 11 - 8 + 1
      BY <1>4, <3>1, SubSeqProperties
    <3> DEFINE id == SubSeq(bytes, 8, 11)
    <3> HIDE DEF id
    <3>3. id \in Seq(Byte) /\ Len(id) = 4
      BY <3>2 DEF id
    <3>4. Len(NoDest) = 0
      BY EmptySeq DEF NoDest
    <3>5. id # NoDest
      BY <3>3, <3>4
    <3> QED
      BY <2>1, <3>5 DEF HeaderLen, HeaderLenOf, id
  <2>2. CASE ~ HasDest(f)
    BY <2>2 DEF HeaderLenOf, HeaderLen
  <2> QED
    BY <2>1, <2>2
<1>8. Len(payload) = L - HeaderLenOf(f)
  <2> DEFINE k == HeaderLenOf(f)
             m == k + 1
  <2>1. k \in Nat /\ m \in Nat /\ m = k + 1 /\ k <= L
    BY <1>4
  <2> HIDE DEF m, k
  <2>2. Len(SubSeq(bytes, m, L)) = L - k
    BY <1>4, <2>1, DropFacts
  <2> QED
    BY <2>2 DEF m, k
<1>9. PayloadFits(payload, cap - HeaderLen(dest))
  <2> HIDE DEF L, payload, f, dest
  <2> QED
    BY <1>3, <1>4, <1>7, <1>8 DEF PayloadFits
<1>10. C = Ok([ttl |-> ttl, seq |-> number, src |-> src, dest |-> dest, payload |-> payload])
  BY <1>6, <1>9, Zenon DEF Construct
<1> QED
  BY <1>2, <1>10 DEF Ok

\* The version that is read back from the flags is the one that was chosen.
LEMMA VersionFacts ==
  ASSUME NEW p, p.ttl \in 1 .. MAX_TTL
  PROVE  VersionOf(Flags(p)) = Version(p)
<1> DEFINE v == Version(p)
           d == IF p.dest = NoDest THEN 0 ELSE 32
           t == p.ttl
<1>1. v \in 0 .. 1 /\ d \in {0, 32} /\ t \in 1 .. 31
  BY DEF Version, WIRE_VERSION, WIRE_VERSION_EXT, MAX_TTL
<1>2. Flags(p) = 64 * v + d + (t % 32)
  BY DEF Flags
<1> HIDE DEF v, d, t
<1>3. t % 32 = t
  BY <1>1
<1>4. (64 * v + d + t) \div 64 = v
  BY <1>1
<1> QED
  BY <1>2, <1>3, <1>4 DEF VersionOf, v

\* A packet with h hops taken.
Taken(p, h) == [p EXCEPT !.ttl = @ - h]

LEMMA TakenFacts ==
  ASSUME NEW cap, NEW p \in PacketN(cap), NEW h \in Nat
  PROVE  /\ Taken(p, 0) = p
         /\ Taken(p, h).ttl = p.ttl - h
         /\ Hopped(Taken(p, h)) = Taken(p, h + 1)
         /\ KeyBytes(Taken(p, h)) = KeyBytes(p)
<1>1. p = [ttl |-> p.ttl, seq |-> p.seq, src |-> p.src, dest |-> p.dest, payload |-> p.payload]
  BY PacketRecord
<1> DEFINE T(n) == [ttl |-> p.ttl - n, seq |-> p.seq, src |-> p.src, dest |-> p.dest,
                    payload |-> p.payload]
<1>2. \A n : Taken(p, n) = T(n)
  BY <1>1 DEF Taken
<1>3. p.ttl \in Nat
  <2>1. p.ttl \in 1 .. MAX_TTL
    BY PacketFields
  <2> QED
    BY <2>1 DEF MAX_TTL
<1>4. T(0) = p
  BY <1>1, <1>3
<1>5. Hopped(T(h)) = T(h + 1)
  <2>1. p.ttl - h - 1 = p.ttl - (h + 1)
    BY <1>3
  <2> DEFINE n == p.ttl - h
  <2> HIDE DEF n
  <2>2. Hopped([ttl |-> n, seq |-> p.seq, src |-> p.src, dest |-> p.dest, payload |-> p.payload])
        = [ttl |-> n - 1, seq |-> p.seq, src |-> p.src, dest |-> p.dest, payload |-> p.payload]
    BY DEF Hopped
  <2> QED
    BY <2>1, <2>2 DEF n
<1>6. KeyBytes(T(h)) = KeyBytes(p)
  BY DEF KeyBytes
<1>7. T(h).ttl = p.ttl - h
  OBVIOUS
<1> HIDE DEF T
<1> QED
  BY <1>2, <1>4, <1>5, <1>6, <1>7

LEMMA ExtCapacity ==
  MAX_EXT_FRAME_LEN \in Nat /\ MAX_EXT_FRAME_LEN = 211 /\ MAX_FRAME_LEN \in Nat
  BY SMT DEF MAX_EXT_FRAME_LEN, HEADER_LEN_TELEGRAM, MAX_FRAME_LEN

\* A frame of a packet: its length, and what the length says of the version.
LEMMA FrameFacts ==
  ASSUME NEW p \in PacketN(MAX_EXT_FRAME_LEN)
  PROVE  /\ Encode(p) \in Seq(Byte) /\ Len(Encode(p)) \in Nat
         /\ Len(Encode(p)) >= 7 /\ Len(Encode(p)) <= MAX_EXT_FRAME_LEN
         /\ VersionOf(Encode(p)[1]) = WIRE_VERSION_EXT <=> Extended(Encode(p))
         /\ ~ Extended(Encode(p)) => p \in PacketN(MAX_FRAME_LEN)
<1> DEFINE e == Encode(p)
           H == HeaderLen(p.dest)
           k == Len(p.payload)
<1>1. e \in Seq(Byte) /\ Len(e) = H + k /\ e[1] = Flags(p)
  BY EncodeFacts
<1>2. p.ttl \in 1 .. MAX_TTL /\ H + k <= MAX_EXT_FRAME_LEN /\ k \in Nat
  BY PacketFields, LenProperties
<1>3. H \in {7, 11}
  BY DEF HeaderLen, HEADER_LEN_HEARSAY, HEADER_LEN_TELEGRAM
<1>4. VersionOf(e[1]) = Version(p)
  BY <1>1, <1>2, VersionFacts
<1>5. Version(p) = WIRE_VERSION_EXT <=> H + k > MAX_FRAME_LEN
  BY DEF Version, WIRE_VERSION, WIRE_VERSION_EXT
<1>6. H + k <= MAX_FRAME_LEN => p \in PacketN(MAX_FRAME_LEN)
  BY Zenon DEF PacketN
<1> HIDE DEF e, H, k
<1>7. Extended(e) <=> H + k > MAX_FRAME_LEN
  BY <1>1 DEF Extended
<1>8. H + k \in Nat /\ H + k >= 7 /\ (~ (H + k > MAX_FRAME_LEN) <=> H + k <= MAX_FRAME_LEN)
  BY <1>2, <1>3, ExtCapacity
<1> QED
  BY <1>1, <1>2, <1>4, <1>5, <1>6, <1>7, <1>8 DEF e

\* What is constructed is a packet.
LEMMA ConstructedIsPacket ==
  ASSUME NEW typed \in Typed, NEW cap \in Nat,
         Construct(typed.src, typed.dest, typed.seq, typed.payload, typed.ttl, cap).ok
  PROVE  Construct(typed.src, typed.dest, typed.seq, typed.payload, typed.ttl, cap).value
           \in PacketN(cap)
<1> DEFINE D == WireId \cup {NoDest}
           Y == Seq(Byte)
           ttl == typed.ttl
           H == HeaderLen(typed.dest)
           k == Len(typed.payload)
           p == [ttl |-> ttl, seq |-> typed.seq, src |-> typed.src, dest |-> typed.dest,
                 payload |-> typed.payload]
<1>1. /\ typed.src \in WireId /\ typed.dest \in D /\ typed.seq \in SeqNumber
      /\ typed.payload \in Y /\ typed.ttl \in Byte
  <2> HIDE DEF D, Y
  <2>1. typed \in [src : WireId, dest : D, seq : SeqNumber, payload : Y, ttl : Byte]
    BY TypedAssumption, Zenon DEF D, Y
  <2> QED
    BY <2>1
<1>2. \A e : Err(e).ok = FALSE
  BY DEF Err
<1>3. /\ ValidTtl(ttl) /\ PayloadFits(typed.payload, cap - H)
      /\ Construct(typed.src, typed.dest, typed.seq, typed.payload, ttl, cap) = Ok(p)
  BY <1>2, Zenon DEF Construct
<1>4. ttl \in 1 .. MAX_TTL
  <2>1. ttl \in Nat
    BY <1>1, ByteFacts
  <2> HIDE DEF ttl
  <2> QED
    BY <1>3, <2>1 DEF ValidTtl, MAX_TTL
<1>5. H + k <= cap
  <2>1. H \in {7, 11} /\ k \in Nat /\ k <= cap - H
    BY <1>1, <1>3, LenProperties
       DEF HeaderLen, HEADER_LEN_HEARSAY, HEADER_LEN_TELEGRAM, PayloadFits
  <2> HIDE DEF H, k
  <2> QED
    BY <2>1
<1>6. p \in PacketN(cap)
  <2> HIDE DEF ttl
  <2> QED
    BY <1>1, <1>4, <1>5 DEF PacketN
<1> QED
  BY <1>3, <1>6 DEF Ok

\* Advertisements of other devices carry bytes.
LEMMA ForeignFacts ==
  ASSUME NEW structures \in Foreign
  PROVE  structures \in Seq(AdStructure) /\ CarriesOnly(structures, Seq(Byte))
<1>1. /\ structures \in Seq(AdStructure)
      /\ \A i \in DOMAIN structures :
           structures[i].type = AD_TYPE_UUID128 => Len(structures[i].data) = 16
  BY ForeignAssumption
<1> SUFFICES ASSUME NEW i \in DOMAIN structures
             PROVE  /\ IsFrame(structures[i]) => Payload(structures[i]) \in Seq(Byte)
                    /\ structures[i].type = AD_TYPE_UUID128 =>
                         FrameFromServiceUuid(structures[i].data) \subseteq Seq(Byte)
  BY <1>1, Zenon DEF CarriesOnly
<1> DEFINE structure == structures[i]
           data == structure.data
<1>2. structure \in AdStructure
  BY <1>1, ElementOfSeq
<1>3. data \in Seq(Byte) /\ Len(data) \in Nat
  BY <1>2 DEF AdStructure
<1>4. ASSUME IsFrame(structure) PROVE Payload(structure) \in Seq(Byte)
  <2>1. Len(data) >= 2
    BY <1>4 DEF IsFrame
  <2> DEFINE n == Len(data)
             m == 3
  <2>2. m \in Nat \ {0} /\ n \in Nat /\ m <= n + 1 /\ n <= Len(data)
    BY <1>3, <2>1
  <2> HIDE DEF data, n, m
  <2>3. SubSeq(data, m, n) \in Seq(Byte)
    BY <1>3, <2>2, SliceFacts, Zenon
  <2> QED
    BY <2>3 DEF Payload, data, n, m
<1>5. structure.type = AD_TYPE_UUID128 => FrameFromServiceUuid(data) \subseteq Seq(Byte)
  BY <1>1, <1>3, UuidTyped
<1> QED
  BY <1>4, <1>5

\* What a platform puts on air is an advertisement that carries the frame and
\* no other.
LEMMA OwnAdvertisement ==
  ASSUME NEW f \in Seq(Byte), Len(f) >= 7, Len(f) <= MAX_EXT_FRAME_LEN,
         platform \in Platforms, Len(f) <= MAX_FRAME[platform]
  PROVE  Structures(f) \in Seq(AdStructure) /\ CarriesOnly(Structures(f), {f})
<1>0. Len(f) \in Nat /\ Len(f) <= 211
  BY ExtCapacity
<1> DEFINE c == COMPANY_ID \o f
           m == Structure(AD_TYPE_MANUFACTURER, c)
<1>1. /\ COMPANY_ID \in Seq(Byte) /\ Len(COMPANY_ID) = 2
      /\ COMPANY_ID[1] = 12 /\ COMPANY_ID[2] = 241
  BY SMT DEF COMPANY_ID, Byte
<1>2. /\ c \in Seq(Byte) /\ Len(c) = 2 + Len(f)
      /\ SubSeq(c, 3, Len(c)) = f /\ SubSeq(c, 1, 2) = COMPANY_ID
  <2> DEFINE h == COMPANY_ID
  <2> HIDE DEF h
  <2>1. h \in Seq(Byte) /\ Len(h) = 2
    BY <1>1 DEF h
  <2>2. h \o f \in Seq(Byte) /\ Len(h \o f) = Len(h) + Len(f)
    BY <2>1, CatTyped, CatLength
  <2>3. SubSeq(h \o f, Len(h) + 1, Len(h) + Len(f)) = f
    BY <2>1, SliceOfBack, Zenon
  <2>4. Len(h) + 1 = 3
    BY <2>1
  <2>5. \A i \in 1 .. Len(h) : (h \o f)[i] = h[i]
    BY <2>1, CatFront, Zenon
  <2> DEFINE g == h \o f
             a == SubSeq(g, 1, 2)
  <2> HIDE DEF g
  <2>6. a \in Seq(Byte) /\ Len(a) = 2 /\ \A i \in 1 .. 2 : a[i] = g[i]
    BY <1>0, <2>1, <2>2 DEF g
  <2> HIDE DEF a
  <2>7. \A i \in 1 .. Len(a) : a[i] = h[i]
    BY <2>1, <2>5, <2>6 DEF g
  <2>8. a = h
    BY <2>1, <2>6, <2>7, SeqEqual
  <2> QED
    BY <1>0, <2>1, <2>2, <2>3, <2>4, <2>8 DEF a, g, h
<1> HIDE DEF c
<1>3. /\ AD_TYPE_MANUFACTURER \in Byte /\ AD_TYPE_FLAGS \in Byte /\ AD_TYPE_UUID128 \in Byte
      /\ AD_TYPE_MANUFACTURER # AD_TYPE_UUID128 /\ AD_TYPE_FLAGS # AD_TYPE_UUID128
      /\ AD_TYPE_MANUFACTURER # AD_TYPE_FLAGS
  BY SMT DEF AD_TYPE_MANUFACTURER, AD_TYPE_FLAGS, AD_TYPE_UUID128, Byte
<1> HIDE DEF m
<1>4. m.type = AD_TYPE_MANUFACTURER /\ m.data = c
  BY DEF m, Structure
<1>5. m \in AdStructure
  <2>1. Len(c) < 255
    BY <1>0, <1>2
  <2> QED
    BY <1>2, <1>3, <2>1 DEF m, Structure, AdStructure
<1>6. Payload(m) = f
  BY <1>2, <1>4, Zenon DEF Payload
<1>7. ASSUME NEW flags \in Byte
      PROVE  LET s == Structure(AD_TYPE_FLAGS, <<flags>>)
             IN  s \in AdStructure /\ s.type = AD_TYPE_FLAGS
  <2>1. <<flags>> \in Seq(Byte) /\ Len(<<flags>>) < 255
    BY <1>7, SMT DEF Byte
  <2> DEFINE data == <<flags>>
  <2> HIDE DEF data
  <2>2. data \in Seq(Byte) /\ Len(data) < 255
    BY <2>1 DEF data
  <2>3. [type |-> AD_TYPE_FLAGS, data |-> data] \in AdStructure
    BY <1>3, <2>2 DEF AdStructure
  <2> QED
    BY <2>3 DEF Structure, data
<1>8. 26 \in Byte /\ 6 \in Byte
  BY SMT DEF Byte
<1>9. CASE platform = "macos"
  <2> DEFINE s == Structure(AD_TYPE_FLAGS, <<26>>)
             v == FrameToServiceUuid(f)
             u == Structure(AD_TYPE_UUID128, v)
  <2>1. s \in AdStructure /\ s.type = AD_TYPE_FLAGS
    BY <1>7, <1>8
  <2>2. Len(f) \in MIN_FRAME .. MAX_UUID_FRAME
    <3>1. MAX_FRAME["macos"] = MAX_UUID_FRAME
      BY Zenon DEF MAX_FRAME
    <3>2. Len(f) <= MAX_UUID_FRAME
      BY <1>9, <3>1, Zenon
    <3> DEFINE n == Len(f)
    <3>3. n \in Nat /\ n >= 7 /\ n <= 15
      BY <1>0, <3>2 DEF MAX_UUID_FRAME
    <3> HIDE DEF n
    <3>4. n \in MIN_FRAME .. MAX_UUID_FRAME
      BY <3>3, SMT DEF MIN_FRAME, MAX_UUID_FRAME
    <3> QED
      BY <3>4 DEF n
  <2>3. v \in Seq(Byte) /\ Len(v) = 16 /\ FrameFromServiceUuid(v) = {f}
    BY <2>2, UuidFacts
  <2> HIDE DEF v, s
  <2>4. u \in AdStructure /\ u.type = AD_TYPE_UUID128 /\ u.data = v
    <3>1. Len(v) < 255
      BY <2>3
    <3> QED
      BY <1>3, <2>3, <3>1 DEF Structure, AdStructure
  <2> HIDE DEF u
  <2>5. Structures(f) = <<s, u>>
    BY <1>9, Zenon DEF Structures, s, u, v
  <2>6. <<s, u>> \in Seq(AdStructure)
    BY <2>1, <2>4
  <2>7. \A i \in DOMAIN <<s, u>> : <<s, u>>[i] \in {s, u}
    OBVIOUS
  <2>8. ~ IsFrame(s) /\ ~ IsFrame(u) /\ s.type # AD_TYPE_UUID128
    BY <1>3, <2>1, <2>4, Zenon DEF IsFrame
  <2>9. CarriesOnly(<<s, u>>, {f})
    BY <2>3, <2>4, <2>7, <2>8, Zenon DEF CarriesOnly
  <2> QED
    BY <2>5, <2>6, <2>9
<1>10. ASSUME NEW structures, structures \in Seq(AdStructure),
              \A i \in DOMAIN structures : structures[i] = m \/ structures[i].type = AD_TYPE_FLAGS
       PROVE  CarriesOnly(structures, {f})
  <2>1. \A s : s.type = AD_TYPE_FLAGS => ~ IsFrame(s) /\ s.type # AD_TYPE_UUID128
    BY <1>3, Zenon DEF IsFrame
  <2> QED
    BY <1>3, <1>4, <1>6, <1>10, <2>1, Zenon DEF CarriesOnly
<1>11. CASE platform = "board"
  <2>1. Structures(f) = <<m>>
    BY <1>11, Zenon DEF Structures, m, c
  <2>2. <<m>> \in Seq(AdStructure) /\ \A i \in DOMAIN <<m>> : <<m>>[i] = m
    BY <1>5
  <2> QED
    BY <1>10, <2>1, <2>2
<1>12. CASE platform \notin {"macos", "board"}
  <2> DEFINE s == Structure(AD_TYPE_FLAGS, <<6>>)
  <2>1. s \in AdStructure /\ s.type = AD_TYPE_FLAGS
    BY <1>7, <1>8
  <2> HIDE DEF s
  <2>2. Structures(f) = <<s, m>>
    BY <1>12, Zenon DEF Structures, m, c, s
  <2>3. <<s, m>> \in Seq(AdStructure) /\ \A i \in DOMAIN <<s, m>> : <<s, m>>[i] \in {s, m}
    BY <1>5, <2>1
  <2> QED
    BY <1>10, <2>1, <2>2, <2>3
<1> QED
  BY <1>9, <1>11, <1>12

\* How often the packet that is now in a frame or on air was forwarded.
InHand == IF arrived = {} THEN 0 ELSE hops + 1

\* What is at hand and on air is the packet of origin with the hops taken, in
\* whichever carrier; before there is an origin only other devices advertise.
FirstHeard ==
  origin = {} =>
    /\ frames = {} /\ arrived = {}
    /\ \A ad \in on_air : IsAdvertisement(ad) /\ CarriesOnly(ad.structures, Seq(Byte))
OnItsWay ==
  \A p \in origin :
    /\ origin = {p} /\ p \in PacketN(MAX_EXT_FRAME_LEN)
    /\ arrived \subseteq {Taken(p, hops)}
    /\ \A f \in frames : f = Encode(Taken(p, InHand))
    /\ \A ad \in on_air : /\ IsAdvertisement(ad)
                          /\ CarriesOnly(ad.structures, {Encode(Taken(p, InHand))})
                          /\ ad.extended <=> Extended(Encode(Taken(p, InHand)))
    /\ frames # {} \/ on_air # {} => Taken(p, InHand) \in PacketN(MAX_EXT_FRAME_LEN)
PassInv == platform \in Platforms /\ hops \in Nat /\ FirstHeard /\ OnItsWay

\* What can be heard of a message on its way is its frame.
LEMMA HeardOnItsWay ==
  ASSUME OnItsWay, NEW p \in origin, NEW ad \in on_air, NEW receiver, NEW f \in Heard(receiver, ad)
  PROVE  f = Encode(Taken(p, InHand)) /\ Taken(p, InHand) \in PacketN(MAX_EXT_FRAME_LEN)
<1>1. /\ IsAdvertisement(ad) /\ CarriesOnly(ad.structures, {Encode(Taken(p, InHand))})
      /\ Taken(p, InHand) \in PacketN(MAX_EXT_FRAME_LEN)
  BY Zenon DEF OnItsWay
<1>2. Heard(receiver, ad) \subseteq {Encode(Taken(p, InHand))}
  BY <1>1, HeardIsCarried
<1> QED
  BY <1>1, <1>2

\* Hearing a packet that was forwarded h times: the next frame is of the packet
\* with one hop more.
LEMMA ForwardedOnce ==
  ASSUME NEW p \in PacketN(MAX_EXT_FRAME_LEN), NEW h \in Nat,
         Taken(p, h) \in PacketN(MAX_EXT_FRAME_LEN)
  PROVE  LET on == IF MayHop(Taken(p, h)) THEN {Encode(Hopped(Taken(p, h)))} ELSE {}
         IN  /\ on \subseteq {Encode(Taken(p, h + 1))}
             /\ on # {} => Taken(p, h + 1) \in PacketN(MAX_EXT_FRAME_LEN)
<1>1. Hopped(Taken(p, h)) = Taken(p, h + 1)
  BY TakenFacts
<1>2. MayHop(Taken(p, h)) => Hopped(Taken(p, h)) \in PacketN(MAX_EXT_FRAME_LEN)
  BY HoppedFacts
<1> QED
  BY <1>1, <1>2, Zenon

LEMMA PassInvHolds ==
  /\ PInit => PassInv
  /\ PassInv /\ [PNext]_pvars => PassInv'
<1>1. PInit => PassInv
  BY DEF PInit, PassInv, FirstHeard, OnItsWay
<1>2. ASSUME PassInv, [PNext]_pvars PROVE PassInv'
  <2>0. platform \in Platforms /\ hops \in Nat /\ FirstHeard /\ OnItsWay
    BY <1>2 DEF PassInv
  <2>00. InHand \in Nat
    BY <2>0 DEF InHand
  <2>1. CASE UNCHANGED pvars
    BY <2>0, <2>1 DEF pvars, PassInv, FirstHeard, OnItsWay, InHand
  <2>2. ASSUME NEW typed \in Typed, Compose(typed) PROVE PassInv'
    <3> DEFINE C == Construct(typed.src, typed.dest, typed.seq, typed.payload, typed.ttl,
                              MAX_EXT_FRAME_LEN)
               p == C.value
    <3>1. /\ C.ok /\ origin' = {p} /\ frames' = {Encode(p)}
          /\ origin = {} /\ on_air = {}
          /\ platform' = platform /\ on_air' = {} /\ arrived' = arrived /\ hops' = hops
      BY <2>2 DEF Compose
    <3>2. p \in PacketN(MAX_EXT_FRAME_LEN)
      BY <3>1, ExtCapacity, ConstructedIsPacket
    <3> HIDE DEF p
    <3>3. arrived' = {} /\ InHand' = 0
      BY <2>0, <3>1 DEF FirstHeard, InHand
    <3>4. Taken(p, 0) = p
      BY <3>2, TakenFacts
    <3>5. FirstHeard'
      BY <3>1 DEF FirstHeard
    <3>6. OnItsWay'
      BY <3>1, <3>2, <3>3, <3>4 DEF OnItsWay
    <3> QED
      BY <2>0, <3>1, <3>5, <3>6 DEF PassInv
  <2>3. ASSUME NEW frame \in frames, NEW bytes \in ReportLengths(Structures(frame)),
               SetFrame(frame, bytes)
        PROVE  PassInv'
    <3> DEFINE ad == Advertisement(Structures(frame), bytes, Extended(frame))
    <3>1. /\ Len(frame) <= MAX_FRAME[platform]
          /\ on_air' = {ad} /\ frames' = {}
          /\ platform' = platform /\ origin' = origin /\ arrived' = arrived /\ hops' = hops
      BY <2>3 DEF SetFrame
    <3>2. origin # {}
      BY <2>0 DEF FirstHeard
    <3>3. FirstHeard'
      BY <3>1, <3>2 DEF FirstHeard
    <3>4. InHand' = InHand
      BY <3>1 DEF InHand
    <3>5. ad.structures = Structures(frame) /\ ad.bytes = bytes /\ ad.extended = Extended(frame)
      BY Zenon DEF Advertisement
    <3>6. bytes \in Nat
      BY DEF ReportLengths
    <3> HIDE DEF ad
    <3>7. ASSUME NEW p \in origin
          PROVE  /\ origin = {p} /\ p \in PacketN(MAX_EXT_FRAME_LEN)
                 /\ arrived \subseteq {Taken(p, hops)}
                 /\ IsAdvertisement(ad)
                 /\ CarriesOnly(ad.structures, {Encode(Taken(p, InHand))})
                 /\ ad.extended <=> Extended(Encode(Taken(p, InHand)))
                 /\ Taken(p, InHand) \in PacketN(MAX_EXT_FRAME_LEN)
      <4>1. /\ origin = {p} /\ p \in PacketN(MAX_EXT_FRAME_LEN)
            /\ arrived \subseteq {Taken(p, hops)}
            /\ frame = Encode(Taken(p, InHand))
            /\ Taken(p, InHand) \in PacketN(MAX_EXT_FRAME_LEN)
        BY <2>0 DEF OnItsWay
      <4>2. frame \in Seq(Byte) /\ Len(frame) >= 7 /\ Len(frame) <= MAX_EXT_FRAME_LEN
        BY <4>1, FrameFacts
      <4>3. Structures(frame) \in Seq(AdStructure) /\ CarriesOnly(Structures(frame), {frame})
        BY <2>0, <3>1, <4>2, OwnAdvertisement
      <4>4. IsAdvertisement(ad)
        BY <3>5, <3>6, <4>3, Zenon DEF IsAdvertisement
      <4> QED
        BY <3>5, <4>1, <4>3, <4>4, Zenon
    <3>8. OnItsWay'
      BY <3>1, <3>4, <3>7, Zenon DEF OnItsWay
    <3> QED
      BY <2>0, <3>1, <3>3, <3>8 DEF PassInv
  <2>4. ASSUME NEW frame \in frames, OverBudget(frame) PROVE PassInv'
    <3>1. /\ frames' = {} /\ on_air' = on_air
          /\ platform' = platform /\ origin' = origin /\ arrived' = arrived /\ hops' = hops
      BY <2>4 DEF OverBudget
    <3>2. InHand' = InHand
      BY <3>1 DEF InHand
    <3>3. FirstHeard'
      BY <2>0, <3>1 DEF FirstHeard
    <3>4. OnItsWay'
      BY <2>0, <3>1, <3>2, Zenon DEF OnItsWay
    <3> QED
      BY <2>0, <3>1, <3>3, <3>4 DEF PassInv
  <2>5. ASSUME NEW structures \in Foreign, NEW bytes \in ReportLengths(structures),
               ForeignAdvertisement(structures, bytes)
        PROVE  PassInv'
    <3> DEFINE ad == Advertisement(structures, bytes, FALSE)
    <3>1. /\ origin = {} /\ on_air' = {ad} /\ frames' = frames
          /\ platform' = platform /\ origin' = origin /\ arrived' = arrived /\ hops' = hops
      BY <2>5 DEF ForeignAdvertisement
    <3>2. ad.structures = structures /\ ad.bytes = bytes
      BY Zenon DEF Advertisement
    <3>3. bytes \in Nat
      BY DEF ReportLengths
    <3>4. structures \in Seq(AdStructure) /\ CarriesOnly(structures, Seq(Byte))
      BY ForeignFacts
    <3> HIDE DEF ad
    <3>5. IsAdvertisement(ad) /\ CarriesOnly(ad.structures, Seq(Byte))
      BY <3>2, <3>3, <3>4, Zenon DEF IsAdvertisement
    <3>6. FirstHeard'
      BY <2>0, <3>1, <3>5 DEF FirstHeard
    <3>7. OnItsWay'
      BY <3>1 DEF OnItsWay
    <3> QED
      BY <2>0, <3>1, <3>6, <3>7 DEF PassInv
  <2>6. ASSUME NEW ad \in on_air, NEW receiver \in Platforms, NEW frame \in Heard(receiver, ad),
               Hear(receiver, ad, frame)
        PROVE  PassInv'
    <3> DEFINE packet == Decode(frame, MAX_EXT_FRAME_LEN)
               q == packet.value
               on == IF MayHop(q) THEN {Encode(Hopped(q))} ELSE {}
    <3>1. /\ packet.ok /\ arrived' = {q}
          /\ origin' = (IF origin = {} THEN {q} ELSE origin)
          /\ hops' = (IF arrived = {} THEN 0 ELSE hops + 1)
          /\ frames' = on
          /\ platform' = receiver /\ on_air' = {}
      BY <2>6, Zenon DEF Hear
    <3>2. hops' = InHand /\ hops' \in Nat /\ InHand' = hops' + 1
      <4>1. arrived' # {}
        BY <3>1
      <4> QED
        BY <2>00, <3>1, <4>1 DEF InHand
    <3>3. ASSUME NEW p, origin' = {p}
          PROVE  p \in PacketN(MAX_EXT_FRAME_LEN) /\ q = Taken(p, hops')
                 /\ Taken(p, hops') \in PacketN(MAX_EXT_FRAME_LEN)
      <4>1. CASE origin = {}
        <5>1. arrived = {} /\ IsAdvertisement(ad) /\ CarriesOnly(ad.structures, Seq(Byte))
          BY <2>0, <4>1 DEF FirstHeard
        <5>2. frame \in Seq(Byte)
          BY <5>1, HeardIsCarried
        <5>3. q \in PacketN(MAX_EXT_FRAME_LEN)
          BY <3>1, <5>2, ExtCapacity, DecodedIsPacket
        <5>4. hops' = 0 /\ p = q
          BY <3>1, <3>3, <4>1, <5>1
        <5>5. Taken(q, 0) = q
          BY <5>3, TakenFacts
        <5> HIDE DEF q
        <5> QED
          BY <5>3, <5>4, <5>5
      <4>2. CASE origin # {}
        <5>1. p \in origin /\ p \in PacketN(MAX_EXT_FRAME_LEN)
          BY <2>0, <3>1, <3>3, <4>2 DEF OnItsWay
        <5>2. frame = Encode(Taken(p, InHand)) /\ Taken(p, InHand) \in PacketN(MAX_EXT_FRAME_LEN)
          BY <2>0, <5>1, HeardOnItsWay
        <5>3. packet = Ok(Taken(p, InHand))
          BY <5>2, ExtCapacity, RoundTrip
        <5>4. q = Taken(p, InHand)
          BY <5>3 DEF Ok
        <5> QED
          BY <3>2, <5>1, <5>2, <5>4
      <4> QED
        BY <4>1, <4>2
    <3>4. \E p : origin' = {p}
      <4>1. \A p \in origin : origin = {p}
        BY <2>0 DEF OnItsWay
      <4> QED
        BY <3>1, <4>1
    <3> HIDE DEF q, packet, on
    <3>5. ASSUME NEW p \in origin'
          PROVE  /\ origin' = {p} /\ p \in PacketN(MAX_EXT_FRAME_LEN)
                 /\ arrived' \subseteq {Taken(p, hops')}
                 /\ frames' \subseteq {Encode(Taken(p, InHand'))}
                 /\ frames' # {} => Taken(p, InHand') \in PacketN(MAX_EXT_FRAME_LEN)
      <4>1. origin' = {p}
        BY <3>4
      <4>2. /\ p \in PacketN(MAX_EXT_FRAME_LEN) /\ q = Taken(p, hops')
            /\ Taken(p, hops') \in PacketN(MAX_EXT_FRAME_LEN)
        BY <3>3, <4>1
      <4> DEFINE h == hops'
      <4>3. h \in Nat
        BY <3>2
      <4> HIDE DEF h
      <4>4. LET forwarded == IF MayHop(Taken(p, h)) THEN {Encode(Hopped(Taken(p, h)))} ELSE {}
            IN  /\ forwarded \subseteq {Encode(Taken(p, h + 1))}
                /\ forwarded # {} => Taken(p, h + 1) \in PacketN(MAX_EXT_FRAME_LEN)
        BY <4>2, <4>3, ForwardedOnce, Zenon DEF h
      <4>5. frames' = IF MayHop(Taken(p, h)) THEN {Encode(Hopped(Taken(p, h)))} ELSE {}
        BY <3>1, <4>2, Zenon DEF on, h
      <4>6. InHand' = h + 1
        BY <3>2 DEF h
      <4> QED
        BY <3>1, <4>1, <4>2, <4>4, <4>5, <4>6, Zenon
    <3>6. FirstHeard'
      BY <3>4 DEF FirstHeard
    <3>7. OnItsWay'
      BY <3>1, <3>5, Zenon DEF OnItsWay
    <3> QED
      BY <2>6, <3>1, <3>2, <3>6, <3>7 DEF PassInv
  <2> QED
    BY <1>2, <2>1, <2>2, <2>3, <2>4, <2>5, <2>6, Zenon DEF PNext
<1> QED
  BY <1>1, <1>2

\* Every advertisement that is on air is one, and what is heard of it is bytes.
LEMMA OnAirFacts ==
  ASSUME PassInv, NEW ad \in on_air
  PROVE  /\ IsAdvertisement(ad)
         /\ \A receiver : Heard(receiver, ad) \subseteq Seq(Byte)
<1>1. FirstHeard /\ OnItsWay
  BY DEF PassInv
<1>2. CASE origin = {}
  <2>1. IsAdvertisement(ad) /\ CarriesOnly(ad.structures, Seq(Byte))
    BY <1>1, <1>2 DEF FirstHeard
  <2> QED
    BY <2>1, HeardIsCarried
<1>3. CASE origin # {}
  <2>1. PICK p : p \in origin
    BY <1>3
  <2>2. IsAdvertisement(ad)
    BY <1>1, <2>1 DEF OnItsWay
  <2>3. ASSUME NEW receiver, NEW f \in Heard(receiver, ad) PROVE f \in Seq(Byte)
    <3>1. f = Encode(Taken(p, InHand)) /\ Taken(p, InHand) \in PacketN(MAX_EXT_FRAME_LEN)
      BY <1>1, <2>1, <2>3, HeardOnItsWay
    <3> QED
      BY <3>1, FrameFacts
  <2> QED
    BY <2>2, <2>3
<1> QED
  BY <1>2, <1>3

\* A message arrives as it was first encoded less the hops taken, and with the
\* same dedup key, whichever carriers, platforms and truncated reports it
\* passes through and however many hops it has.
THEOREM MessageArrives == PSpec => []ArrivesAsSent
<1>1. PassInv => ArrivesAsSent
  <2> SUFFICES ASSUME PassInv, NEW p \in origin, NEW q \in arrived
               PROVE  q = [p EXCEPT !.ttl = @ - hops] /\ KeyBytes(q) = KeyBytes(p)
    BY DEF ArrivesAsSent
  <2>1. p \in PacketN(MAX_EXT_FRAME_LEN) /\ hops \in Nat /\ q = Taken(p, hops)
    BY DEF PassInv, OnItsWay
  <2>2. KeyBytes(Taken(p, hops)) = KeyBytes(p)
    BY <2>1, TakenFacts
  <2> QED
    BY <2>1, <2>2, Zenon DEF Taken
<1> QED
  BY <1>1, PassInvHolds, PTL DEF PSpec

\* decode never panics on what is picked out of the air, at either capacity,
\* and accepts every frame of a message on its way: none is sent with TTL 0.
THEOREM CodecIsSafe == PSpec => []CodecNeverPanics
<1>1. PassInv => CodecNeverPanics
  <2> SUFFICES ASSUME PassInv, NEW ad \in on_air, NEW receiver \in Platforms,
                      NEW cap \in {MAX_FRAME_LEN, MAX_EXT_FRAME_LEN},
                      NEW f \in Heard(receiver, ad)
               PROVE  /\ Rejection(f, cap) = "None" => Decode(f, cap).ok
                      /\ origin # {} => Rejection(f, MAX_EXT_FRAME_LEN) = "None"
    BY Zenon DEF CodecNeverPanics
  <2>1. f \in Seq(Byte) /\ cap \in Nat
    BY OnAirFacts, ExtCapacity
  <2>2. Rejection(f, cap) = "None" => Decode(f, cap).ok
    BY <2>1, DecodeNeverPanics
  <2>3. ASSUME origin # {} PROVE Rejection(f, MAX_EXT_FRAME_LEN) = "None"
    <3>1. PICK p : p \in origin
      BY <2>3
    <3>2. OnItsWay
      BY DEF PassInv
    <3> DEFINE t == Taken(p, InHand)
    <3>3. f = Encode(t) /\ t \in PacketN(MAX_EXT_FRAME_LEN)
      BY <3>1, <3>2, HeardOnItsWay
    <3> HIDE DEF t
    <3>4. Decode(f, MAX_EXT_FRAME_LEN) = Ok(t)
      BY <3>3, ExtCapacity, RoundTrip
    <3>5. \A e : Err(e) # Ok(t)
      BY DEF Err, Ok
    <3> QED
      BY <3>4, <3>5, Zenon DEF Decode
  <2> QED
    BY <2>2, <2>3
<1> QED
  BY <1>1, PassInvHolds, PTL DEF PSpec

\* The version in the frame and the kind of its advertisement agree, and a
\* node that knows only legacy advertising decodes what it can hear.
THEOREM VersionIsReach == PSpec => []ReachMatchesVersion
<1>1. PassInv => ReachMatchesVersion
  <2> SUFFICES ASSUME PassInv, NEW ad \in on_air, NEW receiver \in Platforms,
                      NEW f \in Heard(receiver, ad), origin # {}
               PROVE  /\ (VersionOf(f[1]) = WIRE_VERSION_EXT) <=> ad.extended
                      /\ ad.extended \/ Decode(f, MAX_FRAME_LEN) = Decode(f, MAX_EXT_FRAME_LEN)
    BY Zenon DEF ReachMatchesVersion
  <2>1. PICK p : p \in origin
    OBVIOUS
  <2> DEFINE t == Taken(p, InHand)
  <2>2. OnItsWay
    BY DEF PassInv
  <2>3. f = Encode(t) /\ t \in PacketN(MAX_EXT_FRAME_LEN)
    BY <2>1, <2>2, HeardOnItsWay
  <2>4. ad.extended <=> Extended(Encode(t))
    BY <2>1, <2>2, Zenon DEF OnItsWay
  <2> HIDE DEF t
  <2>5. /\ VersionOf(Encode(t)[1]) = WIRE_VERSION_EXT <=> Extended(Encode(t))
        /\ ~ Extended(Encode(t)) => t \in PacketN(MAX_FRAME_LEN)
    BY <2>3, FrameFacts
  <2>6. t \in PacketN(MAX_FRAME_LEN) => Decode(f, MAX_FRAME_LEN) = Ok(t)
    BY <2>3, ExtCapacity, RoundTrip
  <2>7. Decode(f, MAX_EXT_FRAME_LEN) = Ok(t)
    BY <2>3, ExtCapacity, RoundTrip
  <2> QED
    BY <2>3, <2>4, <2>5, <2>6, <2>7, Zenon
<1> QED
  BY <1>1, PassInvHolds, PTL DEF PSpec

\* manufacturer_frame finds the first whole entry of ours in every report of
\* every advertisement, of any structures in any order, cut off or padded.
THEOREM WalkIsRight == PSpec => []WalkFindsTheFrame
<1>1. PassInv => WalkFindsTheFrame
  <2>1. ASSUME PassInv, NEW ad \in on_air
        PROVE  ManufacturerFrame(Report(ad)) = Payloads(ad, FirstOf(OursIn(ad)))
    BY <2>1, OnAirFacts, WalkFinds
  <2> QED
    BY <2>1, Zenon DEF WalkFindsTheFrame, Payloads, FirstOf, OursIn, Complete, IsFrame, Payload
<1> QED
  BY <1>1, PassInvHolds, PTL DEF PSpec
=============================================================================
