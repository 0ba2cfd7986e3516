--------------------------- MODULE AirtimeProofs ---------------------------
(***************************************************************************)
(* The promises of the airtime rotation, of the ring that holds its        *)
(* relays, and of the loop that drives it on the desktop, proved for every *)
(* queue length, own window, set of frames and number of refusals.         *)
(***************************************************************************)
EXTENDS RotationOverRing, Advertiser, RotationFacts

USE DEF vars, rotation, history, tvars

(***************************************************************************)
(* Sequence facts: what a push of a counter and a turn do to a queue.      *)
(***************************************************************************)

\* The same for a queue of counters in which the new entry starts at zero.
LEMMA PushZeroFacts ==
  ASSUME NEW q \in Seq(Nat), NEW cap \in Nat \ {0}, Len(q) <= cap
  PROVE  /\ PushShedding(q, 0, cap) \in Seq(Nat)
         /\ Len(PushShedding(q, 0, cap)) = IF Len(q) = cap THEN cap ELSE Len(q) + 1
         /\ \A i \in 1 .. Len(PushShedding(q, 0, cap)) :
              PushShedding(q, 0, cap)[i] =
                IF i = Len(PushShedding(q, 0, cap)) THEN 0
                ELSE IF Len(q) = cap THEN q[i + 1] ELSE q[i]
<1>. DEFINE S == Nat
            x == 0
<1>1. x \in S /\ q \in Seq(S)
  OBVIOUS
<1>. HIDE DEF S, x
<1>2. /\ PushShedding(q, x, cap) \in Seq(S)
      /\ Len(PushShedding(q, x, cap)) = IF Len(q) = cap THEN cap ELSE Len(q) + 1
      /\ \A i \in 1 .. Len(PushShedding(q, x, cap)) :
           PushShedding(q, x, cap)[i] =
             IF i = Len(PushShedding(q, x, cap)) THEN x
             ELSE IF Len(q) = cap THEN q[i + 1] ELSE q[i]
  BY <1>1, PushSheddingFacts
<1>. QED
  BY <1>2 DEF S, x

\* Adding a turn to every counter keeps their number and adds one to each.
LEMMA OlderFacts ==
  ASSUME NEW counts \in Seq(Nat)
  PROVE  /\ Older(counts) \in Seq(Nat)
         /\ Len(Older(counts)) = Len(counts)
         /\ \A i \in 1 .. Len(counts) : Older(counts)[i] = counts[i] + 1
  BY DEF Older

----------------------------------------------------------------------------
LEMMA InitType == TInit => TTypeOK
<1>. SUFFICES ASSUME TInit
              PROVE  TTypeOK
  OBVIOUS
<1>1. /\ relays \in Seq(Frames) /\ waits \in Seq(Nat)
      /\ Len(relays) = 0 /\ Len(waits) = 0
  BY EmptySeq DEF TInit, Init
<1>2. last_was_own \in BOOLEAN
  BY DEF TInit, Init
<1>. QED
  BY <1>1, <1>2, BudgetAssumption, QueueAssumption DEF TInit, Init, TTypeOK, TypeOK

LEMMA NextType == TTypeOK /\ [TNext]_tvars => TTypeOK'
<1>. SUFFICES ASSUME TTypeOK, [TNext]_tvars
              PROVE  TTypeOK'
  OBVIOUS
<1>. USE FrameAssumption, BudgetAssumption, QueueAssumption DEF TTypeOK, TypeOK
<1>1. ASSUME NEW frame \in Frames, TEnqueueOwn(frame)
      PROVE  TTypeOK'
  BY <1>1 DEF TEnqueueOwn, EnqueueOwn
<1>2. ASSUME NEW frame \in Frames, TEnqueueRelay(frame)
      PROVE  TTypeOK'
  <2>1. /\ relays' \in Seq(Frames)
        /\ Len(relays') = IF Len(relays) = RELAY_QUEUE THEN RELAY_QUEUE ELSE Len(relays) + 1
    BY <1>2, PushSheddingFacts DEF TEnqueueRelay, EnqueueRelay
  <2>2. /\ waits' \in Seq(Nat)
        /\ Len(waits') = IF Len(relays) = RELAY_QUEUE THEN RELAY_QUEUE ELSE Len(relays) + 1
    BY <1>2, PushZeroFacts DEF TEnqueueRelay
  <2>. QED
    BY <1>2, <2>1, <2>2 DEF TEnqueueRelay, EnqueueRelay
<1>3. CASE TServeRelay
  <2>1. relays # << >> /\ waits # << >>
    BY <1>3 DEF TServeRelay, ServeRelay, RelayTurn
  <2>2. /\ Head(relays) \in Frames
        /\ Tail(relays) \in Seq(Frames)
        /\ Len(Tail(relays)) = Len(relays) - 1
        /\ Tail(waits) \in Seq(Nat)
        /\ Len(Tail(waits)) = Len(waits) - 1
    BY <2>1
  <2>3. waits' \in Seq(Nat) /\ Len(waits') = Len(Tail(waits))
    BY <1>3, <2>2, OlderFacts DEF TServeRelay
  <2>4. last_was_own' \in BOOLEAN
    BY <1>3 DEF TServeRelay, ServeRelay
  <2>5. passed' \in Nat
    BY <1>3 DEF TServeRelay
  <2>. QED
    BY <1>3, <2>2, <2>3, <2>4, <2>5 DEF TServeRelay, ServeRelay
<1>4. CASE TServeOwn
  <2>1. waits' \in Seq(Nat) /\ Len(waits') = Len(waits)
    BY <1>4, OlderFacts DEF TServeOwn
  <2>. QED
    BY <1>4, <2>1 DEF TServeOwn, ServeOwn
<1>5. CASE TServeNothing
  BY <1>5 DEF TServeNothing, ServeNothing
<1>6. CASE UNCHANGED tvars
  BY <1>6
<1>. QED
  BY <1>1, <1>2, <1>3, <1>4, <1>5, <1>6 DEF TNext

\* The types of the rotation and of its history: the own message is in
\* rotation exactly while it has turns left, and never more than RELAY_QUEUE
\* relays wait.
THEOREM RotationTypeOK == TSpec => []TTypeOK
  BY InitType, NextType, PTL DEF TSpec

----------------------------------------------------------------------------
(***************************************************************************)
(* The own message: its share of the turns and its audibility window.      *)
(***************************************************************************)

LEMMA NextOwnHalf ==
  TTypeOK /\ OwnHalfTheAirtime /\ [TNext]_tvars => OwnHalfTheAirtime'
<1>. SUFFICES ASSUME TTypeOK, OwnHalfTheAirtime, [TNext]_tvars
              PROVE  OwnHalfTheAirtime'
  OBVIOUS
<1>. USE FrameAssumption DEF TTypeOK, TypeOK, OwnHalfTheAirtime
<1>1. ASSUME NEW frame \in Frames, TEnqueueOwn(frame)
      PROVE  OwnHalfTheAirtime'
  BY <1>1 DEF TEnqueueOwn, EnqueueOwn
<1>2. ASSUME NEW frame \in Frames, TEnqueueRelay(frame)
      PROVE  OwnHalfTheAirtime'
  BY <1>2 DEF TEnqueueRelay, EnqueueRelay
\* A relay turn with an own message in rotation follows an own turn, which
\* reset the count.
<1>3. CASE TServeRelay
  BY <1>3 DEF TServeRelay, ServeRelay, RelayTurn
<1>4. CASE TServeOwn
  BY <1>4 DEF TServeOwn, ServeOwn
<1>5. CASE TServeNothing
  BY <1>5 DEF TServeNothing, ServeNothing
<1>6. CASE UNCHANGED tvars
  BY <1>6
<1>. QED
  BY <1>1, <1>2, <1>3, <1>4, <1>5, <1>6 DEF TNext

\* While an own message is in rotation, no two turns in a row pass it over.
THEOREM OwnAlternates == TSpec => []OwnHalfTheAirtime
<1>1. TInit => OwnHalfTheAirtime
  BY DEF TInit, Init, OwnHalfTheAirtime
<1>. QED
  BY <1>1, NextOwnHalf, RotationTypeOK, PTL DEF TSpec

LEMMA NextOwnWindow == TTypeOK /\ OwnWindow /\ [TNext]_tvars => OwnWindow'
<1>. SUFFICES ASSUME TTypeOK, OwnWindow, [TNext]_tvars
              PROVE  OwnWindow'
  OBVIOUS
<1>. USE FrameAssumption, BudgetAssumption DEF TTypeOK, TypeOK, OwnWindow
<1>1. ASSUME NEW frame \in Frames, TEnqueueOwn(frame)
      PROVE  OwnWindow'
  BY <1>1 DEF TEnqueueOwn, EnqueueOwn
<1>2. ASSUME NEW frame \in Frames, TEnqueueRelay(frame)
      PROVE  OwnWindow'
  BY <1>2 DEF TEnqueueRelay, EnqueueRelay
<1>3. CASE TServeRelay
  BY <1>3 DEF TServeRelay, ServeRelay
<1>4. CASE TServeOwn
  BY <1>4 DEF TServeOwn, ServeOwn
<1>5. CASE TServeNothing
  BY <1>5 DEF TServeNothing, ServeNothing
<1>6. CASE UNCHANGED tvars
  BY <1>6
<1>. QED
  BY <1>1, <1>2, <1>3, <1>4, <1>5, <1>6 DEF TNext

\* Every own message has exactly OWN_DWELLS turns unless it is superseded.
THEOREM OwnHasItsWindow == TSpec => []OwnWindow
<1>1. TInit => OwnWindow
  BY DEF TInit, Init, OwnWindow
<1>. QED
  BY <1>1, NextOwnWindow, RotationTypeOK, PTL DEF TSpec

----------------------------------------------------------------------------
(***************************************************************************)
(* The latency of a relay: RelayShare is inductive as it stands, because   *)
(* it weighs a place in the queue with the two turns it costs at most.     *)
(***************************************************************************)

LEMMA NextRelayShare == TTypeOK /\ RelayShare /\ [TNext]_tvars => RelayShare'
<1>. SUFFICES ASSUME TTypeOK, RelayShare, [TNext]_tvars
              PROVE  RelayShare'
  OBVIOUS
<1>. USE QueueAssumption DEF TTypeOK, TypeOK
<1>0. /\ \A i \in 1 .. Len(waits) :
           waits[i] \in Nat /\ waits[i] + 2 * i - Credit <= 2 * RELAY_QUEUE
      /\ Len(waits) \in Nat /\ Len(waits) = Len(relays)
  BY ElementOfSeq DEF RelayShare
<1>b. /\ Credit \in {0, 1} /\ Credit' \in {0, 1}
      /\ last_was_own' = last_was_own => Credit' = Credit
      /\ ~ last_was_own => Credit = 0
      /\ last_was_own' => Credit' = 1
      /\ ~ last_was_own' => Credit' = 0
  <2>1. (last_was_own => Credit = 1) /\ (~ last_was_own => Credit = 0)
    BY DEF Credit
  <2>2. (last_was_own' => Credit' = 1) /\ (~ last_was_own' => Credit' = 0)
    BY DEF Credit
  <2>. QED
    BY <2>1, <2>2
<1>. SUFFICES ASSUME NEW i \in 1 .. Len(waits')
              PROVE  waits'[i] + 2 * i - Credit' <= 2 * RELAY_QUEUE
  BY DEF RelayShare
<1>1. ASSUME NEW frame \in Frames, TEnqueueOwn(frame)
      PROVE  waits'[i] + 2 * i - Credit' <= 2 * RELAY_QUEUE
  BY <1>0, <1>b, <1>1 DEF TEnqueueOwn, EnqueueOwn
\* The newcomer takes at most place RELAY_QUEUE; shedding moves the others up.
<1>2. ASSUME NEW frame \in Frames, TEnqueueRelay(frame)
      PROVE  waits'[i] + 2 * i - Credit' <= 2 * RELAY_QUEUE
  <2>1. waits' = PushShedding(waits, 0, RELAY_QUEUE) /\ last_was_own' = last_was_own
    BY <1>2 DEF TEnqueueRelay, EnqueueRelay
  <2>2. /\ Len(waits') = IF Len(waits) = RELAY_QUEUE THEN RELAY_QUEUE ELSE Len(waits) + 1
        /\ waits'[i] = IF i = Len(waits') THEN 0
                       ELSE IF Len(waits) = RELAY_QUEUE THEN waits[i + 1] ELSE waits[i]
    BY <2>1, PushZeroFacts
  <2>3. CASE i = Len(waits')
    BY <1>0, <1>b, <2>1, <2>2, <2>3
  <2>4. CASE i # Len(waits') /\ Len(waits) = RELAY_QUEUE
    <3>1. i + 1 \in 1 .. Len(waits) /\ waits'[i] = waits[i + 1]
      BY <1>0, <1>b, <2>2, <2>4
    <3>2. waits[i + 1] + 2 * (i + 1) - Credit <= 2 * RELAY_QUEUE
      BY <1>0, <1>b, <3>1
    <3>. QED
      BY <1>0, <1>b, <2>1, <3>1, <3>2
  <2>5. CASE i # Len(waits') /\ Len(waits) # RELAY_QUEUE
    BY <1>0, <1>b, <2>1, <2>2, <2>5
  <2>. QED
    BY <2>3, <2>4, <2>5
\* A relay turn moves every relay one place up, worth two turns.
<1>3. CASE TServeRelay
  <2>1. waits # << >> /\ waits' = Older(Tail(waits)) /\ ~ last_was_own'
    BY <1>3 DEF TServeRelay, ServeRelay, RelayTurn
  <2>2. /\ Tail(waits) \in Seq(Nat)
        /\ Len(Tail(waits)) = Len(waits) - 1
        /\ \A j \in 1 .. Len(Tail(waits)) : Tail(waits)[j] = waits[j + 1]
    BY <2>1, HeadTailProperties
  <2>3. /\ Len(waits') = Len(waits) - 1
        /\ waits'[i] = Tail(waits)[i] + 1
    BY <2>1, <2>2, OlderFacts
  <2>4. i + 1 \in 1 .. Len(waits) /\ waits'[i] = waits[i + 1] + 1
    BY <1>0, <1>b, <2>2, <2>3
  <2>5. waits[i + 1] \in Nat /\ waits[i + 1] + 2 * (i + 1) - Credit <= 2 * RELAY_QUEUE
    BY <1>0, <2>4
  <2>6. Credit' = 0 /\ i \in Nat
    BY <1>b, <2>1
  <2>7. waits[i + 1] + 1 + 2 * i <= 2 * RELAY_QUEUE
    <3>1. ASSUME NEW w \in Nat, NEW c \in {0, 1}, w + 2 * (i + 1) - c <= 2 * RELAY_QUEUE
          PROVE  w + 1 + 2 * i <= 2 * RELAY_QUEUE
      BY <2>6, <3>1
    <3> HIDE DEF TTypeOK, TypeOK
    <3>. QED
      BY <1>b, <2>5, <3>1
  <2>. QED
    BY <2>4, <2>5, <2>6, <2>7
\* An own turn with relays waiting follows a relay turn, and the next turn is
\* theirs.
<1>4. CASE TServeOwn
  <2>1. waits' = Older(waits) /\ last_was_own'
    BY <1>4 DEF TServeOwn, ServeOwn
  <2>2. Len(waits') = Len(waits) /\ waits'[i] = waits[i] + 1
    BY <2>1, OlderFacts
  <2>3. ~ last_was_own
    <3>1. relays # << >>
      BY <1>0, <1>b, <2>2
    <3>. QED
      BY <1>4, <3>1 DEF TServeOwn, ServeOwn, RelayTurn
  <2>. QED
    BY <1>0, <1>b, <2>1, <2>2, <2>3
<1>5. CASE TServeNothing
  BY <1>0, <1>b, <1>5 DEF TServeNothing, ServeNothing
<1>6. CASE UNCHANGED tvars
  BY <1>0, <1>b, <1>6
<1>. QED
  BY <1>1, <1>2, <1>3, <1>4, <1>5, <1>6 DEF TNext

\* No relay is ever passed over by 2 * RELAY_QUEUE turns, whatever the mesh
\* and the user enqueue meanwhile.
THEOREM RelayIsServedInTime == TSpec => []RelayShare
<1>1. TInit => RelayShare
  BY EmptySeq DEF TInit, RelayShare
<1>. QED
  BY <1>1, NextRelayShare, RotationTypeOK, PTL DEF TSpec

----------------------------------------------------------------------------
(***************************************************************************)
(* The array behind the relays: RelayRing implements the shed-oldest FIFO. *)
(***************************************************************************)

\* The slot of the i-th pending relay when the oldest one sits at h.
Slot(h, i) == (h + i - 1) % RELAY_QUEUE

\* Different places have different slots; moving the head one slot on makes the
\* second place the first and the old head the last.
LEMMA SlotFacts ==
  ASSUME NEW h \in 0 .. RELAY_QUEUE - 1
  PROVE  /\ (h + 1) % RELAY_QUEUE \in 0 .. RELAY_QUEUE - 1
         /\ \A i \in 1 .. RELAY_QUEUE : Slot(h, i) \in 0 .. RELAY_QUEUE - 1
         /\ \A i, j \in 1 .. RELAY_QUEUE : Slot(h, i) = Slot(h, j) => i = j
         /\ Slot(h, 1) = h
         /\ \A i \in 1 .. RELAY_QUEUE - 1 :
              Slot((h + 1) % RELAY_QUEUE, i) = Slot(h, i + 1)
         /\ Slot((h + 1) % RELAY_QUEUE, RELAY_QUEUE) = h
<1> DEFINE N == RELAY_QUEUE
           next == (h + 1) % N
<1>1. N \in Nat \ {0} /\ h \in 0 .. N - 1
  BY QueueAssumption
<1> HIDE DEF N
<1>2. ASSUME NEW g \in 0 .. N - 1, NEW i \in 1 .. N
      PROVE  /\ (g + i - 1) % N = IF g + i - 1 < N THEN g + i - 1 ELSE g + i - 1 - N
             /\ (g + i - 1) % N \in 0 .. N - 1
  <2>1. CASE g + i - 1 < N
    <3>1. g + i - 1 \in 0 .. N - 1 /\ N \in Nat \ {0}
      BY <1>1, <2>1
    <3>2. (g + i - 1) % N = g + i - 1
      BY <3>1
    <3> QED
      BY <2>1, <3>1, <3>2
  <2>2. CASE ~ (g + i - 1 < N)
    <3>1. g + i - 1 \in N .. 2 * N - 1 /\ N \in Nat \ {0}
      BY <1>1, <2>2
    <3>2. (g + i - 1) % N = g + i - 1 - N
      BY <3>1
    <3> QED
      BY <2>2, <3>1, <3>2
  <2> QED
    BY <2>1, <2>2
<1>3. next = IF h = N - 1 THEN 0 ELSE h + 1
  <2>1. CASE h = N - 1
    <3>1. h + 1 = N /\ N \in Nat \ {0}
      BY <1>1, <2>1
    <3>2. N % N = 0
      BY <3>1
    <3> QED
      BY <2>1, <3>1, <3>2
  <2>2. CASE h # N - 1
    <3>1. h + 1 \in 0 .. N - 1 /\ N \in Nat \ {0}
      BY <1>1, <2>2
    <3>2. (h + 1) % N = h + 1
      BY <3>1
    <3> QED
      BY <2>2, <3>2
  <2> QED
    BY <2>1, <2>2
<1> HIDE DEF next
<1>4. next \in 0 .. N - 1
  BY <1>1, <1>3
<1>5. \A g, i : Slot(g, i) = (g + i - 1) % N
  BY DEF Slot, N
<1>6. \A i \in 1 .. N : /\ Slot(h, i) = IF h + i - 1 < N THEN h + i - 1 ELSE h + i - 1 - N
                        /\ Slot(next, i) = IF next + i - 1 < N THEN next + i - 1
                                           ELSE next + i - 1 - N
                        /\ Slot(h, i) \in 0 .. N - 1
  BY <1>1, <1>2, <1>4, <1>5
<1>7. \A i, j \in 1 .. N : Slot(h, i) = Slot(h, j) => i = j
  BY <1>1, <1>6
<1>8. Slot(h, 1) = h /\ Slot(next, N) = h
  BY <1>1, <1>3, <1>6
<1>9. ASSUME NEW i \in 1 .. N - 1 PROVE Slot(next, i) = Slot(h, i + 1)
  <2>1. i \in 1 .. N /\ i + 1 \in 1 .. N
    BY <1>1
  <2> QED
    BY <1>1, <1>3, <1>6, <2>1
<1> QED
  BY <1>4, <1>6, <1>7, <1>8, <1>9 DEF N, next

LEMMA PendingFacts ==
  ASSUME Ring!TypeOK
  PROVE  /\ Ring!Pending \in Seq(Frames)
         /\ Len(Ring!Pending) = len
         /\ \A i \in 1 .. len : Ring!Pending[i] = slots[Slot(head, i)]
<1>1. len \in Nat
  BY QueueAssumption DEF Ring!TypeOK
<1>2. ASSUME NEW i \in 1 .. len PROVE slots[(head + i - 1) % RELAY_QUEUE] \in Frames
  <2>1. i - 1 \in 0 .. len - 1
    BY <1>1
  <2>2. slots[(head + (i - 1)) % RELAY_QUEUE] \in Frames
    BY <2>1 DEF Ring!TypeOK
  <2>3. head + (i - 1) = head + i - 1
    BY <1>1, QueueAssumption DEF Ring!TypeOK, Ring!Slots
  <2> QED
    BY <2>2, <2>3
<1>3. Ring!Pending \in [1 .. len -> Frames]
  BY <1>2 DEF Ring!Pending
<1> QED
  BY <1>1, <1>3 DEF Ring!Pending, Slot

\* The pending slots, counted by place or by offset.
LEMMA PlaceIsOffset ==
  ASSUME NEW s, NEW h \in 0 .. RELAY_QUEUE - 1, NEW l \in 0 .. RELAY_QUEUE
  PROVE  (\A k \in 0 .. l - 1 : s[(h + k) % RELAY_QUEUE] \in Frames)
           <=> \A i \in 1 .. l : s[Slot(h, i)] \in Frames
<1>0. RELAY_QUEUE \in Nat /\ l \in Nat /\ h \in Nat
  BY QueueAssumption
<1>1. ASSUME NEW k \in 0 .. l - 1
      PROVE  k + 1 \in 1 .. l /\ Slot(h, k + 1) = (h + k) % RELAY_QUEUE
  <2>1. h + (k + 1) - 1 = h + k
    BY <1>0
  <2> QED
    BY <1>0, <2>1 DEF Slot
<1>2. ASSUME NEW i \in 1 .. l
      PROVE  i - 1 \in 0 .. l - 1 /\ Slot(h, i) = (h + (i - 1)) % RELAY_QUEUE
  <2>1. h + i - 1 = h + (i - 1)
    BY <1>0
  <2> QED
    BY <1>0, <2>1 DEF Slot
<1> QED
  BY <1>1, <1>2

\* RelayRing.TypeOK, with the pending slots named by their place.
LEMMA RingTypeFacts ==
  ASSUME Ring!TypeOK
  PROVE  /\ slots \in [0 .. RELAY_QUEUE - 1 -> Frames \cup {NoFrame}]
         /\ head \in 0 .. RELAY_QUEUE - 1 /\ len \in 0 .. RELAY_QUEUE
         /\ popped \in Frames \cup {NoFrame}
         /\ \A i \in 1 .. len : slots[Slot(head, i)] \in Frames
         /\ RELAY_QUEUE \in Nat \ {0} /\ len \in Nat
<1>1. /\ slots \in [0 .. RELAY_QUEUE - 1 -> Frames \cup {NoFrame}]
      /\ head \in 0 .. RELAY_QUEUE - 1 /\ len \in 0 .. RELAY_QUEUE
      /\ popped \in Frames \cup {NoFrame}
      /\ \A k \in 0 .. len - 1 : slots[(head + k) % RELAY_QUEUE] \in Frames
  BY DEF Ring!TypeOK, Ring!Slots
<1>2. \A i \in 1 .. len : slots[Slot(head, i)] \in Frames
  BY <1>1, PlaceIsOffset
<1> QED
  BY <1>1, <1>2, QueueAssumption

\* What a step has to establish for the ring: its type, and the pending frames
\* it leaves.
LEMMA RingStepFacts ==
  ASSUME NEW q \in Seq(Frames),
         slots' \in [0 .. RELAY_QUEUE - 1 -> Frames \cup {NoFrame}],
         head' \in 0 .. RELAY_QUEUE - 1, len' \in 0 .. RELAY_QUEUE,
         popped' \in Frames \cup {NoFrame},
         Len(q) = len',
         \A i \in 1 .. len' : slots'[Slot(head', i)] = q[i]
  PROVE  Ring!TypeOK' /\ Ring!Pending' = q
<1>1. \A i \in 1 .. len' : slots'[Slot(head', i)] \in Frames
  BY ElementOfSeq
<1>2. \A k \in 0 .. len' - 1 : slots'[(head' + k) % RELAY_QUEUE] \in Frames
  BY <1>1, PlaceIsOffset
<1>3. Ring!TypeOK'
  BY <1>2 DEF Ring!TypeOK, Ring!Slots
<1>4. Ring!Pending' = [i \in 1 .. len' |-> slots'[Slot(head', i)]]
  BY DEF Ring!Pending, Slot
<1>5. q = [i \in 1 .. len' |-> q[i]]
  BY LenProperties
<1> QED
  BY <1>3, <1>4, <1>5

\* push_back is the push of the abstract queue: on a full ring the slot of the
\* oldest frame, which the moved head leaves last, takes the new one.
LEMMA PushBackIsPush ==
  ASSUME Ring!TypeOK, NEW frame \in Frames, Ring!PushBack(frame)
  PROVE  Ring!TypeOK' /\ Ring!Pending' = PushShedding(Ring!Pending, frame, RELAY_QUEUE)
<1> DEFINE N == RELAY_QUEUE
           next == (head + 1) % N
<1>1. /\ slots \in [0 .. N - 1 -> Frames \cup {NoFrame}]
      /\ head \in 0 .. N - 1 /\ len \in 0 .. N /\ popped \in Frames \cup {NoFrame}
      /\ N \in Nat \ {0} /\ len \in Nat
  BY RingTypeFacts
<1>2. PICK old \in Seq(Frames) :
        /\ old = Ring!Pending
        /\ Len(old) = len
        /\ \A i \in 1 .. len : old[i] = slots[Slot(head, i)]
  BY PendingFacts
<1>3. /\ next \in 0 .. N - 1
      /\ \A i \in 1 .. N : Slot(head, i) \in 0 .. N - 1
      /\ \A i, j \in 1 .. N : Slot(head, i) = Slot(head, j) => i = j
      /\ Slot(head, 1) = head
      /\ \A i \in 1 .. N - 1 : Slot(next, i) = Slot(head, i + 1)
      /\ Slot(next, N) = head
  BY <1>1, SlotFacts
<1>4. PICK new \in Seq(Frames) :
        /\ new = PushShedding(old, frame, RELAY_QUEUE)
        /\ Len(new) = IF Len(old) = N THEN N ELSE Len(old) + 1
        /\ \A i \in 1 .. Len(new) : new[i] = IF i = Len(new) THEN frame
                                              ELSE IF Len(old) = N THEN old[i + 1] ELSE old[i]
  <2>1. Len(old) <= RELAY_QUEUE
    BY <1>1, <1>2
  <2> QED
    BY <2>1, QueueAssumption, PushSheddingFacts
<1>0. /\ slots' = [slots EXCEPT ![(Ring!Shed(head, len)[1] + Ring!Shed(head, len)[2]) % N] = frame]
      /\ head' = Ring!Shed(head, len)[1]
      /\ len' = Ring!Shed(head, len)[2] + 1
      /\ popped' = popped
  BY DEF Ring!PushBack
<1>5. CASE len = N
  <2>1. /\ slots' = [slots EXCEPT ![head] = frame]
        /\ head' = next /\ len' = N /\ popped' = popped
    <3>1. Ring!Shed(head, len)[1] = next /\ Ring!Shed(head, len)[2] = len - 1
      BY <1>5 DEF Ring!Shed
    <3>2. next + (len - 1) = next + N - 1
      BY <1>1, <1>3, <1>5
    <3>3. (next + (len - 1)) % N = head
      BY <1>3, <3>2 DEF Slot
    <3>4. (len - 1) + 1 = N
      BY <1>1, <1>5
    <3> HIDE DEF next, N
    <3> QED
      BY <1>0, <3>1, <3>3, <3>4
  <2> HIDE DEF N, next
  <2>2. ASSUME NEW i \in 1 .. N
        PROVE  slots'[Slot(head', i)] = new[i]
    <3>1. CASE i = N
      BY <1>1, <1>2, <1>3, <1>4, <1>5, <2>1, <3>1
    <3>2. CASE i # N
      <4>1. i \in 1 .. N - 1 /\ i + 1 \in 1 .. N /\ i + 1 # 1 /\ 1 \in 1 .. N
        BY <1>1, <3>2
      <4>2. Slot(head', i) = Slot(head, i + 1) /\ Slot(head, i + 1) # head
        BY <1>3, <2>1, <4>1
      <4>3. slots'[Slot(head, i + 1)] = slots[Slot(head, i + 1)]
        BY <1>1, <1>3, <2>1, <4>1, <4>2
      <4>4. new[i] = old[i + 1]
        BY <1>2, <1>4, <1>5, <3>2
      <4> QED
        BY <1>2, <1>5, <4>1, <4>2, <4>3, <4>4
    <3> QED
      BY <3>1, <3>2
  <2>3. /\ slots' \in [0 .. N - 1 -> Frames \cup {NoFrame}]
        /\ head' \in 0 .. N - 1 /\ len' \in 0 .. N /\ popped' \in Frames \cup {NoFrame}
        /\ Len(new) = len'
    BY <1>1, <1>2, <1>3, <1>4, <1>5, <2>1
  <2>4. \A i \in 1 .. len' : slots'[Slot(head', i)] = new[i]
    BY <2>1, <2>2
  <2>5. Ring!TypeOK' /\ Ring!Pending' = new
    BY <1>4, <2>3, <2>4, RingStepFacts DEF N
  <2> QED
    BY <1>2, <1>4, <2>5
<1>6. CASE len # N
  <2>1. /\ slots' = [slots EXCEPT ![Slot(head, len + 1)] = frame]
        /\ head' = head /\ len' = len + 1 /\ popped' = popped
    <3>1. Ring!Shed(head, len)[1] = head /\ Ring!Shed(head, len)[2] = len
      BY <1>6 DEF Ring!Shed
    <3>2. head + (len + 1) - 1 = head + len
      BY <1>1
    <3>3. Slot(head, len + 1) = (head + len) % N
      BY <3>2 DEF Slot
    <3> HIDE DEF N
    <3> QED
      BY <1>0, <3>1, <3>3
  <2> HIDE DEF N, next
  <2>2. len + 1 \in 1 .. N
    BY <1>1, <1>6
  <2>3. ASSUME NEW i \in 1 .. len + 1
        PROVE  slots'[Slot(head', i)] = new[i]
    <3>0. i \in 1 .. N
      BY <1>1, <2>2
    <3>1. CASE i = len + 1
      BY <1>1, <1>2, <1>3, <1>4, <1>6, <2>1, <3>0, <3>1
    <3>2. CASE i # len + 1
      <4>1. Slot(head, i) # Slot(head, len + 1) /\ i \in 1 .. len
        BY <1>1, <1>3, <2>2, <3>0, <3>2
      <4>2. slots'[Slot(head, i)] = slots[Slot(head, i)]
        BY <1>1, <1>3, <2>1, <3>0, <4>1
      <4>3. new[i] = old[i]
        BY <1>2, <1>4, <1>6, <3>2
      <4> QED
        BY <1>2, <2>1, <4>1, <4>2, <4>3
    <3> QED
      BY <3>1, <3>2
  <2>4. /\ slots' \in [0 .. N - 1 -> Frames \cup {NoFrame}]
        /\ head' \in 0 .. N - 1 /\ len' \in 0 .. N /\ popped' \in Frames \cup {NoFrame}
        /\ Len(new) = len'
    <3>1. slots' \in [0 .. N - 1 -> Frames \cup {NoFrame}]
      BY <1>1, <2>1
    <3>2. head' \in 0 .. N - 1 /\ popped' \in Frames \cup {NoFrame}
      BY <1>1, RingTypeFacts, <2>1
    <3>3. len' \in 0 .. N /\ Len(new) = len'
      BY <1>1, <1>2, <1>4, <1>6, <2>1, <2>2
    <3> QED
      BY <3>1, <3>2, <3>3
  <2>5. \A i \in 1 .. len' : slots'[Slot(head', i)] = new[i]
    BY <2>1, <2>3
  <2>6. Ring!TypeOK' /\ Ring!Pending' = new
    BY <1>4, <2>4, <2>5, RingStepFacts DEF N
  <2> QED
    BY <1>2, <1>4, <2>6
<1> QED
  BY <1>5, <1>6

\* pop_front gives up the oldest frame.
LEMMA PopFrontIsPop ==
  ASSUME Ring!TypeOK, Ring!PopFront
  PROVE  /\ Ring!TypeOK'
         /\ Ring!Pending # << >>
         /\ popped' = Head(Ring!Pending)
         /\ Ring!Pending' = Tail(Ring!Pending)
<1> DEFINE N == RELAY_QUEUE
           next == (head + 1) % N
           q == Ring!Pending
<1>1. /\ slots \in [0 .. N - 1 -> Frames \cup {NoFrame}]
      /\ head \in 0 .. N - 1 /\ len \in 0 .. N /\ len \in Nat
      /\ N \in Nat \ {0}
  BY RingTypeFacts
<1>2. /\ q \in Seq(Frames) /\ Len(q) = len
      /\ \A i \in 1 .. len : q[i] = slots[Slot(head, i)]
  BY PendingFacts
<1>3. /\ next \in 0 .. N - 1
      /\ Slot(head, 1) = head
      /\ \A i \in 1 .. N - 1 : Slot(next, i) = Slot(head, i + 1)
  BY <1>1, SlotFacts
<1>4. /\ len > 0 /\ popped' = slots[head] /\ head' = next
      /\ len' = len - 1 /\ slots' = slots
  BY DEF Ring!PopFront
<1> HIDE DEF N, next, q
<1>5. q # << >>
  BY <1>1, <1>2, <1>4, EmptySeq
<1>6. /\ Tail(q) \in Seq(Frames) /\ Len(Tail(q)) = len - 1
      /\ \A i \in 1 .. len - 1 : Tail(q)[i] = q[i + 1]
      /\ Head(q) \in Frames /\ Head(q) = q[1]
  BY <1>2, <1>5, HeadTailProperties
<1>7. popped' = Head(q)
  BY <1>1, <1>2, <1>3, <1>4, <1>6
<1>8. ASSUME NEW i \in 1 .. len' PROVE slots'[Slot(head', i)] = Tail(q)[i]
  <2>1. i \in 1 .. len - 1 /\ i \in 1 .. N - 1 /\ i + 1 \in 1 .. len
    BY <1>1, <1>4
  <2> QED
    BY <1>2, <1>3, <1>4, <1>6, <2>1
<1>9. /\ slots' \in [0 .. N - 1 -> Frames \cup {NoFrame}]
      /\ head' \in 0 .. N - 1 /\ len' \in 0 .. N /\ popped' \in Frames \cup {NoFrame}
      /\ Len(Tail(q)) = len'
  BY <1>1, <1>3, <1>4, <1>6, <1>7
<1>10. Ring!TypeOK' /\ Ring!Pending' = Tail(q)
  BY <1>6, <1>8, <1>9, RingStepFacts DEF N
<1> QED
  BY <1>5, <1>7, <1>10 DEF q

LEMMA InitRing == BInit => TTypeOK /\ RingFeedsTurns /\ Ring!Pending = << >>
<1> SUFFICES ASSUME BInit PROVE TTypeOK /\ RingFeedsTurns /\ Ring!Pending = << >>
  OBVIOUS
<1>1. TTypeOK
  BY InitType DEF BInit
<1>2. /\ slots = [p \in Ring!Slots |-> NoFrame] /\ head = 0 /\ len = 0 /\ popped = NoFrame
      /\ relays = << >> /\ turn = NoFrame
  BY DEF BInit, TInit, Init, Ring!Init
<1>3. Ring!TypeOK
  BY <1>2, QueueAssumption DEF Ring!TypeOK, Ring!Slots
<1>4. Ring!Pending \in Seq(Frames) /\ Len(Ring!Pending) = 0
  BY <1>2, <1>3, PendingFacts
<1>5. Ring!Pending = << >>
  BY <1>4, EmptySeq
<1> QED
  BY <1>1, <1>2, <1>3, <1>5 DEF RingFeedsTurns

\* Both the turn invariant and the steps of the abstract queue.
LEMMA NextRing ==
  TTypeOK /\ RingFeedsTurns /\ [BNext]_bvars =>
    RingFeedsTurns' /\ [Ring!Queue!Next]_(Ring!Queue!vars)
<1> SUFFICES ASSUME TTypeOK, RingFeedsTurns, [BNext]_bvars
             PROVE  RingFeedsTurns' /\ [Ring!Queue!Next]_(Ring!Queue!vars)
  OBVIOUS
<1>1. /\ Ring!TypeOK /\ relays = Ring!Pending
      /\ turn # NoFrame /\ ~ last_was_own => turn = popped
  BY DEF RingFeedsTurns
<1>2. ASSUME UNCHANGED ring
      PROVE  Ring!TypeOK' /\ Ring!Pending' = Ring!Pending /\ UNCHANGED Ring!Queue!vars
  BY <1>1, <1>2 DEF ring, Ring!TypeOK, Ring!Pending, Ring!Slots, Ring!Queue!vars
<1>3. CASE TServeRelay /\ Ring!PopFront
  <2>1. /\ Ring!TypeOK' /\ Ring!Pending # << >>
        /\ popped' = Head(Ring!Pending) /\ Ring!Pending' = Tail(Ring!Pending)
    BY <1>1, <1>3, PopFrontIsPop
  <2>2. Ring!Queue!PopFront
    BY <2>1 DEF Ring!Queue!PopFront
  <2>3. relays' = Tail(relays) /\ turn' = Head(relays)
    BY <1>3 DEF TServeRelay, ServeRelay
  <2> QED
    BY <1>1, <2>1, <2>2, <2>3 DEF RingFeedsTurns, Ring!Queue!Next
<1>4. CASE (TServeOwn \/ TServeNothing) /\ UNCHANGED ring
  <2>1. relays' = relays /\ (last_was_own' = TRUE \/ turn' = NoFrame)
    BY <1>4 DEF TServeOwn, TServeNothing, ServeOwn, ServeNothing
  <2> QED
    BY <1>1, <1>2, <1>4, <2>1 DEF RingFeedsTurns
<1>5. ASSUME NEW frame \in Frames, TEnqueueOwn(frame), UNCHANGED ring
      PROVE  RingFeedsTurns' /\ [Ring!Queue!Next]_(Ring!Queue!vars)
  <2>1. relays' = relays /\ last_was_own' = last_was_own /\ turn' = turn /\ popped' = popped
    BY <1>5 DEF TEnqueueOwn, EnqueueOwn, ring
  <2> QED
    BY <1>1, <1>2, <1>5, <2>1 DEF RingFeedsTurns
<1>6. ASSUME NEW frame \in Frames, TEnqueueRelay(frame), Ring!PushBack(frame)
      PROVE  RingFeedsTurns' /\ [Ring!Queue!Next]_(Ring!Queue!vars)
  <2>1. Ring!TypeOK' /\ Ring!Pending' = PushShedding(Ring!Pending, frame, RELAY_QUEUE)
    BY <1>1, <1>6, PushBackIsPush
  <2>2. /\ relays' = PushShedding(relays, frame, RELAY_QUEUE)
        /\ last_was_own' = last_was_own /\ turn' = turn /\ popped' = popped
    BY <1>6 DEF TEnqueueRelay, EnqueueRelay, Ring!PushBack
  <2>3. Ring!Queue!PushBack(frame)
    BY <2>1, <2>2 DEF Ring!Queue!PushBack, Ring!Queue!PushShedding, PushShedding
  <2>4. Ring!Queue!Next
    BY <2>3 DEF Ring!Queue!Next
  <2>5. RingFeedsTurns'
    BY <1>1, <2>1, <2>2 DEF RingFeedsTurns
  <2> QED
    BY <2>4, <2>5
<1>7. CASE UNCHANGED bvars
  <2>1. /\ UNCHANGED ring /\ relays' = relays /\ last_was_own' = last_was_own
        /\ turn' = turn /\ popped' = popped
    BY <1>7 DEF bvars, ring
  <2> QED
    BY <1>1, <1>2, <2>1 DEF RingFeedsTurns
<1> QED
  BY <1>3, <1>4, <1>5, <1>6, <1>7 DEF BNext

LEMMA NextBeside == TTypeOK /\ [BNext]_bvars => TTypeOK'
<1>1. [BNext]_bvars => [TNext]_tvars
  BY DEF BNext, bvars, TNext
<1> QED
  BY <1>1, NextType

LEMMA AlwaysRing == BSpec => [](TTypeOK /\ RingFeedsTurns)
BY InitRing, NextRing, NextBeside, PTL DEF BSpec

\* Every relay turn airs the frame pop_front gives up, the frames in the array
\* are those the rotation thinks are waiting, and no EMPTY filler is ever
\* served, for every queue length (struct RelayRing, next_frame).
THEOREM RingIsTheRelays == BSpec => []RingFeedsTurns
BY AlwaysRing, PTL

\* The array with its wrapping indices implements the shed-oldest FIFO, for
\* every queue length (struct RelayRing).
THEOREM RingImplementsQueue == BSpec => RefinesRelayQueue
<1>1. BInit => Ring!Queue!Init
  <2> SUFFICES ASSUME BInit PROVE Ring!Queue!Init
    OBVIOUS
  <2>1. Ring!Pending = << >>
    BY InitRing
  <2>2. popped = NoFrame
    BY DEF BInit, Ring!Init
  <2> QED
    BY <2>1, <2>2 DEF Ring!Queue!Init
<1>2. TTypeOK /\ RingFeedsTurns /\ [BNext]_bvars => [Ring!Queue!Next]_(Ring!Queue!vars)
  BY NextRing
<1> QED
  BY <1>1, <1>2, AlwaysRing, PTL
     DEF BSpec, RefinesRelayQueue, Ring!RefinesRelayQueue, Ring!Queue!Spec

----------------------------------------------------------------------------
HIDE DEF vars, rotation, history, tvars

(***************************************************************************)
(* The advertiser.  A frame is registered only after the one before it was *)
(* let go of, which is what set_frame waits for between StopOld and        *)
(* StartNew; off Windows, what was let go of is off air at once, except    *)
(* for the last handle that macOS keeps when the loop ends.                *)
(***************************************************************************)

OneHeld == \A f, g \in held : f = g

SlotInv ==
  /\ BeliefIsTrue
  /\ OneHeld
  /\ at \in {"stop", "start"} => turn \in Frames
  /\ at = "start" => held = {}
  /\ at = "done" => held = {} /\ \A f, g \in strays : platform = "windows" \/ f = g
  /\ at # "done" /\ platform # "windows" => strays = {}

LEMMA InitSlot == AInit => SlotInv
<1> SUFFICES ASSUME AInit PROVE SlotInv
  OBVIOUS
<1>1. TypeOK
  BY RotationStartsTyped DEF AInit
<1>2. channel \in Seq(Outgoing) /\ Len(channel) <= SEND_QUEUE
  <2>1. channel = << >>
    BY DEF AInit
  <2> QED
    BY <2>1, EmptySeq, SendQueueAssumption
<1>3. ATypeOK
  <2>1. failures \in 0 .. MaxFailures
    BY FailuresAssumption DEF AInit
  <2>2. dropped \in BOOLEAN
    BY DEF AInit
  <2> QED
    BY <1>1, <1>2, <2>1, <2>2 DEF AInit, ATypeOK
<1> QED
  BY <1>3 DEF AInit, SlotInv, BeliefIsTrue, OneHeld

\* The types, action by action.
LEMMA NextATypes == SlotInv /\ [ANext]_avars => ATypeOK'
<1> SUFFICES ASSUME SlotInv, [ANext]_avars PROVE ATypeOK'
  OBVIOUS
<1> USE DEF link, radio
<1>1. /\ TypeOK
      /\ at \in {"turn", "idle", "stop", "start", "dwell", "done"}
      /\ channel \in Seq(Outgoing) /\ Len(channel) <= SEND_QUEUE
      /\ dropped \in BOOLEAN
      /\ on_air \in Frames \cup {NoFrame}
      /\ held \subseteq Frames /\ strays \subseteq Frames
      /\ platform \in Platforms
      /\ failures \in 0 .. MaxFailures
      /\ at \in {"stop", "start"} => turn \in Frames
  BY DEF SlotInv, BeliefIsTrue, ATypeOK
<1>2. UNCHANGED vars => TypeOK'
  BY <1>1 DEF TypeOK, vars, rotation
<1>3. ASSUME NEW out \in Outgoing, Send(out) PROVE ATypeOK'
  <2>1. channel' \in Seq(Outgoing) /\ Len(channel') = Len(channel) + 1
    BY <1>1, <1>3, AppendProperties DEF Send
  <2>2. Len(channel') <= SEND_QUEUE
    BY <1>1, <1>3, <2>1, LenProperties, SendQueueAssumption DEF Send
  <2> QED
    BY <1>1, <1>2, <1>3, <2>1, <2>2 DEF Send, ATypeOK
<1>4. CASE DropTransport
  BY <1>1, <1>2, <1>4 DEF DropTransport, ATypeOK
<1>5. CASE TakeTurn
  <2>1. TypeOK'
    BY <1>1, <1>5, NextFrameKeepsType DEF TakeTurn
  <2>2. at' \in {"idle", "dwell", "stop"}
    BY <1>5 DEF TakeTurn
  <2> QED
    BY <1>1, <1>5, <2>1, <2>2 DEF TakeTurn, ATypeOK
<1>6. CASE Receive
  <2>1. /\ Head(channel) \in Outgoing
        /\ channel' \in Seq(Outgoing) /\ Len(channel') = Len(channel) - 1
    BY <1>1, <1>6, HeadTailProperties DEF Receive
  <2>2. Head(channel).frame \in Frames
    BY <2>1, SendableAssumption DEF Outgoing
  <2>3. TypeOK'
    BY <1>1, <1>6, <2>2, EnqueueOwnKeepsType, EnqueueRelayKeepsType DEF Receive, Enqueue
  <2>4. Len(channel') <= SEND_QUEUE
    BY <1>1, <2>1, LenProperties, SendQueueAssumption
  <2>5. at' \in {"turn", "dwell"}
    BY <1>6 DEF Receive
  <2> QED
    BY <1>1, <1>6, <2>1, <2>3, <2>4, <2>5 DEF Receive, ATypeOK
<1>7. CASE Finish
  BY <1>1, <1>2, <1>7 DEF Finish, LetGo, ATypeOK
<1>8. CASE DwellEnds
  BY <1>1, <1>2, <1>8 DEF DwellEnds, ATypeOK
<1>9. CASE StopOld
  BY <1>1, <1>2, <1>9 DEF StopOld, LetGo, ATypeOK
<1>10. CASE StopFails
  <2>1. failures' \in 0 .. MaxFailures
    BY <1>1, <1>10, FailuresAssumption DEF StopFails
  <2>2. held' \subseteq Frames /\ strays' \subseteq Frames
    BY <1>1, <1>10 DEF StopFails, LetGo
  <2>3. on_air' = NoFrame
    BY <1>10 DEF StopFails, RecordOnAir
  <2> QED
    BY <1>1, <1>2, <1>10, <2>1, <2>2, <2>3 DEF StopFails, ATypeOK
<1>11. CASE StartNew
  BY <1>1, <1>2, <1>11 DEF StartNew, RecordOnAir, ATypeOK
<1>12. CASE StartFails
  <2>1. failures' \in 0 .. MaxFailures
    BY <1>1, <1>12, FailuresAssumption DEF StartFails
  <2>2. on_air' = NoFrame
    BY <1>12 DEF StartFails, RecordOnAir
  <2> QED
    BY <1>1, <1>2, <1>12, <2>1, <2>2 DEF StartFails, ATypeOK
<1>13. ASSUME NEW frame \in Frames, Retire(frame) PROVE ATypeOK'
  BY <1>1, <1>2, <1>13 DEF Retire, ATypeOK
<1>14. CASE UNCHANGED avars
  BY <1>1, <1>2, <1>14 DEF avars, ATypeOK
<1> QED
  BY <1>3, <1>4, <1>5, <1>6, <1>7, <1>8, <1>9, <1>10, <1>11, <1>12, <1>13, <1>14
     DEF ANext, Loop, SetFrame, Stopped

\* The belief and the registrations, action by action.
LEMMA NextSlot == SlotInv /\ [ANext]_avars => SlotInv'
<1> SUFFICES ASSUME SlotInv, [ANext]_avars PROVE SlotInv'
  OBVIOUS
<1> USE DEF link, radio
<1>0. ATypeOK'
  BY NextATypes
<1>1. /\ at \in {"turn", "idle", "stop", "start", "dwell", "done"}
      /\ platform \in Platforms
      /\ at \in {"turn", "idle", "dwell"} /\ on_air # NoFrame => on_air \in held
      /\ at = "dwell" => on_air \in {turn, NoFrame}
      /\ \A f, g \in held : f = g
      /\ at \in {"stop", "start"} => turn \in Frames
      /\ at = "start" => held = {}
      /\ at = "done" => held = {} /\ \A f, g \in strays : platform = "windows" \/ f = g
      /\ at # "done" /\ platform # "windows" => strays = {}
  BY DEF SlotInv, BeliefIsTrue, ATypeOK, OneHeld
\* What is left to show once the types are known.
<1> DEFINE Rest ==
      /\ at \in {"turn", "idle", "dwell"} /\ on_air # NoFrame => on_air \in held
      /\ at = "dwell" => on_air \in {turn, NoFrame}
      /\ \A f, g \in held : f = g
      /\ at \in {"stop", "start"} => turn \in Frames
      /\ at = "start" => held = {}
      /\ at = "done" => held = {} /\ \A f, g \in strays : platform = "windows" \/ f = g
      /\ at # "done" /\ platform # "windows" => strays = {}
<1>2. SUFFICES Rest'
  BY <1>0 DEF SlotInv, BeliefIsTrue, OneHeld
<1>3. ASSUME NEW out \in Outgoing, Send(out) PROVE Rest'
  BY <1>1, <1>3 DEF Send, vars, rotation
<1>4. CASE DropTransport
  BY <1>1, <1>4 DEF DropTransport, vars, rotation
<1>5. CASE TakeTurn
  <2>1. /\ at = "turn" /\ UNCHANGED <<on_air, held, strays, platform>>
        /\ at' \in {"idle", "dwell", "stop"}
        /\ at' = "dwell" => on_air' = turn'
        /\ at' = "stop" => turn' # NoFrame
    BY <1>5 DEF TakeTurn
  <2>2. turn' \in Frames \cup {NoFrame}
    BY <1>0 DEF ATypeOK, TypeOK
  <2> QED
    BY <1>1, <2>1, <2>2
<1>6. CASE Receive
  <2>1. turn' = turn
    BY <1>6 DEF Receive, Enqueue, EnqueueOwn, EnqueueRelay
  <2> QED
    BY <1>1, <1>6, <2>1 DEF Receive
<1>7. CASE Finish
  BY <1>1, <1>7 DEF Finish, LetGo, vars, rotation
<1>8. CASE DwellEnds
  BY <1>1, <1>8 DEF DwellEnds, vars, rotation
<1>9. CASE StopOld
  BY <1>1, <1>9 DEF StopOld, LetGo, vars, rotation
<1>10. CASE StopFails
  BY <1>1, <1>10 DEF StopFails, LetGo, RecordOnAir, vars, rotation
<1>11. CASE StartNew
  BY <1>1, <1>11 DEF StartNew, RecordOnAir, vars, rotation
<1>12. CASE StartFails
  BY <1>1, <1>12 DEF StartFails, RecordOnAir, vars, rotation
<1>13. ASSUME NEW frame \in Frames, Retire(frame) PROVE Rest'
  BY <1>1, <1>13 DEF Retire, vars, rotation
<1>14. CASE UNCHANGED avars
  BY <1>1, <1>14 DEF avars, vars, rotation
<1> QED
  BY <1>3, <1>4, <1>5, <1>6, <1>7, <1>8, <1>9, <1>10, <1>11, <1>12, <1>13, <1>14
     DEF ANext, Loop, SetFrame, Stopped

LEMMA AlwaysSlot == ASpec => []SlotInv
BY InitSlot, NextSlot, PTL DEF ASpec

----------------------------------------------------------------------------
\* Whenever the loop reads its belief, the advertiser holds the frame it names:
\* the guard that skips a registration never skips one that is needed, whatever
\* the platform refused before (advertise_loop, record_on_air).
THEOREM BeliefHolds == ASpec => []BeliefIsTrue
<1>1. SlotInv => BeliefIsTrue
  BY DEF SlotInv
<1> QED
  BY <1>1, AlwaysSlot, PTL

\* One frame at most is registered, on every path through set_frame and its
\* refusals; only Windows may still be retiring another (set_frame of linux.rs,
\* macos.rs and windows.rs).
THEOREM SlotIsExclusive == ASpec => []OneAdvertisement
<1>1. SlotInv => OneAdvertisement
  <2> SUFFICES ASSUME SlotInv PROVE OneAdvertisement
    OBVIOUS
  <2>1. /\ \A f, g \in held : f = g
        /\ at = "done" => held = {} /\ \A f, g \in strays : platform = "windows" \/ f = g
        /\ at # "done" /\ platform # "windows" => strays = {}
    BY DEF SlotInv, OneHeld
  <2>2. CASE platform = "windows"
    BY <2>1, <2>2 DEF OneAdvertisement
  <2>3. CASE platform # "windows"
    BY <2>1, <2>3 DEF OneAdvertisement, Air
  <2> QED
    BY <2>2, <2>3
<1> QED
  BY <1>1, AlwaysSlot, PTL
============================================================================
