---------------------------- MODULE RotationFacts ----------------------------
(***************************************************************************)
(* What every module over the rotation needs of it: the effect of a        *)
(* shedding push, and that each of its operations keeps its types, for     *)
(* every set of frames, queue length and number of turns.                  *)
(***************************************************************************)
EXTENDS Rotation, SequenceTheorems, TLAPS

\* A shedding push keeps a queue within its capacity, appends the new item
\* and moves the others at most one place forward.
LEMMA PushSheddingFacts ==
  ASSUME NEW S, NEW q \in Seq(S), NEW x \in S, NEW cap \in Nat \ {0},
         Len(q) <= cap
  PROVE  /\ PushShedding(q, x, cap) \in Seq(S)
         /\ Len(PushShedding(q, x, cap)) = IF Len(q) = cap THEN cap ELSE Len(q) + 1
         /\ \A i \in 1 .. Len(PushShedding(q, x, cap)) :
              PushShedding(q, x, cap)[i] =
                IF i = Len(PushShedding(q, x, cap)) THEN x
                ELSE IF Len(q) = cap THEN q[i + 1] ELSE q[i]
<1>1. CASE Len(q) = cap
  <2>1. q # << >>
    BY <1>1
  <2>2. /\ Tail(q) \in Seq(S)
        /\ Len(Tail(q)) = cap - 1
        /\ \A i \in 1 .. cap - 1 : Tail(q)[i] = q[i + 1]
    BY <1>1, <2>1
  <2>. QED
    BY <1>1, <2>2 DEF PushShedding
<1>2. CASE Len(q) # cap
  BY <1>2 DEF PushShedding
<1>. QED
  BY <1>1, <1>2

\* A new rotation is empty.
LEMMA RotationStartsTyped == Init => TypeOK
<1> SUFFICES ASSUME Init PROVE TypeOK
  OBVIOUS
<1>1. relays \in Seq(Frames) /\ Len(relays) = 0
  BY EmptySeq DEF Init
<1>2. last_was_own \in BOOLEAN
  BY DEF Init
<1> QED
  BY <1>1, <1>2, BudgetAssumption, QueueAssumption DEF Init, TypeOK

\* enqueue_own: the own message is there exactly while it has turns left.
LEMMA EnqueueOwnKeepsType ==
  ASSUME TypeOK, NEW frame \in Frames, EnqueueOwn(frame)
  PROVE  TypeOK'
BY FrameAssumption, BudgetAssumption DEF TypeOK, EnqueueOwn

\* enqueue_relay: no more than RELAY_QUEUE relays wait.
LEMMA EnqueueRelayKeepsType ==
  ASSUME TypeOK, NEW frame \in Frames, EnqueueRelay(frame)
  PROVE  TypeOK'
<1>1. relays' \in Seq(Frames) /\ Len(relays') <= RELAY_QUEUE
  BY PushSheddingFacts, QueueAssumption DEF TypeOK, EnqueueRelay
<1>2. UNCHANGED <<own, dwells_left, last_was_own, turn>>
  BY DEF EnqueueRelay
<1> QED
  BY <1>1, <1>2 DEF TypeOK

\* next_frame: the turn left is never taken below zero, and what is returned is
\* a frame or nothing.
LEMMA NextFrameKeepsType ==
  ASSUME TypeOK, NextFrame
  PROVE  TypeOK'
<1>1. CASE ServeRelay
  <2>1. relays # << >>
    BY <1>1 DEF ServeRelay, RelayTurn
  <2>2. /\ Head(relays) \in Frames /\ Tail(relays) \in Seq(Frames)
        /\ Len(Tail(relays)) <= RELAY_QUEUE
    BY <2>1, QueueAssumption DEF TypeOK
  <2> QED
    BY <1>1, <2>2 DEF TypeOK, ServeRelay
<1>2. CASE ServeOwn
  BY <1>2, BudgetAssumption, FrameAssumption DEF TypeOK, ServeOwn
<1>3. CASE ServeNothing
  BY <1>3 DEF TypeOK, ServeNothing, rotation
<1> QED
  BY <1>1, <1>2, <1>3 DEF NextFrame
============================================================================
