---------------------------- MODULE BoardProofs ----------------------------
(***************************************************************************)
(* The tasks of a board, proved for every capacity of their channels and   *)
(* any number of reports, presses and refusals.  Four arguments that share *)
(* nothing but the steps: what the display still shows, what the speaker   *)
(* still announces, what becomes of a request, and the belief of the radio *)
(* arm with the bounds of the channels.                                    *)
(***************************************************************************)
EXTENDS Board, RotationFacts

(***************************************************************************)
(* Which steps touch which part of the state.                              *)
(***************************************************************************)

\* Only these steps concern the display's channel.
ShownBy == <<display_msgs, delivered, scrolled>>

LEMMA ScreenSteps == [BNext]_bvars => [EnqueueDisplay \/ Scroll]_ShownBy
<1> SUFFICES ASSUME [BNext]_bvars PROVE [EnqueueDisplay \/ Scroll]_ShownBy
  OBVIOUS
<1> USE DEF ShownBy
<1>1. UNCHANGED screen => UNCHANGED ShownBy
  BY DEF screen
<1>2. CASE Hear
  BY <1>1, <1>2 DEF Hear
<1>3. CASE Key
  BY <1>3 DEF Key
<1>4. ASSUME NEW b \in Sources, Press(b) \/ Submit(b) PROVE UNCHANGED ShownBy
  BY <1>1, <1>4 DEF Press, Submit
<1>5. CASE RouteFrame
  BY <1>1, <1>5 DEF RouteFrame, Deliver
<1>6. CASE RouteRequest
  BY <1>1, <1>6 DEF RouteRequest
<1>7. CASE SendOut
  BY <1>1, <1>7 DEF SendOut
<1>8. CASE AdvertiseArm \/ HostRetires
  BY <1>1, <1>8 DEF AdvertiseArm, HostRetires
<1>9. CASE DisplayTask
  BY <1>9 DEF DisplayTask, Flash, Scroll, DisplayDone
<1>10. CASE SpeakerTask
  BY <1>1, <1>10 DEF SpeakerTask
<1>11. CASE UNCHANGED bvars
  BY <1>1, <1>11 DEF bvars
<1> QED
  BY <1>2, <1>3, <1>4, <1>5, <1>6, <1>7, <1>8, <1>9, <1>10, <1>11 DEF BNext, RouterTask

\* Only these steps concern the chimes.
HeardBy == <<chimes, unannounced>>

LEMMA SoundSteps == [BNext]_bvars => [Chime \/ PlayChime]_HeardBy
<1> SUFFICES ASSUME [BNext]_bvars PROVE [Chime \/ PlayChime]_HeardBy
  OBVIOUS
<1> USE DEF HeardBy
<1>1. UNCHANGED sound => UNCHANGED HeardBy
  BY DEF sound
<1>2. CASE Hear
  BY <1>1, <1>2 DEF Hear
<1>3. CASE Key
  BY <1>3 DEF Key
<1>4. ASSUME NEW b \in Sources, Press(b) \/ Submit(b) PROVE UNCHANGED HeardBy
  BY <1>1, <1>4 DEF Press, Submit
<1>5. CASE RouteFrame
  BY <1>1, <1>5 DEF RouteFrame, Deliver
<1>6. CASE RouteRequest
  BY <1>1, <1>6 DEF RouteRequest
<1>7. CASE SendOut
  BY <1>1, <1>7 DEF SendOut
<1>8. CASE AdvertiseArm \/ HostRetires
  BY <1>1, <1>8 DEF AdvertiseArm, HostRetires
<1>9. CASE DisplayTask
  BY <1>1, <1>9 DEF DisplayTask
<1>10. CASE SpeakerTask
  BY <1>10 DEF SpeakerTask, PlayTone, SpeakerDone
<1>11. CASE UNCHANGED bvars
  BY <1>1, <1>11 DEF bvars
<1> QED
  BY <1>2, <1>3, <1>4, <1>5, <1>6, <1>7, <1>8, <1>9, <1>10, <1>11 DEF BNext, RouterTask

----------------------------------------------------------------------------
(***************************************************************************)
(* The speaker.                                                            *)
(***************************************************************************)

Announced ==
  /\ chimes \in 0 .. CHIMES
  /\ unannounced \in Nat
  /\ TelegramHasChime

LEMMA AlwaysAnnounced == BSpec => []Announced
<1>0. CHIMES \in Nat \ {0}
  BY ChannelsAssumption
<1>1. BInit => Announced
  BY <1>0 DEF BInit, Announced, TelegramHasChime
<1>2. Announced /\ [Chime \/ PlayChime]_HeardBy => Announced'
  <2> SUFFICES ASSUME Announced, [Chime \/ PlayChime]_HeardBy PROVE Announced'
    OBVIOUS
  <2> USE DEF Announced, TelegramHasChime
  <2>1. CASE Chime
    BY <1>0, <2>1 DEF Chime
  <2>2. CASE PlayChime
    BY <1>0, <2>2 DEF PlayChime
  <2>3. CASE UNCHANGED HeardBy
    BY <2>3 DEF HeardBy
  <2> QED
    BY <2>1, <2>2, <2>3
<1> QED
  BY <1>1, <1>2, SoundSteps, PTL DEF BSpec

\* A telegram to this node that no chime has announced always has one coming:
\* a chime dropped for a full channel is covered by the one that waits there
\* (deliver, CHIMES.try_send).
THEOREM TelegramIsAnnounced == BSpec => []TelegramHasChime
<1>1. Announced => TelegramHasChime
  BY DEF Announced
<1> QED
  BY <1>1, AlwaysAnnounced, PTL

----------------------------------------------------------------------------
(***************************************************************************)
(* The display.                                                            *)
(***************************************************************************)

\* How many of the messages given to the display are still to be scrolled.
Kept == IF delivered - scrolled < DISPLAY_MSGS THEN delivered - scrolled ELSE DISPLAY_MSGS

\* The channel holds the last `Kept` numbers, in order.
Latest ==
  /\ delivered \in Nat /\ scrolled \in 0 .. delivered
  /\ display_msgs = [i \in 1 .. Kept |-> delivered - Kept + i]

LEMMA LatestFacts ==
  ASSUME Latest
  PROVE  /\ Kept \in Nat /\ Kept <= DISPLAY_MSGS /\ Kept <= delivered - scrolled
         /\ display_msgs \in Seq(Int) /\ Len(display_msgs) = Kept
         /\ \A i \in 1 .. Kept : display_msgs[i] = delivered - Kept + i
<1>1. DISPLAY_MSGS \in Nat \ {0}
  BY ChannelsAssumption
<1>2. Kept \in Nat /\ Kept <= DISPLAY_MSGS /\ Kept <= delivered - scrolled
  BY <1>1 DEF Latest, Kept
<1>3. delivered \in Nat /\ display_msgs = [i \in 1 .. Kept |-> delivered - Kept + i]
  BY DEF Latest
<1>4. display_msgs \in [1 .. Kept -> Int]
  BY <1>2, <1>3
<1>5. display_msgs \in Seq(Int) /\ Len(display_msgs) = Kept
  BY <1>2, <1>4
<1> QED
  BY <1>2, <1>3, <1>5

\* A message more: the oldest number leaves when all the room is taken.
LEMMA EnqueueKeepsLatest ==
  ASSUME Latest, EnqueueDisplay
  PROVE  Latest'
<1> DEFINE D == DISPLAY_MSGS
<1>1. /\ D \in Nat \ {0}
      /\ delivered \in Nat /\ scrolled \in 0 .. delivered
  BY ChannelsAssumption DEF Latest
<1>2. /\ Kept \in Nat /\ Kept <= D
      /\ display_msgs \in Seq(Int) /\ Len(display_msgs) = Kept
      /\ \A i \in 1 .. Kept : display_msgs[i] = delivered - Kept + i
  BY LatestFacts
<1>3. /\ delivered' = delivered + 1 /\ scrolled' = scrolled
      /\ display_msgs' = PushShedding(display_msgs, delivered + 1, D)
  BY DEF EnqueueDisplay
<1>4. PICK after \in Seq(Int) :
        /\ after = PushShedding(display_msgs, delivered + 1, D)
        /\ Len(after) = IF Len(display_msgs) = D THEN D ELSE Len(display_msgs) + 1
        /\ \A i \in 1 .. Len(after) :
             after[i] = IF i = Len(after) THEN delivered + 1
                        ELSE IF Len(display_msgs) = D THEN display_msgs[i + 1]
                             ELSE display_msgs[i]
  <2> DEFINE S == Int
             x == delivered + 1
             new == PushShedding(display_msgs, x, D)
  <2>1. x \in S /\ display_msgs \in Seq(S) /\ Len(display_msgs) <= D /\ D \in Nat \ {0}
    BY <1>1, <1>2
  <2> HIDE DEF S, x, D
  <2>2. new \in Seq(S)
    BY <2>1, PushSheddingFacts
  <2>3. Len(new) = IF Len(display_msgs) = D THEN D ELSE Len(display_msgs) + 1
    BY <2>1, PushSheddingFacts
  <2>4. \A i \in 1 .. Len(new) :
          new[i] = IF i = Len(new) THEN x
                   ELSE IF Len(display_msgs) = D THEN display_msgs[i + 1]
                        ELSE display_msgs[i]
    BY <2>1, PushSheddingFacts
  <2> HIDE DEF new
  <2>5. new = PushShedding(display_msgs, delivered + 1, D)
    BY DEF new, x
  <2> QED
    BY <2>2, <2>3, <2>4, <2>5 DEF S, x
<1>5. Kept' = IF Kept = D THEN D ELSE Kept + 1
  BY <1>1, <1>3 DEF Kept
<1> HIDE DEF D
<1>6. Len(after) = Kept'
  BY <1>2, <1>4, <1>5
<1>7. ASSUME NEW i \in 1 .. Kept' PROVE after[i] = delivered' - Kept' + i
  <2>1. CASE i = Kept'
    BY <1>1, <1>2, <1>3, <1>4, <1>5, <1>6, <2>1
  <2>2. CASE i # Kept' /\ Kept = D
    <3>0. i \in 1 .. Len(after) /\ i # Len(after) /\ Len(display_msgs) = D
      BY <1>2, <1>6, <2>2
    <3>1. i + 1 \in 1 .. Kept /\ after[i] = display_msgs[i + 1]
      BY <1>1, <1>2, <1>4, <1>5, <2>2, <3>0
    <3>2. display_msgs[i + 1] = delivered - Kept + (i + 1)
      BY <1>2, <3>1
    <3> QED
      BY <1>1, <1>2, <1>3, <1>5, <2>2, <3>1, <3>2
  <2>3. CASE i # Kept' /\ Kept # D
    <3>0. i \in 1 .. Len(after) /\ i # Len(after) /\ Len(display_msgs) # D
      BY <1>2, <1>6, <2>3
    <3>1. i \in 1 .. Kept /\ after[i] = display_msgs[i]
      BY <1>1, <1>2, <1>4, <1>5, <2>3, <3>0
    <3>2. display_msgs[i] = delivered - Kept + i
      BY <1>2, <3>1
    <3> QED
      BY <1>1, <1>2, <1>3, <1>5, <2>3, <3>1, <3>2
  <2> QED
    BY <2>1, <2>2, <2>3
<1>8. after = [i \in 1 .. Kept' |-> after[i]]
  BY <1>6, LenProperties
<1>9. display_msgs' = [i \in 1 .. Kept' |-> delivered' - Kept' + i]
  BY <1>3, <1>4, <1>7, <1>8
<1>10. delivered' \in Nat /\ scrolled' \in 0 .. delivered'
  BY <1>1, <1>3
<1> QED
  BY <1>9, <1>10 DEF Latest

\* The display takes the oldest number that is left.
LEMMA ScrollKeepsLatest ==
  ASSUME Latest, Scroll
  PROVE  Latest'
<1> DEFINE D == DISPLAY_MSGS
<1>1. /\ D \in Nat \ {0}
      /\ delivered \in Nat /\ scrolled \in 0 .. delivered
  BY ChannelsAssumption DEF Latest
<1>2. /\ Kept \in Nat /\ Kept <= D /\ Kept <= delivered - scrolled
      /\ display_msgs \in Seq(Int) /\ Len(display_msgs) = Kept
      /\ \A i \in 1 .. Kept : display_msgs[i] = delivered - Kept + i
  BY LatestFacts
<1>3. /\ display_msgs # << >>
      /\ delivered' = delivered /\ scrolled' = Head(display_msgs)
      /\ display_msgs' = Tail(display_msgs)
  BY DEF Scroll
<1>4. /\ Tail(display_msgs) \in Seq(Int) /\ Len(Tail(display_msgs)) = Kept - 1
      /\ \A i \in 1 .. Kept - 1 : Tail(display_msgs)[i] = display_msgs[i + 1]
      /\ Head(display_msgs) = display_msgs[1]
  BY <1>2, <1>3, HeadTailProperties
<1>5. Kept >= 1
  BY <1>2, <1>3, EmptySeq
<1>6. scrolled' = delivered - Kept + 1
  BY <1>2, <1>3, <1>4, <1>5
<1>7. Kept' = Kept - 1
  BY <1>1, <1>2, <1>3, <1>5, <1>6 DEF Kept
<1> HIDE DEF D
<1>8. ASSUME NEW i \in 1 .. Kept' PROVE display_msgs'[i] = delivered' - Kept' + i
  <2>1. i + 1 \in 1 .. Kept /\ display_msgs'[i] = display_msgs[i + 1]
    BY <1>2, <1>3, <1>4, <1>7
  <2>2. display_msgs[i + 1] = delivered - Kept + (i + 1)
    BY <1>2, <2>1
  <2> QED
    BY <1>1, <1>2, <1>3, <1>7, <2>1, <2>2
<1>9. display_msgs' = [i \in 1 .. Kept' |-> display_msgs'[i]]
  BY <1>3, <1>4, <1>7, LenProperties
<1>10. display_msgs' = [i \in 1 .. Kept' |-> delivered' - Kept' + i]
  BY <1>8, <1>9
<1>11. delivered' \in Nat /\ scrolled' \in 0 .. delivered'
  BY <1>1, <1>2, <1>3, <1>5, <1>6
<1> QED
  BY <1>10, <1>11 DEF Latest

LEMMA AlwaysLatest == BSpec => []Latest
<1>1. BInit => Latest
  <2> SUFFICES ASSUME BInit PROVE Latest
    OBVIOUS
  <2>1. delivered = 0 /\ scrolled = 0 /\ display_msgs = << >>
    BY DEF BInit
  <2>2. Kept = 0
    BY <2>1, ChannelsAssumption DEF Kept
  <2> QED
    BY <2>1, <2>2 DEF Latest
<1>2. Latest /\ [EnqueueDisplay \/ Scroll]_ShownBy => Latest'
  <2> SUFFICES ASSUME Latest, [EnqueueDisplay \/ Scroll]_ShownBy PROVE Latest'
    OBVIOUS
  <2>1. CASE UNCHANGED ShownBy
    BY <2>1 DEF ShownBy, Latest, Kept
  <2> QED
    BY <2>1, EnqueueKeepsLatest, ScrollKeepsLatest
<1> QED
  BY <1>1, <1>2, ScreenSteps, PTL DEF BSpec

\* However slow the display is, what waits for it are the latest messages, in
\* order and without a gap, as many as the channel has room for
\* (enqueue_display).
THEOREM DisplayIsCurrent == BSpec => []DisplayKeepsLatest
<1>1. Latest => DisplayKeepsLatest
  BY DEF Latest, DisplayKeepsLatest, Kept
<1> QED
  BY <1>1, AlwaysLatest, PTL

----------------------------------------------------------------------------
(***************************************************************************)
(* The requests.                                                           *)
(***************************************************************************)

Requests == {"A", "B", "text"}

\* Only these steps concern the requests and the numbers they get.
AskedBy == <<submitted, requests, originated, seq>>

LEMMA RequestSteps ==
  [BNext]_bvars => [(\E b \in Requests : Submit(b)) \/ RouteRequest]_AskedBy
<1> SUFFICES ASSUME [BNext]_bvars
             PROVE  [(\E b \in Requests : Submit(b)) \/ RouteRequest]_AskedBy
  OBVIOUS
<1> USE DEF AskedBy
<1>1. UNCHANGED <<queues, brain>> => UNCHANGED AskedBy
  BY DEF queues, brain
<1>2. CASE Hear
  BY <1>1, <1>2 DEF Hear
<1>3. CASE Key
  BY <1>1, <1>3 DEF Key
<1>4. ASSUME NEW b \in Sources, Press(b) \/ Submit(b)
      PROVE  [(\E x \in Requests : Submit(x)) \/ RouteRequest]_AskedBy
  <2>1. b \in Requests
    BY DEF Sources, Requests
  <2>2. CASE Submit(b)
    BY <2>1, <2>2
  <2>3. CASE Press(b)
    BY <2>3 DEF Press, brain
  <2> QED
    BY <1>4, <2>2, <2>3
<1>5. CASE RouteFrame
  <2>1. UNCHANGED queues
    BY <1>5 DEF RouteFrame
  <2>2. seq' = seq /\ originated' = originated
    <3>1. CASE Head(rx_frames) = Noise
      BY <1>5, <3>1 DEF RouteFrame, brain
    <3>2. CASE Head(rx_frames) # Noise
      BY <1>5, <3>2 DEF RouteFrame
    <3> QED
      BY <3>1, <3>2
  <2> QED
    BY <2>1, <2>2 DEF queues
<1>6. CASE SendOut
  BY <1>6 DEF SendOut, queues
<1>7. CASE AdvertiseArm \/ HostRetires
  BY <1>1, <1>7 DEF AdvertiseArm, HostRetires
<1>8. CASE DisplayTask \/ SpeakerTask
  BY <1>1, <1>8 DEF DisplayTask, SpeakerTask
<1>9. CASE UNCHANGED bvars
  BY <1>1, <1>9 DEF bvars
<1> QED
  BY <1>2, <1>3, <1>4, <1>5, <1>6, <1>7, <1>8, <1>9 DEF BNext, RouterTask

\* The requests that became messages.
Answered == [i \in DOMAIN originated |-> originated[i].msg.id[2]]

\* The last message has the number before the next one.
Counted ==
  /\ submitted \in Seq(Requests) /\ requests \in Seq(Requests)
  /\ Len(requests) <= REQUESTS
  /\ originated \in Seq(Frames)
  /\ Answered \in Seq(Requests)
  /\ seq \subseteq 0 .. SEQ_MOD - 1
  /\ originated # << >> =>
       seq = {(originated[Len(originated)].msg.id[1] + 1) % SEQ_MOD}
  /\ RequestsBecomeMessages

LEMMA SubmitCounts ==
  ASSUME Counted, NEW b \in Requests, Submit(b)
  PROVE  Counted'
<1>1. /\ submitted \in Seq(Requests) /\ requests \in Seq(Requests)
      /\ Answered \in Seq(Requests)
      /\ submitted = Answered \o requests
  BY DEF Counted, RequestsBecomeMessages, Answered
<1>2. /\ Len(requests) < REQUESTS
      /\ requests' = Append(requests, b) /\ submitted' = Append(submitted, b)
      /\ originated' = originated /\ seq' = seq
  BY DEF Submit, brain
<1>3. <<b>> \in Seq(Requests)
  OBVIOUS
<1>4. submitted' = Answered \o requests'
  <2>1. submitted' = (Answered \o requests) \o <<b>>
    BY <1>1, <1>2, AppendIsConcat
  <2>2. requests' = requests \o <<b>>
    BY <1>1, <1>2, AppendIsConcat
  <2> QED
    BY <1>1, <1>3, <2>1, <2>2, ConcatAssociative
<1>5. /\ submitted' \in Seq(Requests) /\ requests' \in Seq(Requests)
      /\ Len(requests') = Len(requests) + 1
  BY <1>1, <1>2, AppendProperties
<1>6. Len(requests') <= REQUESTS
  BY <1>1, <1>2, <1>5, LenProperties, ChannelsAssumption
<1>7. RequestsBecomeMessages'
  BY <1>2, <1>4 DEF Counted, RequestsBecomeMessages, Answered
<1> QED
  BY <1>2, <1>5, <1>6, <1>7 DEF Counted, Answered

LEMMA RouteRequestCounts ==
  ASSUME Counted, RouteRequest
  PROVE  Counted'
<1>1. /\ submitted \in Seq(Requests) /\ requests \in Seq(Requests)
      /\ Len(requests) <= REQUESTS
      /\ originated \in Seq(Frames) /\ Answered \in Seq(Requests)
      /\ seq \subseteq 0 .. SEQ_MOD - 1
      /\ originated # << >> =>
           seq = {(originated[Len(originated)].msg.id[1] + 1) % SEQ_MOD}
      /\ submitted = Answered \o requests
      /\ \A i \in DOMAIN originated :
           i > 1 => originated[i].msg.id[1] = (originated[i - 1].msg.id[1] + 1) % SEQ_MOD
  BY DEF Counted, RequestsBecomeMessages, Answered
<1> DEFINE first == Head(requests)
           Made(k) == R!NewPacket([src |-> Local,
                                   dest |-> IF first = "A" THEN Buddy ELSE Everyone,
                                   id |-> <<k, first>>])
           L == Len(originated)
<1>2. PICK next \in FirstSeq :
        /\ seq' = {(next + 1) % SEQ_MOD}
        /\ originated' = Append(originated, Made(next))
  BY DEF RouteRequest
<1>3. requests # << >> /\ requests' = Tail(requests) /\ submitted' = submitted
  BY DEF RouteRequest
<1>4. next \in 0 .. SEQ_MOD - 1 /\ (originated # << >> => next \in seq)
  <2>1. SEQ_MOD \in Nat \ {0}
    BY ChannelsAssumption
  <2> QED
    BY <1>1, <2>1 DEF FirstSeq
<1>5. /\ first \in Requests
      /\ Tail(requests) \in Seq(Requests) /\ Len(Tail(requests)) = Len(requests) - 1
      /\ \A i \in 1 .. Len(requests) - 1 : Tail(requests)[i] = requests[i + 1]
      /\ first = requests[1]
  BY <1>1, <1>3, HeadTailProperties
<1>6. /\ Made(next) \in Frames
      /\ Made(next).msg.id[1] = next /\ Made(next).msg.id[2] = first
  <2>1. Made(next) \in Frames
    BY <1>4, <1>5, ClosureAssumption DEF Requests
  <2>2. Made(next).msg = [src |-> Local,
                          dest |-> IF first = "A" THEN Buddy ELSE Everyone,
                          id |-> <<next, first>>]
    BY DEF R!NewPacket
  <2> HIDE DEF Made, first
  <2>3. Made(next).msg.id = <<next, first>>
    BY <2>2
  <2> QED
    BY <2>1, <2>3
<1> HIDE DEF Made, first
<1>7. /\ originated' \in Seq(Frames) /\ Len(originated') = L + 1
      /\ \A i \in 1 .. L : originated'[i] = originated[i]
      /\ originated'[L + 1] = Made(next)
      /\ L \in Nat /\ DOMAIN originated = 1 .. L /\ DOMAIN originated' = 1 .. L + 1
  BY <1>1, <1>2, <1>6, AppendProperties, LenProperties
<1>8. originated' # << >>
  BY <1>7, EmptySeq
<1>9. seq' = {(originated'[Len(originated')].msg.id[1] + 1) % SEQ_MOD}
  BY <1>2, <1>6, <1>7
<1>10. seq' \subseteq 0 .. SEQ_MOD - 1
  <2>1. SEQ_MOD \in Nat \ {0} /\ next + 1 \in Nat
    BY <1>4, ChannelsAssumption
  <2>2. (next + 1) % SEQ_MOD \in 0 .. SEQ_MOD - 1
    BY <2>1
  <2> QED
    BY <1>2, <2>2
<1> HIDE DEF L
<1>11. ASSUME NEW i \in 1 .. L + 1, i > 1
       PROVE  originated'[i].msg.id[1] = (originated'[i - 1].msg.id[1] + 1) % SEQ_MOD
  <2>1. CASE i = L + 1
    <3>1. originated # << >> /\ i - 1 = L /\ L \in 1 .. L
      BY <1>7, <1>11, <2>1, EmptySeq DEF L
    <3>2. next = (originated[L].msg.id[1] + 1) % SEQ_MOD
      BY <1>1, <1>4, <3>1 DEF L
    <3> QED
      BY <1>6, <1>7, <2>1, <3>1, <3>2
  <2>2. CASE i # L + 1
    <3>1. i \in 1 .. L /\ i - 1 \in 1 .. L
      BY <1>7, <1>11, <2>2
    <3> QED
      BY <1>1, <1>7, <1>11, <3>1
  <2> QED
    BY <2>1, <2>2
\* The request moves from the channel to the messages.
<1>12. Answered' = Append(Answered, first)
  <2>1. /\ Answered = [i \in 1 .. L |-> originated[i].msg.id[2]]
        /\ Answered' = [i \in 1 .. L + 1 |-> originated'[i].msg.id[2]]
    BY <1>7 DEF Answered
  <2>2. Len(Answered) = L
    BY <1>1, <1>7, <2>1, LenProperties
  <2>3. /\ Append(Answered, first) \in Seq(Requests)
        /\ Len(Append(Answered, first)) = L + 1
        /\ \A i \in 1 .. L : Append(Answered, first)[i] = Answered[i]
        /\ Append(Answered, first)[L + 1] = first
    BY <1>1, <1>5, <2>2, AppendProperties
  <2> DEFINE longer == Append(Answered, first)
  <2>4. longer = [i \in 1 .. L + 1 |-> longer[i]]
    BY <2>3, LenProperties
  <2> HIDE DEF longer
  <2>5. ASSUME NEW i \in 1 .. L + 1 PROVE longer[i] = originated'[i].msg.id[2]
    <3>1. CASE i = L + 1
      BY <1>6, <1>7, <2>3, <3>1 DEF longer
    <3>2. CASE i # L + 1
      <4>1. i \in 1 .. L
        BY <1>7, <3>2
      <4>2. longer[i] = Answered[i] /\ Answered[i] = originated[i].msg.id[2]
        BY <2>1, <2>3, <4>1 DEF longer
      <4> QED
        BY <1>7, <4>1, <4>2
    <3> QED
      BY <3>1, <3>2
  <2> QED
    BY <2>1, <2>4, <2>5 DEF longer
<1>13. submitted' = Answered' \o requests' /\ Answered' \in Seq(Requests)
  <2>1. <<first>> \in Seq(Requests) /\ <<first>> \o Tail(requests) \in Seq(Requests)
    BY <1>5, ConcatProperties
  <2>2. requests = <<first>> \o Tail(requests)
    <3>1. /\ Len(<<first>>) = 1 /\ <<first>>[1] = first
          /\ Len(requests) \in Nat /\ Len(requests) >= 1
      BY <1>1, <1>3, EmptySeq, LenProperties
    <3> DEFINE both == <<first>> \o Tail(requests)
    <3>2. /\ Len(both) = 1 + Len(Tail(requests))
          /\ \A i \in 1 .. 1 + Len(Tail(requests)) :
               both[i] = IF i <= 1 THEN <<first>>[i] ELSE Tail(requests)[i - 1]
      BY <1>5, <2>1, <3>1, ConcatProperties
    <3> HIDE DEF both
    <3>3. ASSUME NEW i \in 1 .. Len(requests) PROVE both[i] = requests[i]
      <4>1. CASE i = 1
        BY <1>5, <3>1, <3>2, <4>1
      <4>2. CASE i # 1
        <5>1. /\ i - 1 \in 1 .. Len(requests) - 1 /\ (i - 1) + 1 = i /\ ~ (i <= 1)
              /\ i \in 1 .. 1 + Len(Tail(requests))
          BY <1>5, <3>1, <4>2
        <5> QED
          BY <1>5, <3>2, <5>1
      <4> QED
        BY <4>1, <4>2
    <3>4. Len(both) = Len(requests)
      BY <1>5, <3>1, <3>2
    <3>5. both \in Seq(Requests)
      BY <2>1 DEF both
    <3>6. both = requests
      BY <1>1, <3>3, <3>4, <3>5, SeqEqual
    <3> QED
      BY <3>6 DEF both
  <2>3. Answered' = Answered \o <<first>>
    BY <1>1, <1>5, <1>12, AppendIsConcat
  <2>4. (Answered \o <<first>>) \o Tail(requests) = Answered \o (<<first>> \o Tail(requests))
    BY <1>1, <1>5, <2>1, ConcatAssociative
  <2>5. Answered' \in Seq(Requests)
    BY <1>1, <1>5, <1>12, AppendProperties
  <2> QED
    BY <1>1, <1>3, <2>2, <2>3, <2>4, <2>5
<1>14. RequestsBecomeMessages'
  BY <1>7, <1>11, <1>13 DEF RequestsBecomeMessages, Answered
<1>15. Len(requests') <= REQUESTS
  BY <1>1, <1>3, <1>5, LenProperties, ChannelsAssumption
<1> QED
  BY <1>1, <1>3, <1>5, <1>7, <1>9, <1>10, <1>13, <1>14, <1>15 DEF Counted

LEMMA AlwaysCounted == BSpec => []Counted
<1>1. BInit => Counted
  <2> SUFFICES ASSUME BInit PROVE Counted
    OBVIOUS
  <2>1. submitted = << >> /\ requests = << >> /\ originated = << >> /\ seq = {}
    BY DEF BInit
  <2>2. Answered = << >>
    BY <2>1 DEF Answered
  <2>3. << >> \in Seq(Requests) /\ << >> \in Seq(Frames) /\ Len(<< >>) = 0
    BY EmptySeq
  <2>4. << >> \o << >> = << >>
    BY <2>3, ConcatEmptySeq
  <2>5. RequestsBecomeMessages
    BY <2>1, <2>2, <2>4 DEF RequestsBecomeMessages, Answered
  <2>6. Len(requests) <= REQUESTS
    BY <2>1, <2>3, ChannelsAssumption
  <2> QED
    BY <2>1, <2>2, <2>3, <2>5, <2>6 DEF Counted
<1>2. Counted /\ [(\E b \in Requests : Submit(b)) \/ RouteRequest]_AskedBy => Counted'
  <2> SUFFICES ASSUME Counted, [(\E b \in Requests : Submit(b)) \/ RouteRequest]_AskedBy
               PROVE  Counted'
    OBVIOUS
  <2>1. CASE UNCHANGED AskedBy
    BY <2>1 DEF AskedBy, Counted, RequestsBecomeMessages, Answered
  <2> QED
    BY <2>1, SubmitCounts, RouteRequestCounts
<1> QED
  BY <1>1, <1>2, RequestSteps, PTL DEF BSpec

\* Every request becomes one message, in the order of the channel, each under
\* the number after the one before (router_task, next_seq).
THEOREM NoRequestIsLost == BSpec => []RequestsBecomeMessages
<1>1. Counted => RequestsBecomeMessages
  BY DEF Counted
<1> QED
  BY <1>1, AlwaysCounted, PTL

----------------------------------------------------------------------------
(***************************************************************************)
(* The radio, from the channels it is fed by to the frame on air.          *)
(***************************************************************************)

Sendable == [class : {"own", "relay"}, frame : Frames]

\* What waits on the way to the antenna and on the way from it.
ChannelsHold ==
  /\ rx_frames \in Seq(Frames \cup {Noise}) /\ Len(rx_frames) <= RX_FRAMES
  /\ outgoing \in Seq(Sendable) /\ Len(outgoing) <= OUTGOING
  /\ sending \in Seq(Sendable) /\ Len(sending) <= 1

\* The belief of the arm: it is about the frame behind the handle, except
\* while advertise_ext is under way, when there is none.
ArmHolds ==
  /\ TypeOK
  /\ at \in {"turn", "idle", "start", "dwell"}
  /\ held \subseteq Frames /\ strays \subseteq Frames
  /\ on_air \in Frames \cup {NoFrame}
  /\ at = "start" => held = {} /\ turn \in Frames
  /\ at # "start" /\ on_air # NoFrame => held = {on_air}
  /\ at = "dwell" => on_air \in {turn, NoFrame}

RadioInv == ChannelsHold /\ ArmHolds

\* What an action of the arm takes from OUTGOING, and what it leaves as it is.
LEMMA ArmKeepsChannels ==
  ASSUME ChannelsHold, Arm, UNCHANGED brain
  PROVE  ChannelsHold'
<1>1. rx_frames' = rx_frames /\ sending' = sending
  BY DEF Arm, TakeTurn, Receive, Advertise, AdvertiseFails, DwellEnds, brain
<1>2. outgoing' \in Seq(Sendable) /\ Len(outgoing') <= OUTGOING
  <2>1. CASE Receive
    <3>1. outgoing # << >> /\ outgoing' = Tail(outgoing)
      BY <2>1 DEF Receive
    <3>2. outgoing' \in Seq(Sendable) /\ Len(outgoing') = Len(outgoing) - 1
      BY <3>1, HeadTailProperties DEF ChannelsHold
    <3> QED
      BY <3>2, LenProperties, ChannelsAssumption DEF ChannelsHold
  <2>2. CASE ~ Receive
    BY <2>2 DEF Arm, TakeTurn, Advertise, AdvertiseFails, DwellEnds, ChannelsHold
  <2> QED
    BY <2>1, <2>2
<1> QED
  BY <1>1, <1>2 DEF ChannelsHold

LEMMA ArmKeepsBelief ==
  ASSUME RadioInv, Arm
  PROVE  ArmHolds'
<1>1. /\ TypeOK
      /\ at \in {"turn", "idle", "start", "dwell"}
      /\ held \subseteq Frames /\ strays \subseteq Frames
      /\ on_air \in Frames \cup {NoFrame}
      /\ at = "start" => held = {} /\ turn \in Frames
      /\ at # "start" /\ on_air # NoFrame => held = {on_air}
      /\ at = "dwell" => on_air \in {turn, NoFrame}
  BY DEF RadioInv, ArmHolds
<1>2. UNCHANGED vars => TypeOK' /\ turn' = turn
  BY <1>1 DEF TypeOK, vars, rotation
<1>3. CASE TakeTurn
  <2>1. TypeOK'
    BY <1>1, <1>3, NextFrameKeepsType DEF TakeTurn
  <2>2. turn' \in Frames \cup {NoFrame}
    BY <2>1 DEF TypeOK
  <2>3. at = "turn" /\ on_air' = on_air
    BY <1>3 DEF TakeTurn
  <2>4. CASE turn' \notin {NoFrame, on_air}
    <3>1. at' = "start" /\ held' = {} /\ strays' = strays \cup held
      BY <1>3, <2>4 DEF TakeTurn
    <3> QED
      BY <1>1, <2>1, <2>2, <2>3, <2>4, <3>1 DEF ArmHolds
  <2>5. CASE turn' \in {NoFrame, on_air}
    <3>1. at' \in {"idle", "dwell"} /\ held' = held /\ strays' = strays
      BY <1>3, <2>5 DEF TakeTurn
    <3>2. at' = "dwell" => turn' = on_air
      BY <1>3, <2>5 DEF TakeTurn
    <3> QED
      BY <1>1, <2>1, <2>3, <3>1, <3>2 DEF ArmHolds
  <2> QED
    BY <2>4, <2>5
<1>4. CASE Receive
  <2>1. Head(outgoing) \in Sendable
    BY <1>4, HeadTailProperties DEF Receive, RadioInv, ChannelsHold
  <2>2. Head(outgoing).frame \in Frames
    BY <2>1 DEF Sendable
  <2>3. TypeOK' /\ turn' = turn
    BY <1>1, <1>4, <2>2, EnqueueOwnKeepsType, EnqueueRelayKeepsType
       DEF Receive, Enqueue, EnqueueOwn, EnqueueRelay
  <2>4. at' \in {"turn", "dwell"} /\ at # "start" /\ (at' = "dwell" => at = "dwell")
    BY <1>4 DEF Receive
  <2> QED
    BY <1>1, <1>4, <2>3, <2>4 DEF Receive, ArmHolds
<1>5. CASE Advertise
  BY <1>1, <1>2, <1>5 DEF Advertise, ArmHolds
<1>6. CASE AdvertiseFails
  BY <1>1, <1>2, <1>6 DEF AdvertiseFails, ArmHolds
<1>7. CASE DwellEnds
  BY <1>1, <1>2, <1>7 DEF DwellEnds, ArmHolds
<1> QED
  BY <1>3, <1>4, <1>5, <1>6, <1>7 DEF Arm

\* A frame heard, or echoed, waits for the router task: the oldest is shed.
LEMMA HearKeepsChannels ==
  ASSUME RadioInv, Hear
  PROVE  ChannelsHold'
<1> DEFINE S == Frames \cup {Noise}
<1>1. PICK frame \in Incoming \cup held \cup {Noise} : OnReport(frame)
  BY DEF Hear
<1>2. frame \in S
  BY <1>1, ClosureAssumption DEF RadioInv, ArmHolds
<1>3. rx_frames' = PushShedding(rx_frames, frame, RX_FRAMES)
  BY <1>1 DEF OnReport
<1>4. rx_frames \in Seq(S) /\ Len(rx_frames) <= RX_FRAMES /\ RX_FRAMES \in Nat \ {0}
  BY ChannelsAssumption DEF RadioInv, ChannelsHold
<1> HIDE DEF S
<1> DEFINE new == PushShedding(rx_frames, frame, RX_FRAMES)
<1>5. /\ new \in Seq(S)
      /\ Len(new) = IF Len(rx_frames) = RX_FRAMES THEN RX_FRAMES ELSE Len(rx_frames) + 1
  BY <1>2, <1>4, PushSheddingFacts
<1> HIDE DEF new
<1>6. Len(new) <= RX_FRAMES
  BY <1>4, <1>5, LenProperties
<1>7. rx_frames' \in Seq(S) /\ Len(rx_frames') <= RX_FRAMES
  BY <1>3, <1>5, <1>6 DEF new
<1>8. outgoing' = outgoing /\ sending' = sending
  BY <1>1 DEF Hear, OnReport, brain
<1> QED
  BY <1>7, <1>8 DEF RadioInv, ChannelsHold, S

\* What the router task makes of a frame or of a request is a frame again.
LEMMA RouterKeepsChannels ==
  ASSUME RadioInv, Counted, RouterTask
  PROVE  ChannelsHold'
<1>1. /\ rx_frames \in Seq(Frames \cup {Noise}) /\ Len(rx_frames) <= RX_FRAMES
      /\ outgoing \in Seq(Sendable) /\ Len(outgoing) <= OUTGOING
      /\ sending \in Seq(Sendable) /\ Len(sending) <= 1
      /\ RX_FRAMES \in Nat /\ OUTGOING \in Nat
  BY ChannelsAssumption DEF RadioInv, ChannelsHold
<1>2. ASSUME NEW f \in Frames, NEW c \in {"own", "relay"}
      PROVE  /\ <<[class |-> c, frame |-> f]>> \in Seq(Sendable)
             /\ Len(<<[class |-> c, frame |-> f]>>) = 1
  BY DEF Sendable
<1>3. << >> \in Seq(Sendable) /\ Len(<< >>) = 0
  BY EmptySeq
<1>4. CASE RouteFrame
  <2> DEFINE frame == Head(rx_frames)
  <2>1. rx_frames # << >> /\ rx_frames' = Tail(rx_frames) /\ outgoing' = outgoing
    BY <1>4 DEF RouteFrame
  <2>2. /\ frame \in Frames \cup {Noise}
        /\ rx_frames' \in Seq(Frames \cup {Noise}) /\ Len(rx_frames') = Len(rx_frames) - 1
    BY <1>1, <2>1, HeadTailProperties
  <2>3. Len(rx_frames') <= RX_FRAMES
    BY <1>1, <2>2, LenProperties
  <2>4. sending' \in Seq(Sendable) /\ Len(sending') <= 1
    <3>1. CASE frame = Noise
      BY <1>1, <1>4, <3>1 DEF RouteFrame, brain
    <3>2. CASE frame # Noise /\ R!Forwards(Local, seen, frame)
      <4>1. R!Hopped(frame) \in Frames
        BY <2>2, <3>2, ClosureAssumption DEF R!Forwards
      <4>2. sending' = <<[class |-> "relay", frame |-> R!Hopped(frame)]>>
        BY <1>4, <3>2 DEF RouteFrame
      <4>3. \E f \in Frames : sending' = <<[class |-> "relay", frame |-> f]>>
        BY <4>1, <4>2
      <4>4. sending' \in Seq(Sendable) /\ Len(sending') = 1
        BY <1>2, <4>3
      <4> QED
        BY <4>4
    <3>3. CASE frame # Noise /\ ~ R!Forwards(Local, seen, frame)
      <4>1. sending' = << >>
        BY <1>4, <3>3 DEF RouteFrame
      <4> QED
        BY <1>3, <4>1
    <3> QED
      BY <3>1, <3>2, <3>3
  <2> QED
    BY <1>1, <2>1, <2>2, <2>3, <2>4 DEF ChannelsHold
<1>5. CASE RouteRequest
  <2>1. requests # << >> /\ requests \in Seq(Requests) /\ seq \subseteq 0 .. SEQ_MOD - 1
    BY <1>5 DEF RouteRequest, Counted
  <2>2. Head(requests) \in {"A", "B", "text"}
    BY <2>1, HeadTailProperties DEF Requests
  <2>3. FirstSeq \subseteq 0 .. SEQ_MOD - 1
    BY <2>1 DEF FirstSeq
  <2>4. \E packet \in Frames : sending' = <<[class |-> "own", frame |-> packet]>>
    BY <1>5, <2>2, <2>3, ClosureAssumption DEF RouteRequest
  <2>5. sending' \in Seq(Sendable) /\ Len(sending') = 1
    BY <1>2, <2>4
  <2>6. rx_frames' = rx_frames /\ outgoing' = outgoing
    BY <1>5 DEF RouteRequest, radio
  <2> QED
    BY <1>1, <2>5, <2>6 DEF ChannelsHold
<1>6. CASE SendOut
  <2>1. /\ sending # << >> /\ Len(outgoing) < OUTGOING
        /\ outgoing' = Append(outgoing, Head(sending))
        /\ sending' = << >> /\ rx_frames' = rx_frames
    BY <1>6 DEF SendOut
  <2>2. Head(sending) \in Sendable
    BY <1>1, <2>1, HeadTailProperties
  <2>3. outgoing' \in Seq(Sendable) /\ Len(outgoing') = Len(outgoing) + 1
    BY <1>1, <2>1, <2>2, AppendProperties
  <2>4. Len(outgoing') <= OUTGOING
    BY <1>1, <2>1, <2>3, LenProperties
  <2> QED
    BY <1>1, <1>3, <2>1, <2>3, <2>4 DEF ChannelsHold
<1> QED
  BY <1>4, <1>5, <1>6 DEF RouterTask

\* Nothing but the arm and the host touches the belief.
LEMMA BesideArm ==
  ASSUME ArmHolds, UNCHANGED arm, UNCHANGED strays
  PROVE  ArmHolds'
BY DEF ArmHolds, TypeOK, arm, vars, rotation

LEMMA AlwaysRadio == BSpec => []RadioInv
<1>1. BInit => RadioInv
  <2> SUFFICES ASSUME BInit PROVE RadioInv
    OBVIOUS
  <2>1. TypeOK
    BY RotationStartsTyped DEF BInit, RInit
  <2>2. ArmHolds
    BY <2>1 DEF BInit, RInit, ArmHolds
  <2>3. rx_frames = << >> /\ outgoing = << >> /\ sending = << >>
    BY DEF BInit, RInit
  <2>4. /\ << >> \in Seq(Frames \cup {Noise}) /\ << >> \in Seq(Sendable)
        /\ Len(<< >>) = 0
    BY EmptySeq
  <2>5. ChannelsHold
    BY <2>3, <2>4, ChannelsAssumption DEF ChannelsHold
  <2> QED
    BY <2>2, <2>5 DEF RadioInv
<1>2. RadioInv /\ Counted /\ [BNext]_bvars => RadioInv'
  <2> SUFFICES ASSUME RadioInv, Counted, [BNext]_bvars PROVE RadioInv'
    OBVIOUS
  <2>1. ChannelsHold /\ ArmHolds
    BY DEF RadioInv
  <2>2. UNCHANGED <<radio, brain>> => RadioInv'
    BY <2>1, BesideArm DEF radio, brain, ChannelsHold, RadioInv
  <2>3. CASE Hear
    <3>1. UNCHANGED arm /\ UNCHANGED strays
      BY <2>3 DEF Hear, OnReport
    <3> QED
      BY <2>1, <2>3, <3>1, HearKeepsChannels, BesideArm DEF RadioInv
  <2>4. CASE Key
    BY <2>2, <2>4 DEF Key
  <2>5. ASSUME NEW b \in Sources, Press(b) \/ Submit(b) PROVE RadioInv'
    BY <2>2, <2>5 DEF Press, Submit
  <2>6. CASE RouterTask
    <3>1. UNCHANGED arm /\ UNCHANGED strays
      BY <2>6 DEF RouterTask, RouteFrame, RouteRequest, SendOut, radio
    <3> QED
      BY <2>1, <2>6, <3>1, RouterKeepsChannels, BesideArm DEF RadioInv
  <2>7. CASE AdvertiseArm
    BY <2>1, <2>7, ArmKeepsChannels, ArmKeepsBelief DEF AdvertiseArm, RadioInv
  <2>8. CASE HostRetires
    <3>1. ChannelsHold'
      BY <2>1, <2>8 DEF HostRetires, Retire, brain, ChannelsHold
    <3>2. UNCHANGED arm /\ strays' = {}
      BY <2>8 DEF HostRetires, Retire
    <3>3. ArmHolds'
      BY <2>1, <3>2 DEF ArmHolds, TypeOK, arm, vars, rotation
    <3> QED
      BY <3>1, <3>3 DEF RadioInv
  <2>9. CASE DisplayTask \/ SpeakerTask
    BY <2>2, <2>9 DEF DisplayTask, SpeakerTask
  <2>10. CASE UNCHANGED bvars
    BY <2>2, <2>10 DEF bvars
  <2> QED
    BY <2>3, <2>4, <2>5, <2>6, <2>7, <2>8, <2>9, <2>10 DEF BNext
<1> QED
  BY <1>1, <1>2, AlwaysCounted, PTL DEF BSpec

\* Glyphs and tones that find their channel full are dropped.
Dropping == glyphs \in 0 .. GLYPHS /\ sidetone \in 0 .. SIDETONE

LEMMA AlwaysDropping == BSpec => []Dropping
<1>0. GLYPHS \in Nat \ {0} /\ SIDETONE \in Nat \ {0}
  BY ChannelsAssumption
<1>1. BInit => Dropping
  BY <1>0 DEF BInit, Dropping
<1>2. Dropping /\ [BNext]_bvars => Dropping'
  <2> SUFFICES ASSUME Dropping, [BNext]_bvars PROVE Dropping'
    OBVIOUS
  <2> USE DEF Dropping
  <2>1. UNCHANGED screen => glyphs' = glyphs
    BY DEF screen
  <2>2. UNCHANGED sound => sidetone' = sidetone
    BY DEF sound
  <2>3. CASE Hear
    BY <2>1, <2>2, <2>3 DEF Hear
  <2>4. CASE Key
    BY <1>0, <2>4 DEF Key
  <2>5. ASSUME NEW b \in Sources, Press(b) \/ Submit(b) PROVE Dropping'
    BY <2>1, <2>2, <2>5 DEF Press, Submit
  <2>6. CASE RouteFrame
    BY <2>1, <2>2, <2>6 DEF RouteFrame, Deliver, Chime, EnqueueDisplay
  <2>7. CASE RouteRequest
    BY <2>1, <2>2, <2>7 DEF RouteRequest
  <2>8. CASE SendOut
    BY <2>1, <2>2, <2>8 DEF SendOut, EnqueueDisplay
  <2>9. CASE AdvertiseArm \/ HostRetires
    BY <2>1, <2>2, <2>9 DEF AdvertiseArm, HostRetires
  <2>10. CASE DisplayTask
    BY <1>0, <2>2, <2>10 DEF DisplayTask, Flash, Scroll, DisplayDone
  <2>11. CASE SpeakerTask
    BY <1>0, <2>1, <2>11 DEF SpeakerTask, PlayChime, PlayTone, SpeakerDone
  <2>12. CASE UNCHANGED bvars
    BY <2>1, <2>2, <2>12 DEF bvars
  <2> QED
    BY <2>3, <2>4, <2>5, <2>6, <2>7, <2>8, <2>9, <2>10, <2>11, <2>12
       DEF BNext, RouterTask
<1> QED
  BY <1>1, <1>2, PTL DEF BSpec

\* However often the controller refuses, whenever the arm reads its belief the
\* frame it names is behind the handle, and no channel outgrows its capacity
\* (radio.rs, on_air).
THEOREM BoardBeliefHolds == BSpec => []BoardBeliefIsTrue
<1>1. RadioInv /\ Counted /\ Latest /\ Announced /\ Dropping => BoardBeliefIsTrue
  <2> SUFFICES ASSUME RadioInv, Counted, Latest, Announced, Dropping
               PROVE  BoardBeliefIsTrue
    OBVIOUS
  <2>1. Len(display_msgs) <= DISPLAY_MSGS
    BY LatestFacts
  <2>2. Len(requests) <= REQUESTS
    BY DEF Counted
  <2>3. BTypeOK
    BY <2>1, <2>2
       DEF BTypeOK, RadioInv, ChannelsHold, ArmHolds, Announced, Dropping
  <2> QED
    BY <2>3 DEF BoardBeliefIsTrue, RadioInv, ArmHolds
<1> QED
  BY <1>1, AlwaysRadio, AlwaysCounted, AlwaysLatest, AlwaysAnnounced, AlwaysDropping, PTL
============================================================================
