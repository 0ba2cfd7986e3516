-------------------------- MODULE InterfaceProofs --------------------------
(***************************************************************************)
(* The two ends at which a person meets the mesh: the Morse input, proved  *)
(* for every length of messages, letters and channels, and the Swift       *)
(* monitor, for every mesh, length of the feed and number of events.       *)
(***************************************************************************)
EXTENDS MorseKeying, MeshMonitor, SequenceTheorems, FiniteSetTheorems, TLAPS

(***************************************************************************)
(* The composer.                                                           *)
(***************************************************************************)

\* A letter, or the space, is a short sequence of elements.
LEMMA LetterFacts ==
  ASSUME NEW s
  PROVE  s \in Letters \cup {Space} <=> s \in Seq(Symbol) /\ Len(s) \in 0 .. MAX_MORSE
<1>0. MAX_MORSE \in Nat \ {0}
  BY MaxMorseAssumption
<1>1. ASSUME s \in Letters \cup {Space} PROVE s \in Seq(Symbol) /\ Len(s) \in 0 .. MAX_MORSE
  <2>1. CASE s = Space
    BY <1>0, <2>1, EmptySeq DEF Space
  <2>2. CASE s \in Letters
    <3>1. PICK n \in 1 .. MAX_MORSE : s \in [1 .. n -> Symbol]
      BY <2>2 DEF Letters
    <3>2. n \in Nat /\ s \in Seq(Symbol)
      BY <1>0, <3>1, SeqDef
    <3> QED
      BY <1>0, <3>1, <3>2, LenProperties
  <2> QED
    BY <1>1, <2>1, <2>2
<1>2. ASSUME s \in Seq(Symbol), Len(s) \in 0 .. MAX_MORSE PROVE s \in Letters \cup {Space}
  <2>1. s \in [1 .. Len(s) -> Symbol]
    BY <1>2, LenProperties
  <2>2. CASE Len(s) = 0
    BY <1>2, <2>2, EmptySeq DEF Space
  <2>3. CASE Len(s) # 0
    <3>1. Len(s) \in 1 .. MAX_MORSE
      BY <1>0, <1>2, <2>3
    <3> QED
      BY <2>1, <3>1 DEF Letters
  <2> QED
    BY <2>2, <2>3
<1> QED
  BY <1>1, <1>2

\* A composer whose message is not over its limit.
Fits(c) == c \in Composer /\ Len(c.message) <= MAX

\* One more element, while the letter takes it.
LEMMA AddSymbolFacts ==
  ASSUME NEW c, Fits(c), NEW s \in Symbol
  PROVE  /\ Fits(AddSymbol(c, s))
         /\ ~ IsFull(c) =>
              /\ AddSymbol(c, s).message = c.message
              /\ AddSymbol(c, s).character = AddSignal(c.character, s)
              /\ AddSymbol(c, s).letter_in_progress /\ ~ AddSymbol(c, s).space_pending
<1>1. c.character \in Seq(Symbol) /\ Len(c.character) \in 0 .. MAX_MORSE
  BY LetterFacts DEF Fits, Composer
<1>2. AddSignal(c.character, s) \in Letters \cup {Space}
  <2>1. CASE Len(c.character) < MAX_MORSE
    <3>1. Append(c.character, s) \in Seq(Symbol)
      BY <1>1
    <3>2. Len(Append(c.character, s)) \in 0 .. MAX_MORSE
      BY <1>1, <2>1, MaxMorseAssumption
    <3> QED
      BY <2>1, <3>1, <3>2, LetterFacts DEF AddSignal
  <2>2. CASE ~ Len(c.character) < MAX_MORSE
    BY <2>2 DEF AddSignal, Fits, Composer
  <2> QED
    BY <2>1, <2>2
<1> HIDE DEF AddSignal
<1>3. CASE IsFull(c)
  BY <1>3 DEF AddSymbol
<1>4. CASE ~ IsFull(c)
  BY <1>2, <1>4 DEF AddSymbol, Fits, Composer
<1> QED
  BY <1>3, <1>4

\* The character goes to the end of the message while there is room.
LEMMA AddCurrentCharFacts ==
  ASSUME NEW c, Fits(c)
  PROVE  /\ Fits(AddCurrentChar(c))
         /\ Len(c.message) < MAX =>
              AddCurrentChar(c).message = Append(c.message, c.character)
         /\ AddCurrentChar(c).character = << >>
         /\ AddCurrentChar(c).letter_in_progress = c.letter_in_progress
         /\ AddCurrentChar(c).space_pending = c.space_pending
         /\ AddCurrentChar(c).message # << >>
<1> DEFINE S == Letters \cup {Space}
           m == IF Len(c.message) < MAX THEN Append(c.message, c.character)
                ELSE ReplaceAt(c.message, MAX, c.character)
<1>0. MAX \in Nat \ {0} /\ << >> \in S
  BY MaxAssumption DEF Space
<1>1. c.message \in Seq(S) /\ c.character \in S /\ Len(c.message) \in Nat
      /\ Len(c.message) <= MAX
  BY DEF Fits, Composer
<1>2. m \in Seq(S) /\ Len(m) <= MAX /\ m # << >>
  <2> HIDE DEF S
  <2>1. CASE Len(c.message) < MAX
    BY <1>0, <1>1, <2>1
  <2>2. CASE ~ Len(c.message) < MAX
    <3>1. Len(c.message) = MAX /\ MAX \in 1 .. Len(c.message)
      BY <1>0, <1>1, <2>2
    <3>2. m = [c.message EXCEPT ![MAX] = c.character]
      BY <2>2 DEF ReplaceAt
    <3>3. m \in Seq(S) /\ Len(m) = Len(c.message)
      BY <1>1, <3>1, <3>2, ExceptSeq
    <3> QED
      BY <1>0, <3>1, <3>3, EmptySeq
  <2> QED
    BY <2>1, <2>2
<1>3. AddCurrentChar(c) = [c EXCEPT !.character = << >>, !.message = m]
  BY DEF AddCurrentChar, Fits, Composer
<1>4. Len(c.message) < MAX => m = Append(c.message, c.character)
  OBVIOUS
<1>5. c \in [character : S, message : Seq(S), letter_in_progress : BOOLEAN, space_pending : BOOLEAN]
  BY DEF Fits, Composer
<1> HIDE DEF m, S
<1>6. /\ AddCurrentChar(c) \in [character : S, message : Seq(S),
                              letter_in_progress : BOOLEAN, space_pending : BOOLEAN]
      /\ AddCurrentChar(c).message = m /\ AddCurrentChar(c).character = << >>
      /\ AddCurrentChar(c).letter_in_progress = c.letter_in_progress
      /\ AddCurrentChar(c).space_pending = c.space_pending
  BY <1>0, <1>2, <1>3, <1>5
<1> QED
  BY <1>2, <1>4, <1>6 DEF Fits, Composer, S

\* Committing a letter: nothing happens unless one is in progress.
LEMMA LetterGapFacts ==
  ASSUME NEW c, Fits(c)
  PROVE  /\ Fits(LetterGap(c))
         /\ ~ LetterGap(c).letter_in_progress
         /\ LetterGap(c).space_pending = c.space_pending
         /\ ~ c.letter_in_progress => LetterGap(c) = c
         /\ c.letter_in_progress =>
              /\ LetterGap(c).message # << >> /\ LetterGap(c).character = << >>
              /\ Len(c.message) < MAX =>
                   LetterGap(c).message = Append(c.message, c.character)
<1>1. CASE ~ c.letter_in_progress
  BY <1>1 DEF LetterGap
<1>2. CASE c.letter_in_progress
  <2> DEFINE d == AddCurrentChar(c)
  <2>1. LetterGap(c) = [d EXCEPT !.letter_in_progress = FALSE]
    BY <1>2 DEF LetterGap
  <2>2. Fits(d)
    BY AddCurrentCharFacts
  <2>3. /\ Len(c.message) < MAX => d.message = Append(c.message, c.character)
        /\ d.character = << >> /\ d.space_pending = c.space_pending /\ d.message # << >>
    BY AddCurrentCharFacts
  <2> HIDE DEF d
  <2>4. /\ LetterGap(c) \in Composer
        /\ LetterGap(c).message = d.message /\ LetterGap(c).character = d.character
        /\ LetterGap(c).space_pending = d.space_pending
        /\ LetterGap(c).letter_in_progress = FALSE
    BY <2>1, <2>2 DEF Fits, Composer
  <2> QED
    BY <1>2, <2>2, <2>3, <2>4 DEF Fits
<1> QED
  BY <1>1, <1>2

\* The gap between words, once the letter is committed.
LEMMA WordGapFacts ==
  ASSUME NEW c, Fits(c), ~ c.letter_in_progress
  PROVE  /\ Fits(WordGap(c)) /\ ~ WordGap(c).letter_in_progress
         /\ ~ TakesSpace(c) => WordGap(c) = c
         /\ TakesSpace(c) =>
              /\ WordGap(c).message = Append(c.message, c.character)
              /\ WordGap(c).character = << >> /\ WordGap(c).space_pending
<1>1. LetterGap(c) = c
  BY DEF LetterGap
<1>2. CASE ~ TakesSpace(c)
  BY <1>1, <1>2 DEF WordGap
<1>3. CASE TakesSpace(c)
  <2> DEFINE d == AddCurrentChar(c)
  <2>1. WordGap(c) = [d EXCEPT !.space_pending = TRUE]
    BY <1>1, <1>3 DEF WordGap
  <2>2. Len(c.message) < MAX
    BY <1>3, MaxAssumption DEF TakesSpace, IsFull, Fits, Composer
  <2>3. Fits(d)
    BY AddCurrentCharFacts
  <2>4. /\ d.message = Append(c.message, c.character)
        /\ d.character = << >> /\ d.letter_in_progress = c.letter_in_progress
    BY <2>2, AddCurrentCharFacts
  <2> HIDE DEF d
  <2>5. /\ WordGap(c) \in Composer
        /\ WordGap(c).message = d.message /\ WordGap(c).character = d.character
        /\ WordGap(c).letter_in_progress = d.letter_in_progress
        /\ WordGap(c).space_pending = TRUE
    BY <2>1, <2>3 DEF Fits, Composer
  <2> QED
    BY <1>3, <2>3, <2>4, <2>5 DEF Fits
<1> QED
  BY <1>2, <1>3

LEMMA ClearFacts ==
  ASSUME NEW c, Fits(c)
  PROVE  /\ Fits(Clear(c))
         /\ Clear(c).message = << >> /\ Clear(c).character = c.character
         /\ ~ Clear(c).letter_in_progress /\ ~ Clear(c).space_pending
<1>1. << >> \in Seq(Letters \cup {Space}) /\ Len(<< >>) <= MAX
  BY MaxAssumption, EmptySeq
<1> QED
  BY <1>1 DEF Clear, Fits, Composer

----------------------------------------------------------------------------
(***************************************************************************)
(* The composer against what was keyed.                                    *)
(***************************************************************************)

EndsInSpace(message) == message # << >> /\ Last(message) = Space

\* What holds of the task whatever was abandoned: the elements on display are
\* those of the letter in progress, which has a place in the message.
TaskHolds ==
  /\ Fits(composer)
  /\ elements \in Letters \cup {Space}
  /\ keyed = elements
  /\ at \in {"select", "send"} /\ pending \in {"none", "letter", "word"}
  /\ composer.letter_in_progress <=> elements # << >>
  /\ composer.letter_in_progress => Len(composer.message) < MAX /\ ~ composer.space_pending
  /\ at = "send" => elements = << >>
  /\ at = "select" => (pending = "letter" <=> elements # << >>)
  /\ at = "select" /\ pending = "word" => composer.message # << >>

\* Between two letters, the composer remembers whether the message ends in a
\* space: that a letter was keyed since is what clears the memory.
AsKeyed ==
  /\ composer.message = typed /\ composer.character = keyed
  /\ ~ composer.letter_in_progress => (composer.space_pending <=> EndsInSpace(typed))

KInv == TaskHolds /\ (~ abandoned => AsKeyed)

LEMMA InitKeyed == KInit => KInv
<1> SUFFICES ASSUME KInit PROVE KInv
  OBVIOUS
<1>1. << >> \in Seq(Letters \cup {Space}) /\ Len(<< >>) <= MAX
  BY MaxAssumption, EmptySeq
<1>2. Fits(New) /\ New.message = << >> /\ New.character = << >>
      /\ ~ New.letter_in_progress /\ ~ New.space_pending
  BY <1>1 DEF New, Fits, Composer, Space
<1> QED
  BY <1>2 DEF KInit, MInit, KInv, TaskHolds, AsKeyed, EndsInSpace, Space

\* One more element of the open letter.
LEMMA KeysKeeps ==
  ASSUME KInv, Keys
  PROVE  KInv'
<1>1. PICK s \in Symbol : AcceptSymbol(s) /\ keyed' = Append(keyed, s)
  BY DEF Keys
<1>2. typed' = typed /\ abandoned' = abandoned
  BY DEF Keys
<1>3. /\ at = "select" /\ at' = at
      /\ ~ IsFull(composer) /\ ~ Len(elements) >= MAX_MORSE
      /\ composer' = AddSymbol(composer, s)
      /\ elements' = Append(elements, s) /\ pending' = "letter"
  BY <1>1 DEF AcceptSymbol, Receives, Refused
<1>4. /\ elements \in Seq(Symbol) /\ Len(elements) \in Nat /\ Len(elements) < MAX_MORSE
      /\ keyed = elements
  BY <1>3, LetterFacts, MaxMorseAssumption DEF KInv, TaskHolds
<1>5. /\ elements' \in Letters \cup {Space} /\ elements' # << >>
  <2>1. /\ Append(elements, s) \in Seq(Symbol) /\ Append(elements, s) # << >>
        /\ Len(Append(elements, s)) \in 0 .. MAX_MORSE
    BY <1>4, MaxMorseAssumption
  <2> QED
    BY <1>3, <2>1, LetterFacts
<1>6. /\ Fits(composer') /\ composer'.message = composer.message
      /\ composer'.character = AddSignal(composer.character, s)
      /\ composer'.letter_in_progress /\ ~ composer'.space_pending
  BY <1>3, AddSymbolFacts DEF KInv, TaskHolds
<1>7. Len(composer'.message) < MAX
  <2>1. Len(composer.message) \in Nat
    BY DEF KInv, TaskHolds, Fits, Composer
  <2> QED
    BY <1>3, <1>6, <2>1, MaxAssumption DEF IsFull
<1>8. TaskHolds'
  BY <1>1, <1>3, <1>4, <1>5, <1>6, <1>7 DEF TaskHolds
<1>9. ASSUME ~ abandoned PROVE AsKeyed'
  <2>1. composer.message = typed /\ composer.character = keyed
    BY <1>9 DEF KInv, AsKeyed
  <2>2. AddSignal(composer.character, s) = Append(keyed, s)
    BY <1>4, <2>1 DEF AddSignal
  <2> QED
    BY <1>1, <1>2, <1>6, <2>1, <2>2 DEF AsKeyed
<1> QED
  BY <1>2, <1>8, <1>9 DEF KInv

\* What the task commits when a letter ends: the letter keyed, if there is one.
LEMMA CommitLetterFacts ==
  ASSUME KInv
  PROVE  /\ Fits(CommitLetter) /\ ~ CommitLetter.letter_in_progress
         /\ elements = << >> => CommitLetter = composer
         /\ elements # << >> => CommitLetter.message # << >>
         /\ ~ abandoned =>
              /\ CommitLetter.message = IF keyed = << >> THEN typed ELSE Append(typed, keyed)
              /\ CommitLetter.character = << >>
              /\ CommitLetter.space_pending <=> EndsInSpace(CommitLetter.message)
<1>1. /\ Fits(composer) /\ keyed = elements
      /\ composer.letter_in_progress <=> elements # << >>
      /\ composer.letter_in_progress => Len(composer.message) < MAX /\ ~ composer.space_pending
      /\ ~ abandoned => AsKeyed
  BY DEF KInv, TaskHolds
<1>2. CASE elements = << >>
  BY <1>1, <1>2 DEF CommitLetter, AsKeyed
<1>3. CASE elements # << >>
  <2>1. CommitLetter = LetterGap(composer)
    BY <1>3 DEF CommitLetter
  <2>2. /\ Fits(LetterGap(composer)) /\ ~ LetterGap(composer).letter_in_progress
        /\ LetterGap(composer).space_pending = composer.space_pending
        /\ LetterGap(composer).message # << >> /\ LetterGap(composer).character = << >>
        /\ LetterGap(composer).message = Append(composer.message, composer.character)
    BY <1>1, <1>3, LetterGapFacts
  <2>3. ASSUME ~ abandoned
        PROVE  ~ EndsInSpace(Append(typed, keyed))
    <3>1. typed \in Seq(Letters \cup {Space}) /\ keyed # Space
      BY <1>1, <1>3, <2>3 DEF AsKeyed, Fits, Composer, Space
    <3>2. Last(Append(typed, keyed)) = keyed
      BY <3>1 DEF Last
    <3> QED
      BY <3>1, <3>2 DEF EndsInSpace
  <2> QED
    BY <1>1, <1>3, <2>1, <2>2, <2>3 DEF AsKeyed
<1> QED
  BY <1>2, <1>3

\* A message begins with an empty composer, save for what a clear abandoned.
LEMMA BeginsKeyed ==
  ASSUME NEW c, Fits(c), composer' = Clear(c), StartOver, MessageBegins,
         at' = "select"
  PROVE  KInv'
<1>1. /\ Fits(composer') /\ composer'.message = << >>
      /\ ~ composer'.letter_in_progress /\ ~ composer'.space_pending
  BY ClearFacts
<1>2. /\ typed' = << >> /\ keyed' = << >> /\ elements' = << >> /\ pending' = "none"
      /\ ~ abandoned' => composer'.character = << >>
  BY DEF MessageBegins, StartOver
<1> QED
  BY <1>1, <1>2 DEF KInv, TaskHolds, AsKeyed, EndsInSpace, Space

LEMMA FinishesKeeps ==
  ASSUME KInv, Finishes
  PROVE  KInv'
<1>1. at = "select" /\ Finish
  BY DEF Finishes, Finish, Receives
<1>2. CASE IsEmpty(CommitLetter)
  <2>1. /\ composer' = Clear(CommitLetter) /\ StartOver /\ at' = "select"
        /\ MessageBegins
    BY <1>1, <1>2 DEF Finish, Finishes
  <2> QED
    BY <2>1, CommitLetterFacts, BeginsKeyed
<1>3. CASE ~ IsEmpty(CommitLetter)
  <2>1. /\ at' = "send" /\ composer' = CommitLetter /\ elements' = << >>
        /\ pending' = pending /\ LetterEnds /\ abandoned' = abandoned
    BY <1>1, <1>3 DEF Finish, Finishes
  <2>2. keyed' = << >> /\ typed' = IF keyed = << >> THEN typed ELSE Append(typed, keyed)
    BY <2>1 DEF LetterEnds
  <2>3. pending' \in {"none", "letter", "word"}
    BY <2>1 DEF KInv, TaskHolds
  <2>4. TaskHolds'
    BY <2>1, <2>2, <2>3, CommitLetterFacts DEF TaskHolds, Space
  <2>5. ~ abandoned => AsKeyed'
    BY <2>1, <2>2, CommitLetterFacts DEF AsKeyed
  <2> QED
    BY <2>1, <2>4, <2>5 DEF KInv
<1> QED
  BY <1>2, <1>3

LEMMA LetterTimerKeeps ==
  ASSUME KInv, LetterTimer, LetterEnds, abandoned' = abandoned
  PROVE  KInv'
<1>1. /\ at = "select" /\ at' = at /\ pending = "letter" /\ pending' = "word"
      /\ composer' = CommitLetter /\ elements' = << >>
  BY DEF LetterTimer, TimerFires
<1>2. keyed' = << >> /\ typed' = IF keyed = << >> THEN typed ELSE Append(typed, keyed)
  BY DEF LetterEnds
<1>3. elements # << >>
  BY <1>1 DEF KInv, TaskHolds
<1>4. TaskHolds'
  BY <1>1, <1>2, <1>3, CommitLetterFacts DEF TaskHolds, Space
<1>5. ~ abandoned => AsKeyed'
  BY <1>1, <1>2, CommitLetterFacts DEF AsKeyed
<1> QED
  BY <1>4, <1>5 DEF KInv

LEMMA WordTimerKeeps ==
  ASSUME KInv, WordTimer, WordEnds, keyed' = keyed, abandoned' = abandoned
  PROVE  KInv'
<1>1. /\ at = "select" /\ at' = at /\ pending = "word" /\ pending' = "none"
      /\ composer' = WordGap(composer) /\ elements' = elements
  BY DEF WordTimer, TimerFires
<1>2. /\ Fits(composer) /\ elements = << >> /\ ~ composer.letter_in_progress
      /\ keyed = elements
  BY <1>1 DEF KInv, TaskHolds
<1>3. Fits(WordGap(composer)) /\ ~ WordGap(composer).letter_in_progress
  BY <1>2, WordGapFacts
<1>4. TaskHolds'
  BY <1>1, <1>2, <1>3 DEF TaskHolds, Space
<1>5. ASSUME ~ abandoned PROVE AsKeyed'
  <2>1. /\ composer.message = typed /\ composer.character = << >>
        /\ composer.space_pending <=> EndsInSpace(typed)
    BY <1>2, <1>5 DEF KInv, AsKeyed
  <2>2. /\ typed \in Seq(Letters \cup {Space}) /\ Len(typed) \in Nat
        /\ TakesSpace(composer) <=> typed # << >> /\ Last(typed) # Space /\ Len(typed) < MAX
    BY <1>2, <2>1, MaxAssumption DEF TakesSpace, EndsInSpace, IsFull, Fits, Composer
  <2>3. CASE TakesSpace(composer)
    <3>1. /\ WordGap(composer).message = Append(typed, Space)
          /\ WordGap(composer).character = << >> /\ WordGap(composer).space_pending
      BY <1>2, <2>1, <2>3, WordGapFacts DEF Space
    <3>2. typed' = Append(typed, Space)
      BY <2>2, <2>3 DEF WordEnds
    <3>3. EndsInSpace(Append(typed, Space))
      BY <2>2 DEF EndsInSpace, Last
    <3> QED
      BY <1>1, <1>2, <3>1, <3>2, <3>3 DEF AsKeyed
  <2>4. CASE ~ TakesSpace(composer)
    <3>1. WordGap(composer) = composer
      BY <1>2, <2>4, WordGapFacts
    <3>2. typed' = typed
      BY <2>2, <2>4 DEF WordEnds
    <3> QED
      BY <1>1, <1>2, <2>1, <3>1, <3>2 DEF AsKeyed
  <2> QED
    BY <2>3, <2>4
<1> QED
  BY <1>4, <1>5 DEF KInv

LEMMA NextKeyed == KInv /\ [KNext]_kvars => KInv'
<1> SUFFICES ASSUME KInv, [KNext]_kvars PROVE KInv'
  OBVIOUS
<1>1. ASSUME UNCHANGED <<task, history>> PROVE KInv'
  BY <1>1 DEF task, history, KInv, TaskHolds, AsKeyed, EndsInSpace
<1>2. CASE Quiet
  <2>1. UNCHANGED task
    BY <1>2 DEF Quiet, Press, HoldElapses, Release, Becomes, Emit, RefuseSymbol, TakeText
  <2> QED
    BY <1>1, <1>2, <2>1 DEF Quiet
<1>3. CASE Keys
  BY <1>3, KeysKeeps
<1>4. CASE Finishes
  BY <1>4, FinishesKeeps
<1>5. CASE SendText /\ MessageBegins
  BY <1>5, BeginsKeyed DEF SendText, KInv, TaskHolds
<1>6. CASE ClearMessage /\ MessageBegins
  BY <1>6, BeginsKeyed DEF ClearMessage, Receives, KInv, TaskHolds
<1>7. CASE LetterTimer /\ LetterEnds /\ UNCHANGED abandoned
  BY <1>7, LetterTimerKeeps
<1>8. CASE WordTimer /\ WordEnds /\ UNCHANGED <<keyed, abandoned>>
  BY <1>8, WordTimerKeeps
<1>9. CASE UNCHANGED kvars
  BY <1>1, <1>9 DEF kvars, mvars
<1> QED
  BY <1>2, <1>3, <1>4, <1>5, <1>6, <1>7, <1>8, <1>9 DEF KNext

LEMMA AlwaysKeyed == KSpec => []KInv
BY InitKeyed, NextKeyed, PTL DEF KSpec

\* For every cap and whatever the timing, the message composed and sent is the
\* one keyed, unless a letter was abandoned by a clear (compose_task,
\* Composer).
THEOREM ComposedIsKeyed == KSpec => []ComposedAsKeyed
<1>1. KInv => ComposedAsKeyed
  BY DEF KInv, AsKeyed, ComposedAsKeyed
<1> QED
  BY <1>1, AlwaysKeyed, PTL

----------------------------------------------------------------------------
(***************************************************************************)
(* The timer and the channels.                                             *)
(***************************************************************************)

\* The button tasks and the two channels.
ButtonsHold ==
  /\ button \in [Button -> {"released", "pressed", "held", "tap", "hold"}]
  /\ input \in Seq(InputEvent) /\ Len(input) <= INPUT
  /\ queued \in 0 .. COMPOSE

LEMMA AlwaysButtons == KSpec => []ButtonsHold
<1>0. INPUT \in Nat \ {0} /\ COMPOSE \in Nat \ {0}
  BY QueueAssumption
<1>1. KInit => ButtonsHold
  <2>1. << >> \in Seq(InputEvent) /\ Len(<< >>) <= INPUT
    BY <1>0, EmptySeq
  <2> QED
    BY <1>0, <2>1 DEF KInit, MInit, ButtonsHold
<1>2. ButtonsHold /\ [KNext]_kvars => ButtonsHold'
  <2> SUFFICES ASSUME ButtonsHold, [KNext]_kvars PROVE ButtonsHold'
    OBVIOUS
  <2> USE DEF ButtonsHold
  <2>1. ASSUME NEW b \in Button, Press(b) \/ HoldElapses(b) \/ Release(b) PROVE ButtonsHold'
    BY <2>1 DEF Press, HoldElapses, Release, Becomes
  <2>2. ASSUME NEW b \in Button, Emit(b) PROVE ButtonsHold'
    <3> DEFINE event == IF button[b] = "tap" THEN Tap[b] ELSE Hold[b]
    <3>1. event \in InputEvent
      BY DEF Button, Tap, Hold, InputEvent, Symbol
    <3>2. /\ Len(input) < INPUT /\ input' = Append(input, event)
          /\ button' = [button EXCEPT ![b] = "released"] /\ queued' = queued
      BY <2>2 DEF Emit
    <3> HIDE DEF event
    <3>3. input' \in Seq(InputEvent) /\ Len(input') <= INPUT
      BY <1>0, <3>1, <3>2
    <3> QED
      BY <3>2, <3>3
  <2>3. ASSUME NEW event, Receives(event), queued' = queued PROVE ButtonsHold'
    <3>1. input # << >> /\ input' = Tail(input) /\ button' = button
      BY <2>3 DEF Receives
    <3>2. input' \in Seq(InputEvent) /\ Len(input') <= INPUT
      BY <1>0, <3>1
    <3> QED
      BY <2>3, <3>1, <3>2
  <2>4. CASE SendText
    BY <1>0, <2>4 DEF SendText
  <2>5. CASE TakeText
    BY <1>0, <2>5 DEF TakeText
  <2>6. CASE LetterTimer \/ WordTimer
    BY <2>6 DEF LetterTimer, WordTimer, TimerFires
  <2>7. CASE UNCHANGED kvars
    BY <2>7 DEF kvars, mvars
  <2>8. CASE Quiet
    BY <2>1, <2>2, <2>3, <2>5, <2>8 DEF Quiet, RefuseSymbol
  <2>9. CASE Keys
    BY <2>3, <2>9 DEF Keys, AcceptSymbol
  <2>10. CASE Finishes
    BY <2>3, <2>10 DEF Finishes, Finish
  <2>11. CASE ClearMessage
    BY <2>3, <2>11 DEF ClearMessage
  <2> QED
    BY <2>4, <2>6, <2>7, <2>8, <2>9, <2>10, <2>11 DEF KNext
<1> QED
  BY <1>1, <1>2, PTL DEF KSpec

\* Whenever the task selects, an open letter has its commit armed and no timer
\* of an earlier message is left (compose_task, the idle timer).
THEOREM TimerIsArmed == KSpec => []TimerFitsLetter
<1>1. KInv /\ ButtonsHold => TimerFitsLetter
  BY DEF KInv, TaskHolds, ButtonsHold, TimerFitsLetter, MTypeOK, Fits, Composer
<1> QED
  BY <1>1, AlwaysKeyed, AlwaysButtons, PTL

----------------------------------------------------------------------------
(***************************************************************************)
(* What waits on the serial queue and on the main actor.                   *)
(***************************************************************************)

Block ==
  [kind : {"start", "stop", "update"}] \cup [kind : {"frame"}, packet : OnAir]
  \cup [kind : {"junk"}, length : Junk]

Shown == OnAir \cup {Engine!Hopped(packet) : packet \in OnAir}

Line == [kind : {"deliver", "forward"}, packet : Shown] \cup [kind : {"junk"}, length : Junk]

Event == Line \cup [kind : {"ignore"}] \cup [kind : {"state"}, on : BOOLEAN]

Queued ==
  /\ queue \in Seq(Block) /\ tasks \in Seq(Event)
  /\ power \in BOOLEAN

\* A sequence whose head is taken.
LEMMA TakeHead ==
  ASSUME NEW S, NEW s \in Seq(S), s # << >>
  PROVE  /\ Head(s) \in S /\ Tail(s) \in Seq(S)
         /\ Len(s) \in Nat \ {0} /\ Len(Tail(s)) = Len(s) - 1
         /\ s[1] = Head(s) /\ \A i \in 1 .. Len(s) - 1 : Tail(s)[i] = s[i + 1]
OBVIOUS

\* A sequence with something at its end.
LEMMA PutLast ==
  ASSUME NEW S, NEW s \in Seq(S), NEW x \in S
  PROVE  /\ Append(s, x) \in Seq(S) /\ Len(s) \in Nat
         /\ Len(Append(s, x)) = Len(s) + 1 /\ Append(s, x)[Len(s) + 1] = x
         /\ \A i \in 1 .. Len(s) : Append(s, x)[i] = s[i]
OBVIOUS

\* What the routing of a frame tells the main actor.
LEMMA ActionIsEvent ==
  ASSUME NEW packet \in OnAir
  PROVE  Action(packet) \in Event /\ Action(packet).kind \in {"deliver", "forward", "ignore"}
<1>1. packet \in Shown /\ Engine!Hopped(packet) \in Shown
  BY DEF Shown
<1> DEFINE delivers == Engine!Delivers(Me, cache, packet)
           passes == Engine!Forwards(Me, cache, packet) /\ ~ Engine!IsForMe(Me, packet)
<1>2. delivers \in BOOLEAN /\ passes \in BOOLEAN
  BY DEF Engine!Delivers, Engine!Forwards
<1>3. Action(packet) = CASE delivers -> [kind |-> "deliver", packet |-> packet]
                         [] passes -> [kind |-> "forward", packet |-> Engine!Hopped(packet)]
                         [] OTHER -> [kind |-> "ignore"]
  BY Zenon DEF Action
<1> HIDE DEF delivers, passes
<1>4. \/ Action(packet) = [kind |-> "deliver", packet |-> packet]
      \/ Action(packet) = [kind |-> "forward", packet |-> Engine!Hopped(packet)]
      \/ Action(packet) = [kind |-> "ignore"]
  BY <1>2, <1>3
<1> QED
  BY <1>1, <1>4 DEF Event, Line

LEMMA AlwaysQueued == WSpec => []Queued
<1>1. WInit => Queued
  BY EmptySeq DEF WInit, Queued
<1>2. Queued /\ [WNext]_wvars => Queued'
  <2> SUFFICES ASSUME Queued, [WNext]_wvars PROVE Queued'
    OBVIOUS
  <2>1. ASSUME NEW block \in Block PROVE Append(queue, block) \in Seq(Block)
    BY DEF Queued
  <2>2. ASSUME NEW event \in Event PROVE Append(tasks, event) \in Seq(Event)
    BY DEF Queued
  <2>3. /\ [kind |-> "start"] \in Block /\ [kind |-> "stop"] \in Block
        /\ [kind |-> "update"] \in Block
        /\ \A packet \in OnAir : [kind |-> "frame", packet |-> packet] \in Block
        /\ \A n \in Junk : [kind |-> "junk", length |-> n] \in Block
    BY DEF Block
  <2>4. CASE Outside
    <3>1. tasks' = tasks
      BY <2>4 DEF Outside
    <3>2. CASE Enqueue
      BY <2>1, <2>3, <3>1, <3>2 DEF Enqueue, Queued
    <3>3. CASE Switch
      BY <2>1, <2>3, <3>1, <3>3 DEF Switch, Queued
    <3> QED
      BY <2>4, <3>2, <3>3 DEF Outside
  <2>5. CASE SerialQueue
    <3>1. /\ Head(queue) \in Block /\ Tail(queue) \in Seq(Block) /\ power' = power
      BY <2>5, TakeHead DEF SerialQueue, Queued
    <3>2. CASE StartBlock
      <4>1. Append(Tail(queue), [kind |-> "update"]) \in Seq(Block)
        BY <2>3, <3>1
      <4> QED
        BY <3>1, <3>2, <4>1 DEF StartBlock, Queued
    <3>3. CASE StopBlock
      BY <3>1, <3>3 DEF StopBlock, Queued
    <3>4. CASE UpdateState
      <4>1. [kind |-> "state", on |-> power] \in Event
        BY DEF Event, Queued
      <4> QED
        BY <2>2, <3>1, <3>4, <4>1 DEF UpdateState, Queued
    <3>5. CASE DidDiscover
      <4>1. CASE Head(queue).kind = "frame"
        <5>1. Head(queue).packet \in OnAir
          BY <3>1, <4>1 DEF Block
        <5>2. tasks' = Append(tasks, Action(Head(queue).packet)) /\ queue' = Tail(queue)
          BY <3>5, <4>1 DEF DidDiscover
        <5> QED
          BY <2>2, <3>1, <5>1, <5>2, ActionIsEvent DEF Queued
      <4>2. CASE Head(queue).kind = "junk"
        <5>1. Head(queue) \in Event
          BY <3>1, <4>2 DEF Block, Event, Line
        <5>2. tasks' = Append(tasks, Head(queue)) /\ queue' = Tail(queue)
          BY <3>5, <4>2 DEF DidDiscover
        <5> QED
          BY <2>2, <3>1, <5>1, <5>2 DEF Queued
      <4> QED
        BY <3>5, <4>1, <4>2 DEF DidDiscover
    <3> QED
      BY <2>5, <3>2, <3>3, <3>4, <3>5 DEF SerialQueue
  <2>6. CASE MainActor
    BY <2>6, TakeHead DEF MainActor, scanner, Queued
  <2>7. CASE UNCHANGED wvars
    BY <2>7 DEF wvars, scanner, Queued
  <2> QED
    BY <2>4, <2>5, <2>6, <2>7 DEF WNext
<1> QED
  BY <1>1, <1>2, PTL DEF WSpec

----------------------------------------------------------------------------
(***************************************************************************)
(* Scanning.                                                               *)
(***************************************************************************)

UpdatePending == \E i \in 1 .. Len(queue) : queue[i].kind = "update"

\* The last state the main actor will be told is this one.
StateComes(on) ==
  \E i \in 1 .. Len(tasks) :
    /\ tasks[i].kind = "state" /\ tasks[i].on = on
    /\ \A j \in i + 1 .. Len(tasks) : tasks[j].kind # "state"

StateIsSaid ==
  \/ StateComes(power)
  \/ /\ \A i \in 1 .. Len(tasks) : tasks[i].kind # "state"
     /\ bluetoothState = StateName(power)

\* Unless the manager has yet to report a change of the radio, the scan is as
\* it should be and the main actor has been told the state, or will be.
Settling ==
  /\ isScanning \in BOOLEAN /\ scanRequested \in BOOLEAN /\ central \in BOOLEAN
  /\ isScanning => scanRequested /\ power /\ central
  /\ UpdatePending => central
  /\ central /\ ~ UpdatePending =>
       (isScanning <=> scanRequested /\ power) /\ StateIsSaid

\* A block at the end of the queue hides no update that was there.
LEMMA UpdateStays ==
  ASSUME Queued, NEW block \in Block, queue' = Append(queue, block)
  PROVE  /\ UpdatePending => UpdatePending'
         /\ block.kind = "update" => UpdatePending'
         /\ block.kind # "update" /\ UpdatePending' => UpdatePending
<1>1. /\ Len(queue) \in Nat /\ Len(queue') = Len(queue) + 1
      /\ queue'[Len(queue) + 1] = block
      /\ \A i \in 1 .. Len(queue) : queue'[i] = queue[i]
  BY PutLast DEF Queued
<1> QED
  BY <1>1 DEF UpdatePending

\* One that is taken was the update, or it leaves it there.
LEMMA UpdateTaken ==
  ASSUME Queued, queue # << >>, queue' = Tail(queue)
  PROVE  /\ Head(queue).kind # "update" /\ UpdatePending => UpdatePending'
         /\ UpdatePending' => UpdatePending
<1>1. /\ Len(queue) \in Nat \ {0} /\ Len(queue') = Len(queue) - 1
      /\ queue[1] = Head(queue) /\ \A i \in 1 .. Len(queue) - 1 : queue'[i] = queue[i + 1]
  BY TakeHead DEF Queued
<1>2. ASSUME Head(queue).kind # "update", UpdatePending PROVE UpdatePending'
  <2>1. PICK i \in 1 .. Len(queue) : queue[i].kind = "update"
    BY <1>2 DEF UpdatePending
  <2>2. i # 1 /\ i - 1 \in 1 .. Len(queue) - 1
    BY <1>1, <1>2, <2>1
  <2>3. queue'[i - 1].kind = "update"
    BY <1>1, <2>1, <2>2
  <2> QED
    BY <1>1, <2>2, <2>3 DEF UpdatePending
<1>3. ASSUME UpdatePending' PROVE UpdatePending
  <2>1. PICK i \in 1 .. Len(queue') : queue'[i].kind = "update"
    BY <1>3 DEF UpdatePending
  <2>2. i + 1 \in 1 .. Len(queue) /\ queue[i + 1].kind = "update"
    BY <1>1, <2>1
  <2> QED
    BY <2>2 DEF UpdatePending
<1> QED
  BY <1>2, <1>3

\* An event that is no state changes nothing of what the main actor is told.
LEMMA OtherEventPut ==
  ASSUME Queued, NEW event \in Event, event.kind # "state", tasks' = Append(tasks, event),
         UNCHANGED <<power, bluetoothState>>, StateIsSaid
  PROVE  StateIsSaid'
<1>1. /\ Len(tasks) \in Nat /\ Len(tasks') = Len(tasks) + 1
      /\ tasks'[Len(tasks) + 1] = event
      /\ \A i \in 1 .. Len(tasks) : tasks'[i] = tasks[i]
  BY PutLast DEF Queued
<1>2. CASE StateComes(power)
  <2>1. PICK i \in 1 .. Len(tasks) :
          /\ tasks[i].kind = "state" /\ tasks[i].on = power
          /\ \A j \in i + 1 .. Len(tasks) : tasks[j].kind # "state"
    BY <1>2 DEF StateComes
  <2>2. i \in 1 .. Len(tasks') /\ tasks'[i] = tasks[i]
    BY <1>1
  <2>3. \A j \in i + 1 .. Len(tasks') : tasks'[j].kind # "state"
    BY <1>1, <2>1
  <2>4. power' = power
    OBVIOUS
  <2> QED
    BY <2>1, <2>2, <2>3, <2>4 DEF StateIsSaid, StateComes
<1>3. CASE /\ \A i \in 1 .. Len(tasks) : tasks[i].kind # "state"
           /\ bluetoothState = StateName(power)
  <2>1. \A i \in 1 .. Len(tasks') : tasks'[i].kind # "state"
    BY <1>1, <1>3
  <2> QED
    BY <1>3, <2>1 DEF StateIsSaid, StateName
<1> QED
  BY <1>2, <1>3 DEF StateIsSaid

\* The main actor shows the state it is told, and forgets no later one.
LEMMA StateShown ==
  ASSUME Queued, MainActor, StateIsSaid
  PROVE  StateIsSaid'
<1>1. tasks # << >> /\ tasks' = Tail(tasks) /\ power' = power
  BY DEF MainActor, scanner
<1>2. /\ Len(tasks) \in Nat \ {0} /\ Len(tasks') = Len(tasks) - 1
      /\ tasks[1] = Head(tasks) /\ \A i \in 1 .. Len(tasks) - 1 : tasks'[i] = tasks[i + 1]
      /\ Head(tasks) \in Event
  BY <1>1, TakeHead DEF Queued
<1>3. IF Head(tasks).kind = "state" THEN bluetoothState' = StateName(Head(tasks).on)
      ELSE bluetoothState' = bluetoothState
  BY DEF MainActor, HandleEvent, HandleUndecodable, HandleState
<1>4. CASE StateComes(power)
  <2>1. PICK i \in 1 .. Len(tasks) :
          /\ tasks[i].kind = "state" /\ tasks[i].on = power
          /\ \A j \in i + 1 .. Len(tasks) : tasks[j].kind # "state"
    BY <1>4 DEF StateComes
  <2>2. CASE i = 1
    <3>1. bluetoothState' = StateName(power')
      BY <1>1, <1>2, <1>3, <2>1, <2>2
    <3>2. \A j \in 1 .. Len(tasks') : tasks'[j].kind # "state"
      BY <1>2, <2>1, <2>2
    <3> QED
      BY <3>1, <3>2 DEF StateIsSaid, StateName
  <2>3. CASE i # 1
    <3>1. i - 1 \in 1 .. Len(tasks') /\ tasks'[i - 1] = tasks[i]
      BY <1>2, <2>3
    <3>2. \A j \in (i - 1) + 1 .. Len(tasks') : tasks'[j].kind # "state"
      BY <1>2, <2>1
    <3> QED
      BY <1>1, <2>1, <3>1, <3>2 DEF StateIsSaid, StateComes
  <2> QED
    BY <2>2, <2>3
<1>5. CASE /\ \A i \in 1 .. Len(tasks) : tasks[i].kind # "state"
           /\ bluetoothState = StateName(power)
  <2>1. Head(tasks).kind # "state" /\ \A i \in 1 .. Len(tasks') : tasks'[i].kind # "state"
    BY <1>2, <1>5
  <2> QED
    BY <1>1, <1>3, <1>5, <2>1 DEF StateIsSaid, StateName
<1> QED
  BY <1>4, <1>5 DEF StateIsSaid

LEMMA OutsideSettles ==
  ASSUME Queued, Settling, Outside
  PROVE  Settling'
<1>1. UNCHANGED <<central, scanRequested, tasks, bluetoothState>>
  BY DEF Outside, model
<1>2. CASE Enqueue
  <2>1. PICK block \in Block : queue' = Append(queue, block) /\ block.kind # "update"
    <3>1. /\ [kind |-> "start"] \in Block /\ [kind |-> "stop"] \in Block
          /\ \A packet \in OnAir : [kind |-> "frame", packet |-> packet] \in Block
          /\ \A n \in Junk : [kind |-> "junk", length |-> n] \in Block
      BY DEF Block
    <3>2. \/ queue' = Append(queue, [kind |-> "start"])
          \/ queue' = Append(queue, [kind |-> "stop"])
          \/ \E packet \in OnAir : queue' = Append(queue, [kind |-> "frame", packet |-> packet])
          \/ \E n \in Junk : queue' = Append(queue, [kind |-> "junk", length |-> n])
      BY <1>2 DEF Enqueue
    <3> QED
      BY <3>1, <3>2
  <2>2. UpdatePending <=> UpdatePending'
    BY <2>1, UpdateStays
  <2>3. power' = power /\ isScanning' = isScanning
    BY <1>2 DEF Enqueue
  <2>4. StateIsSaid => StateIsSaid'
    BY <1>1, <2>3 DEF StateIsSaid, StateComes
  <2> QED
    BY <1>1, <2>2, <2>3, <2>4 DEF Settling
<1>3. CASE Switch
  <2>1. power' \in BOOLEAN /\ isScanning' = (isScanning /\ power')
    BY <1>3 DEF Switch
  <2>2. CASE central
    <3>1. [kind |-> "update"] \in Block /\ queue' = Append(queue, [kind |-> "update"])
      BY <1>3, <2>2 DEF Switch, Block
    <3>2. UpdatePending'
      BY <3>1, UpdateStays
    <3>3. /\ isScanning' \in BOOLEAN /\ central' /\ scanRequested' \in BOOLEAN
          /\ isScanning' => scanRequested' /\ power' /\ central'
      BY <1>1, <2>1, <2>2, Zenon DEF Settling
    <3> QED
      BY <3>2, <3>3 DEF Settling
  <2>3. CASE ~ central
    <3>1. UpdatePending' => UpdatePending
      BY <1>3, <2>3 DEF Switch, UpdatePending
    <3> QED
      BY <1>1, <2>1, <2>3, <3>1 DEF Settling
  <2> QED
    BY <2>2, <2>3
<1> QED
  BY <1>2, <1>3 DEF Outside

LEMMA SerialQueueSettles ==
  ASSUME Queued, Settling, SerialQueue
  PROVE  Settling'
<1>1. /\ queue # << >> /\ UNCHANGED <<power, bluetoothState>> /\ power \in BOOLEAN
      /\ Head(queue) \in Block
  BY TakeHead DEF SerialQueue, model, Queued
<1>2. ASSUME queue' = Tail(queue)
      PROVE  /\ Head(queue).kind # "update" /\ UpdatePending => UpdatePending'
             /\ UpdatePending' => UpdatePending
  BY <1>1, <1>2, UpdateTaken
<1>3. tasks' = tasks => (StateIsSaid => StateIsSaid')
  BY <1>1 DEF StateIsSaid, StateComes
<1>4. CASE StartBlock
  <2>1. CASE central
    <3>1. /\ queue' = Tail(queue) /\ scanRequested' = TRUE /\ central' = TRUE
          /\ isScanning' = (isScanning \/ power) /\ tasks' = tasks
      BY <1>4, <2>1 DEF StartBlock, Started, BeginScanIfReady, Settling
    <3>2. UpdatePending => UpdatePending'
      BY <1>2, <1>4, <3>1 DEF StartBlock
    <3> QED
      BY <1>1, <1>3, <2>1, <3>1, <3>2 DEF Settling
  <2>2. CASE ~ central
    <3>1. /\ queue' = Append(Tail(queue), [kind |-> "update"])
          /\ isScanning' = FALSE /\ scanRequested' = TRUE /\ central' = TRUE
      BY <1>4, <2>2 DEF StartBlock
    <3>2. UpdatePending'
      <4>1. Tail(queue) \in Seq(Block) /\ [kind |-> "update"] \in Block
        BY <1>1, TakeHead DEF Queued, Block
      <4>2. Len(queue') \in 1 .. Len(queue') /\ queue'[Len(queue')].kind = "update"
        BY <3>1, <4>1, PutLast
      <4> QED
        BY <4>2 DEF UpdatePending
    <3> QED
      BY <3>1, <3>2 DEF Settling
  <2> QED
    BY <2>1, <2>2
<1>5. CASE StopBlock
  <2>1. /\ queue' = Tail(queue) /\ scanRequested' = FALSE /\ isScanning' = FALSE
        /\ central' = central /\ tasks' = tasks /\ Head(queue).kind # "update"
    BY <1>5 DEF StopBlock
  <2> QED
    BY <1>2, <1>3, <2>1 DEF Settling
<1>6. CASE UpdateState
  <2>1. /\ isScanning' = (isScanning \/ (power /\ scanRequested))
        /\ tasks' = Append(tasks, [kind |-> "state", on |-> power])
        /\ UNCHANGED <<central, scanRequested>>
    BY <1>6 DEF UpdateState, BeginScanIfReady
  <2>2. [kind |-> "state", on |-> power] \in Event
    BY <1>1 DEF Event
  <2>3. StateIsSaid'
    <3> DEFINE i == Len(tasks) + 1
    <3>1. /\ i \in 1 .. Len(tasks') /\ Len(tasks') = i
          /\ tasks'[i] = [kind |-> "state", on |-> power]
      BY <2>1, <2>2, PutLast DEF Queued
    <3>2. /\ tasks'[i].kind = "state" /\ tasks'[i].on = power'
          /\ \A j \in i + 1 .. Len(tasks') : tasks'[j].kind # "state"
      BY <1>1, <3>1
    <3> HIDE DEF i
    <3> QED
      BY <3>1, <3>2 DEF StateIsSaid, StateComes
  <2>4. central'
    <3>1. Len(queue) \in Nat \ {0} /\ queue[1] = Head(queue)
      BY <1>1, TakeHead DEF Queued
    <3>2. UpdatePending
      BY <1>6, <3>1 DEF UpdateState, UpdatePending
    <3> QED
      BY <2>1, <3>2 DEF Settling
  <2>5. /\ isScanning' \in BOOLEAN /\ scanRequested' \in BOOLEAN /\ central' \in BOOLEAN
        /\ isScanning' => scanRequested' /\ power' /\ central'
        /\ central' => (isScanning' <=> scanRequested' /\ power')
    BY <1>1, <2>1, <2>4 DEF Settling
  <2> QED
    BY <2>3, <2>4, <2>5 DEF Settling
<1>7. CASE DidDiscover
  <2>1. queue' = Tail(queue) /\ Head(queue).kind \in {"frame", "junk"}
        /\ UNCHANGED <<central, scanRequested, isScanning>>
    BY <1>7 DEF DidDiscover
  <2>2. UpdatePending <=> UpdatePending'
    BY <1>2, <2>1
  <2>3. PICK event \in Event : event.kind # "state" /\ tasks' = Append(tasks, event)
    <3>1. CASE Head(queue).kind = "frame"
      <4>1. Head(queue).packet \in OnAir
        BY <1>1, <3>1 DEF Block
      <4>2. tasks' = Append(tasks, Action(Head(queue).packet))
        BY <1>7, <3>1 DEF DidDiscover
      <4> QED
        BY <4>1, <4>2, ActionIsEvent
    <3>2. CASE Head(queue).kind = "junk"
      <4>1. Head(queue) \in Event
        BY <1>1, <3>2 DEF Block, Event, Line
      <4> QED
        BY <1>7, <3>2, <4>1 DEF DidDiscover
    <3> QED
      BY <2>1, <3>1, <3>2
  <2>4. StateIsSaid => StateIsSaid'
    BY <1>1, <2>3, OtherEventPut
  <2> QED
    BY <1>1, <2>1, <2>2, <2>4 DEF Settling
<1> QED
  BY <1>4, <1>5, <1>6, <1>7 DEF SerialQueue

LEMMA AlwaysSettling == WSpec => []Settling
<1>1. WInit => Settling
  <2> SUFFICES ASSUME WInit PROVE Settling
    OBVIOUS
  <2>1. ~ UpdatePending
    BY EmptySeq DEF WInit, UpdatePending
  <2> QED
    BY <2>1 DEF WInit, Settling
<1>2. Queued /\ Settling /\ [WNext]_wvars => Settling'
  <2> SUFFICES ASSUME Queued, Settling, [WNext]_wvars PROVE Settling'
    OBVIOUS
  <2>1. CASE Outside
    BY <2>1, OutsideSettles
  <2>2. CASE SerialQueue
    BY <2>2, SerialQueueSettles
  <2>3. CASE MainActor
    <3>1. UNCHANGED <<power, central, scanRequested, isScanning, queue>>
      BY <2>3 DEF MainActor, scanner
    <3>2. StateIsSaid => StateIsSaid'
      BY <2>3, StateShown
    <3> QED
      BY <3>1, <3>2 DEF Settling, UpdatePending
  <2>4. CASE UNCHANGED wvars
    BY <2>4 DEF wvars, scanner, model, Settling, UpdatePending, StateIsSaid, StateComes, StateName
  <2> QED
    BY <2>1, <2>2, <2>3, <2>4 DEF WNext
<1> QED
  BY <1>1, <1>2, AlwaysQueued, PTL DEF WSpec

\* Once the queue has run, the monitor scans exactly if it was last asked to and
\* the radio is on, and the screen says which: for every order of start, stop
\* and the radio's changes (MeshScanner).
THEOREM ScannerSettles == WSpec => []MonitorSettles
<1>1. Queued /\ Settling => MonitorSettles
  <2> SUFFICES ASSUME Queued, Settling, queue = << >>, central
               PROVE  /\ isScanning <=> scanRequested /\ power
                      /\ tasks = << >> => bluetoothState = StateName(power)
    BY DEF MonitorSettles
  <2>1. ~ UpdatePending
    BY EmptySeq DEF UpdatePending
  <2>2. (isScanning <=> scanRequested /\ power) /\ StateIsSaid
    BY <2>1 DEF Settling
  <2>3. tasks = << >> => ~ StateComes(power)
    BY DEF StateComes
  <2> QED
    BY <2>2, <2>3 DEF StateIsSaid
<1> QED
  BY <1>1, AlwaysQueued, AlwaysSettling, PTL

----------------------------------------------------------------------------
(***************************************************************************)
(* The feed and the counters.                                              *)
(***************************************************************************)

Source == [messages : Nat, lastTTL : {packet.ttl : packet \in Shown} \cup {0}]

\* The lines a sender is counted for, and those delivered.
LinesOf(src) ==
  {i \in 1 .. Len(lines) : lines[i].kind # "junk" /\ lines[i].packet.msg.src = src}

Delivered == {i \in 1 .. Len(lines) : lines[i].kind = "deliver"}

Newest ==
  [i \in 1 .. IF Len(lines) < feedLimit THEN Len(lines) ELSE feedLimit |->
     lines[Len(lines) + 1 - i]]

\* What is shown of a sender is what the lines say.
Told(src) ==
  /\ sources[src].messages = Cardinality(LinesOf(src))
  /\ \A i \in LinesOf(src) :
       (\A j \in LinesOf(src) : j <= i) => sources[src].lastTTL = lines[i].packet.ttl

Reduced ==
  /\ lines \in Seq(Line) /\ feed = Newest
  /\ sources \in [Senders -> Source]
  /\ \A src \in Senders : Told(src)
  /\ messagesDelivered \in Nat /\ messagesDelivered = Cardinality(Delivered)

\* One more line, put in front and cut at the limit, is what is newest then.
LEMMA LinePut ==
  ASSUME Reduced, NEW line \in Line, AppendLine(line)
  PROVE  lines' \in Seq(Line) /\ feed' = Newest'
<1> DEFINE L == Len(lines)
           n == IF L < feedLimit THEN L ELSE feedLimit
           long == <<line>> \o feed
<1>0. feedLimit \in Nat \ {0}
  BY FeedAssumption
<1>1. /\ lines' = Append(lines, line) /\ lines \in Seq(Line) /\ L \in Nat
      /\ lines' \in Seq(Line) /\ Len(lines') = L + 1 /\ lines'[L + 1] = line
      /\ \A i \in 1 .. L : lines'[i] = lines[i]
  BY PutLast DEF AppendLine, Reduced
<1>2. /\ n \in Nat /\ feed \in [1 .. n -> Line]
      /\ \A i \in 1 .. n : feed[i] = lines[L + 1 - i]
  <2>1. feed = [i \in 1 .. n |-> lines[L + 1 - i]] /\ n \in Nat /\ n <= L
    BY <1>0, <1>1 DEF Reduced, Newest
  <2>2. \A i \in 1 .. n : lines[L + 1 - i] \in Line
    BY <1>1, <2>1, ElementOfSeq
  <2> QED
    BY <2>1, <2>2
<1>3. feed \in Seq(Line) /\ Len(feed) = n
  <2> HIDE DEF n
  <2>1. feed \in Seq(Line) /\ DOMAIN feed = 1 .. n
    BY <1>2, SeqDef
  <2> QED
    BY <1>2, <2>1, LenProperties
<1>4. /\ long \in Seq(Line) /\ Len(long) = n + 1
      /\ long[1] = line /\ \A i \in 1 .. n : long[i + 1] = feed[i]
  BY <1>2, <1>3
<1> DEFINE m == IF L + 1 < feedLimit THEN L + 1 ELSE feedLimit
<1>5. /\ m \in Nat /\ m <= n + 1 /\ m = (IF n + 1 > feedLimit THEN feedLimit ELSE n + 1)
  BY <1>0, <1>1
<1>6. feed' = SubSeq(long, 1, m)
  BY <1>4, <1>5 DEF AppendLine, Cut
<1> HIDE DEF long, m
<1>7. /\ feed' \in Seq(Line) /\ Len(feed') = m
      /\ \A i \in 1 .. m : feed'[i] = long[i]
  BY <1>4, <1>5, <1>6
<1>8. \A i \in 1 .. m : feed'[i] = lines'[L + 2 - i]
  <2> SUFFICES ASSUME NEW i \in 1 .. m PROVE feed'[i] = lines'[L + 2 - i]
    OBVIOUS
  <2>1. CASE i = 1
    BY <1>1, <1>4, <1>7, <2>1
  <2>2. CASE i # 1
    <3>1. i - 1 \in 1 .. n /\ n <= L
      BY <1>0, <1>1, <1>5, <2>2
    <3>2. feed'[i] = feed[i - 1] /\ feed[i - 1] = lines[L + 2 - i]
      BY <1>2, <1>4, <1>7, <3>1
    <3>3. L + 2 - i \in 1 .. L
      <4>1. i \in Nat /\ i >= 2 /\ i - 1 <= L
        BY <1>5, <2>2, <3>1
      <4> QED
        BY <1>1, <4>1
    <3> QED
      BY <1>1, <3>2, <3>3
  <2> QED
    BY <2>1, <2>2
<1>9. feed' = [i \in 1 .. m |-> lines'[Len(lines') + 1 - i]]
  <2>1. feed' = [i \in 1 .. m |-> feed'[i]]
    BY <1>5, <1>7, LenProperties
  <2>2. \A i \in 1 .. m : Len(lines') + 1 - i = L + 2 - i
    BY <1>1, <1>5
  <2> QED
    BY <1>8, <2>1, <2>2
<1> QED
  BY <1>1, <1>9 DEF Newest, m

\* A set of positions, and the same with the position after the last.
LEMMA OneMore ==
  ASSUME NEW L \in Nat, NEW A \in SUBSET (1 .. L)
  PROVE  Cardinality(A) \in Nat /\ Cardinality(A \cup {L + 1}) = Cardinality(A) + 1
<1>1. IsFiniteSet(A)
  <2>1. 1 \in Int /\ L \in Int
    OBVIOUS
  <2>2. IsFiniteSet(1 .. L)
    BY <2>1, FS_Interval
  <2> QED
    BY <2>2, FS_Subset
<1>2. L + 1 \notin A
  OBVIOUS
<1> QED
  BY <1>1, <1>2, FS_CardinalityType, FS_AddElement

\* What the line adds to the positions that are counted.
LEMMA Counts ==
  ASSUME lines \in Seq(Line), NEW line \in Line, AppendLine(line)
  PROVE  /\ Len(lines) \in Nat
         /\ Delivered' = IF line.kind = "deliver" THEN Delivered \cup {Len(lines) + 1} ELSE Delivered
         /\ \A src : LinesOf(src)' =
              IF line.kind # "junk" /\ line.packet.msg.src = src
              THEN LinesOf(src) \cup {Len(lines) + 1} ELSE LinesOf(src)
<1>1. /\ Len(lines) \in Nat
      /\ Len(lines') = Len(lines) + 1 /\ lines'[Len(lines) + 1] = line
      /\ \A i \in 1 .. Len(lines) : lines'[i] = lines[i]
  BY PutLast DEF AppendLine
<1>2. /\ 1 .. Len(lines') = 1 .. Len(lines) \cup {Len(lines) + 1}
      /\ Len(lines) + 1 \notin 1 .. Len(lines)
  BY <1>1
<1>3. Delivered' = IF line.kind = "deliver" THEN Delivered \cup {Len(lines) + 1} ELSE Delivered
  BY <1>1, <1>2 DEF Delivered
<1>4. ASSUME NEW src
      PROVE  LinesOf(src)' = IF line.kind # "junk" /\ line.packet.msg.src = src
                             THEN LinesOf(src) \cup {Len(lines) + 1} ELSE LinesOf(src)
  BY <1>1, <1>2 DEF LinesOf
<1> QED
  BY <1>1, <1>3, <1>4

\* A message shown: it is noted for its sender, and it is a line.
LEMMA MessageReduces ==
  ASSUME Reduced, NEW event \in Event, event.kind \in {"deliver", "forward"},
         HandleEvent(event)
  PROVE  Reduced'
<1>1. /\ event \in Line /\ AppendLine(event) /\ event.packet \in Shown
      /\ sources' = [sources EXCEPT ![event.packet.msg.src] =
                       [messages |-> @.messages + 1, lastTTL |-> event.packet.ttl]]
      /\ messagesDelivered' =
           messagesDelivered + (IF event.kind = "deliver" THEN 1 ELSE 0)
  <2>1. event \in Line /\ event.packet \in Shown
    BY DEF Event, Line
  <2> QED
    BY <2>1 DEF HandleEvent, Note
<1>2. lines' \in Seq(Line) /\ feed' = Newest'
  BY <1>1, LinePut
<1> DEFINE next == Len(lines) + 1
           sender == event.packet.msg.src
<1>3. /\ Len(lines) \in Nat
      /\ Delivered' = IF event.kind = "deliver" THEN Delivered \cup {next} ELSE Delivered
      /\ \A src : LinesOf(src)' =
           IF sender = src THEN LinesOf(src) \cup {next} ELSE LinesOf(src)
  <2>1. /\ Len(lines) \in Nat
        /\ Delivered' = IF event.kind = "deliver" THEN Delivered \cup {next} ELSE Delivered
        /\ \A src : LinesOf(src)' =
             IF event.kind # "junk" /\ sender = src THEN LinesOf(src) \cup {next} ELSE LinesOf(src)
    BY <1>1, Counts DEF Reduced
  <2> QED
    BY <2>1
<1>4. messagesDelivered' \in Nat /\ messagesDelivered' = Cardinality(Delivered')
  <2>1. Delivered \in SUBSET (1 .. Len(lines))
    BY DEF Delivered
  <2>2. /\ Cardinality(Delivered) \in Nat
        /\ Cardinality(Delivered \cup {next}) = Cardinality(Delivered) + 1
    BY <1>3, <2>1, OneMore
  <2> QED
    BY <1>1, <1>3, <2>2 DEF Reduced
<1>5. sources' \in [Senders -> Source]
  <2>1. sources \in [Senders -> Source] /\ event.packet.ttl \in {p.ttl : p \in Shown} \cup {0}
    BY <1>1 DEF Reduced
  <2>2. CASE sender \in Senders
    <3>1. sources[sender].messages + 1 \in Nat
      BY <2>1, <2>2 DEF Source
    <3>2. [messages |-> sources[sender].messages + 1, lastTTL |-> event.packet.ttl] \in Source
      BY <2>1, <3>1 DEF Source
    <3> QED
      BY <1>1, <2>1, <2>2, <3>2
  <2>3. CASE sender \notin Senders
    BY <1>1, <2>1, <2>3
  <2> QED
    BY <2>2, <2>3
<1>6. ASSUME NEW src \in Senders PROVE Told(src)'
  <2>1. /\ LinesOf(src) \in SUBSET (1 .. Len(lines)) /\ Told(src)
        /\ sources \in [Senders -> Source]
    BY DEF LinesOf, Reduced
  <2>2. \A i \in 1 .. Len(lines) : lines'[i] = lines[i]
    BY <1>1, PutLast DEF AppendLine, Reduced
  <2>3. lines'[next] = event
    BY <1>1, PutLast DEF AppendLine, Reduced
  <2>4. CASE sender = src
    <3>1. LinesOf(src)' = LinesOf(src) \cup {next}
      BY <1>3, <2>4
    <3>2. /\ sources'[src].messages = sources[src].messages + 1
          /\ sources'[src].lastTTL = event.packet.ttl
      BY <1>1, <2>1, <2>4
    <3>3. sources'[src].messages = Cardinality(LinesOf(src)')
      BY <1>3, <2>1, <3>1, <3>2, OneMore DEF Told
    <3>4. ASSUME NEW i \in LinesOf(src)', \A j \in LinesOf(src)' : j <= i
          PROVE  sources'[src].lastTTL = lines'[i].packet.ttl
      <4>1. next <= i /\ i \in LinesOf(src) \cup {next}
        BY <3>1, <3>4
      <4>2. i = next
        BY <1>3, <2>1, <4>1
      <4> QED
        BY <2>3, <3>2, <4>2
    <3> QED
      BY <3>3, <3>4 DEF Told
  <2>5. CASE sender # src
    <3>1. LinesOf(src)' = LinesOf(src) /\ sources'[src] = sources[src]
      BY <1>1, <1>3, <2>1, <2>5
    <3>2. \A i \in LinesOf(src) : lines'[i] = lines[i]
      BY <2>1, <2>2
    <3> QED
      BY <2>1, <3>1, <3>2 DEF Told
  <2> QED
    BY <2>4, <2>5
<1> QED
  BY <1>2, <1>4, <1>5, <1>6 DEF Reduced

\* A line about frames that do not decode counts for nobody.
LEMMA JunkReduces ==
  ASSUME Reduced, NEW event \in Event, event.kind = "junk", AppendLine(event),
         UNCHANGED <<sources, messagesDelivered>>
  PROVE  Reduced'
<1>1. event \in Line
  BY DEF Event
<1>2. lines' \in Seq(Line) /\ feed' = Newest'
  BY <1>1, LinePut
<1>3. Delivered' = Delivered /\ \A src : LinesOf(src)' = LinesOf(src)
  BY <1>1, Counts DEF Reduced
<1>4. ASSUME NEW src \in Senders PROVE Told(src)'
  <2>1. LinesOf(src) \in SUBSET (1 .. Len(lines)) /\ Told(src)
    BY DEF LinesOf, Reduced
  <2>2. \A i \in LinesOf(src) : lines'[i] = lines[i]
    BY <1>1, <2>1, PutLast DEF AppendLine, Reduced
  <2>3. LinesOf(src)' = LinesOf(src)
    BY <1>3
  <2> QED
    BY <2>1, <2>2, <2>3 DEF Told
<1> QED
  BY <1>2, <1>3, <1>4 DEF Reduced

LEMMA AlwaysReduced == WSpec => []Reduced
<1>1. WInit => Reduced
  <2> SUFFICES ASSUME WInit PROVE Reduced
    OBVIOUS
  <2>1. lines = << >> /\ feed = << >> /\ messagesDelivered = 0
        /\ sources = [src \in Senders |-> [messages |-> 0, lastTTL |-> 0]]
    BY DEF WInit
  <2>2. lines \in Seq(Line) /\ Len(lines) = 0 /\ 1 .. Len(lines) = {}
    BY <2>1, EmptySeq
  <2>3. feed = Newest
    BY <2>1, <2>2, FeedAssumption DEF Newest
  <2>4. Delivered = {} /\ \A src : LinesOf(src) = {}
    BY <2>2 DEF Delivered, LinesOf
  <2>5. Cardinality({}) = 0
    BY FS_EmptySet
  <2>6. sources \in [Senders -> Source]
    BY <2>1 DEF Source
  <2> QED
    BY <2>1, <2>2, <2>3, <2>4, <2>5, <2>6 DEF Reduced, Told
<1>2. Queued /\ Reduced /\ [WNext]_wvars => Reduced'
  <2> SUFFICES ASSUME Queued, Reduced, [WNext]_wvars PROVE Reduced'
    OBVIOUS
  <2>1. ASSUME UNCHANGED <<feed, lines, sources, messagesDelivered>> PROVE Reduced'
    BY <2>1 DEF Reduced, Told, Delivered, LinesOf, Newest
  <2>2. CASE MainActor
    <3>1. Head(tasks) \in Event
      BY <2>2, TakeHead DEF MainActor, Queued
    <3>2. CASE HandleEvent(Head(tasks))
      <4>1. CASE Head(tasks).kind = "ignore"
        <5>1. messagesDelivered' = messagesDelivered + 0
          BY <3>2, <4>1 DEF HandleEvent
        <5>2. messagesDelivered' = messagesDelivered
          BY <5>1 DEF Reduced
        <5> QED
          BY <2>1, <3>2, <4>1, <5>2 DEF HandleEvent
      <4>2. CASE Head(tasks).kind # "ignore"
        BY <3>1, <3>2, <4>2, MessageReduces DEF HandleEvent
      <4> QED
        BY <4>1, <4>2
    <3>3. CASE HandleUndecodable(Head(tasks))
      BY <2>1, <3>1, <3>3, JunkReduces DEF HandleUndecodable
    <3>4. CASE HandleState(Head(tasks))
      BY <2>1, <3>4 DEF HandleState
    <3> QED
      BY <2>2, <3>2, <3>3, <3>4 DEF MainActor
  <2>3. CASE Outside \/ SerialQueue \/ UNCHANGED wvars
    BY <2>1, <2>3 DEF Outside, SerialQueue, wvars, model
  <2> QED
    BY <2>2, <2>3 DEF WNext
<1> QED
  BY <1>1, <1>2, AlwaysQueued, PTL DEF WSpec

\* The feed is the newest lines, newest first, and the counters are those of
\* all lines there ever were, for every limit (MonitorModel).
THEOREM FeedIsReduced == WSpec => []FeedIsNewest
<1>1. Reduced => FeedIsNewest
  <2> SUFFICES ASSUME Reduced PROVE FeedIsNewest
    OBVIOUS
  <2>1. DOMAIN lines = 1 .. Len(lines)
    BY LenProperties DEF Reduced
  <2>2. /\ Delivered = {i \in DOMAIN lines : lines[i].kind = "deliver"}
        /\ \A src : LinesOf(src) = {i \in DOMAIN lines : lines[i].kind # "junk"
                                                         /\ lines[i].packet.msg.src = src}
    BY <2>1 DEF Delivered, LinesOf
  <2> QED
    BY <2>2 DEF Reduced, Told, Newest, FeedIsNewest
<1> QED
  BY <1>1, AlwaysReduced, PTL
============================================================================
