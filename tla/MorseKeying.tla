---------------------------- MODULE MorseKeying ----------------------------
(***************************************************************************)
(* The Morse node together with what its user has keyed, told without the  *)
(* composer: the letters and spaces of the message since the last send or  *)
(* clear, and the elements of the letter not yet committed.                *)
(***************************************************************************)
EXTENDS MorseInput

VARIABLES
  typed,                    \* history: the letters and spaces keyed
  keyed,                    \* history: accepted elements of the open letter
  abandoned                 \* history: a clear in the middle of a letter may
                            \* still show in the message

history == <<typed, keyed, abandoned>>
kvars == <<mvars, history>>

KInit ==
  /\ MInit
  /\ typed = << >>
  /\ keyed = << >>
  /\ abandoned = FALSE

LetterEnds ==
  /\ typed' = IF keyed = << >> THEN typed ELSE Append(typed, keyed)
  /\ keyed' = << >>

\* A message begins: it is tainted if the decoder still holds a character.
MessageBegins ==
  /\ typed' = << >>
  /\ keyed' = << >>
  /\ abandoned' = (composer'.character # << >>)

\* A word ends at most once, in a message that has begun and has room.
WordEnds ==
  typed' = IF typed # << >> /\ Last(typed) # Space /\ Len(typed) < MAX
           THEN Append(typed, Space)
           ELSE typed

Quiet ==
  /\ \/ \E b \in Button : Press(b) \/ HoldElapses(b) \/ Release(b) \/ Emit(b)
     \/ \E s \in Symbol : RefuseSymbol(s)
     \/ TakeText
  /\ UNCHANGED history

Keys ==
  /\ \E s \in Symbol : AcceptSymbol(s) /\ keyed' = Append(keyed, s)
  /\ UNCHANGED <<typed, abandoned>>

Finishes ==
  /\ Finish
  /\ IF at' = "send" THEN LetterEnds /\ UNCHANGED abandoned ELSE MessageBegins

KNext ==
  \/ Quiet
  \/ Keys
  \/ Finishes
  \/ (SendText \/ ClearMessage) /\ MessageBegins
  \/ LetterTimer /\ LetterEnds /\ UNCHANGED abandoned
  \/ WordTimer /\ WordEnds /\ UNCHANGED <<keyed, abandoned>>

KSpec == KInit /\ [][KNext]_kvars

\* The message in the composer, which is also the one being sent, is the one
\* keyed: every letter with exactly its accepted elements, one space between
\* words, none at the front or past the cap.  Presses that arrive while the
\* task waits for the router, and a timer armed for an earlier letter, change
\* nothing of it (compose_task).  A letter abandoned by a clear is the
\* exception.
ComposedAsKeyed ==
  abandoned \/ (composer.message = typed /\ composer.character = keyed)

\* Between events, an open letter always has its commit armed, and no timer of
\* an earlier message is left: otherwise two letters would merge, or a space
\* would go into a message just begun (compose_task).
TimerFitsLetter ==
  /\ MTypeOK
  /\ at = "select" =>
    /\ (pending = "letter") <=> (elements # << >>)
    /\ pending = "word" => composer.message # << >>
    /\ composer.letter_in_progress <=> (elements # << >>)

\* What `clear` promises (poholos-morse/src/lib.rs:120): it discards the whole
\* message and resets the state, so that no element keyed before it shows up in
\* a message after it.
ClearDiscardsAll == composer.message = typed
============================================================================
