--------------------------- MODULE MorseComposer ---------------------------
(***************************************************************************)
(* The text composer of crates/poholos-morse/src/lib.rs: the value of a    *)
(* Composer and what each of its methods makes of it.                      *)
(*                                                                         *)
(* A letter is the sequence of its dots and dashes; which character it     *)
(* decodes to is the business of morse-codec.  A space is the letter with  *)
(* no elements.  Of morse-codec itself the composer uses a message of      *)
(* characters and, apart from it, the character being entered.             *)
(***************************************************************************)
EXTENDS Naturals, SequencesExt

CONSTANTS
  MAX,                      \* characters a message holds
  MAX_MORSE                 \* elements the decoder keeps of one character

ASSUME MaxAssumption == MAX \in Nat \ {0}
ASSUME MaxMorseAssumption == MAX_MORSE \in Nat \ {0}

Symbol == {"dot", "dash"}
Space == << >>
Letters == UNION {[1 .. n -> Symbol] : n \in 1 .. MAX_MORSE}

Composer ==
  [character : Letters \cup {Space},       \* the decoder: being entered
   message : Seq(Letters \cup {Space}),    \* the decoder: committed
   letter_in_progress : BOOLEAN,
   space_pending : BOOLEAN]

New == [character |-> << >>, message |-> << >>,
        letter_in_progress |-> FALSE, space_pending |-> FALSE]

IsFull(c) == Len(c.message) >= MAX

IsEmpty(c) == c.message = << >> /\ ~ c.letter_in_progress

----------------------------------------------------------------------------
(***************************************************************************)
(* morse-codec, as the composer relies on it.                              *)
(***************************************************************************)

\* Elements past the limit are dropped.
AddSignal(character, s) ==
  IF Len(character) < MAX_MORSE THEN Append(character, s) ELSE character

\* The character moves to the end of the message; in a full one it takes the
\* last place (clamping).
AddCurrentChar(c) ==
  [c EXCEPT !.character = << >>,
            !.message = IF Len(@) < MAX
                        THEN Append(@, c.character)
                        ELSE ReplaceAt(@, MAX, c.character)]

----------------------------------------------------------------------------
AddSymbol(c, s) ==
  IF IsFull(c) THEN c
  ELSE [c EXCEPT !.character = AddSignal(@, s),
                 !.letter_in_progress = TRUE,
                 !.space_pending = FALSE]

LetterGap(c) ==
  IF c.letter_in_progress
  THEN [AddCurrentChar(c) EXCEPT !.letter_in_progress = FALSE]
  ELSE c

\* Mutant of TakesSpace: nobody asks whether there is room.
TakesSpaceUncapped(d) == ~ d.space_pending /\ d.message # << >>

\* Whether a word gap adds a space to d, whose letter is committed.
TakesSpace(d) == ~ d.space_pending /\ d.message # << >> /\ ~ IsFull(d)

WordGap(c) ==
  LET d == LetterGap(c)
  IN  IF TakesSpace(d)
      THEN [AddCurrentChar(d) EXCEPT !.space_pending = TRUE]
      ELSE d

\* The message and the flags; the decoder keeps the character being entered.
Clear(c) == [c EXCEPT !.message = << >>,
                      !.letter_in_progress = FALSE,
                      !.space_pending = FALSE]
============================================================================
