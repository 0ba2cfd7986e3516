---------------------------- MODULE MorseInput ----------------------------
(***************************************************************************)
(* Keying a message on the Morse node: the two button tasks, the composer  *)
(* task with its idle timer, and the channels between them and to the      *)
(* router task (crates/poholos-microbit-morse/src/main.rs).                *)
(*                                                                         *)
(* Tasks interleave at their awaits.  Timers are abstracted to the order   *)
(* of events: a press lasts long enough to be a hold or it does not, and   *)
(* an armed idle timer fires in some moment in which no input is queued    *)
(* (select polls the input first).  What is flashed, beeped and logged is  *)
(* left out; none of it is read back.                                      *)
(***************************************************************************)
EXTENDS MorseComposer

CONSTANTS
  INPUT,                    \* capacity of the channel INPUT (16)
  COMPOSE                   \* capacity of the channel COMPOSE (4)

ASSUME QueueAssumption == {INPUT, COMPOSE} \subseteq Nat \ {0}

Button == {"A", "B"}
Tap == [A |-> "dot", B |-> "dash"]
Hold == [A |-> "send", B |-> "clear"]
InputEvent == Symbol \cup {"send", "clear"}

VARIABLES
  button,                   \* what each button task is doing
  input,                    \* events in INPUT
  queued,                   \* number of texts in COMPOSE
  at,                       \* compose_task: at its select, or sending a text
  composer,
  elements,                 \* of the letter being entered, as displayed
  pending                   \* what the idle timer will do

task == <<at, composer, elements, pending>>
mvars == <<button, input, queued, task>>

MInit ==
  /\ button = [b \in Button |-> "released"]
  /\ input = << >>
  /\ queued = 0
  /\ at = "select"
  /\ composer = New
  /\ elements = << >>
  /\ pending = "none"

----------------------------------------------------------------------------
(***************************************************************************)
(* The user and button_task.  Presses while the task sends or debounces    *)
(* are not seen by it.                                                     *)
(***************************************************************************)

Becomes(b, from, to) ==
  /\ button[b] = from
  /\ button' = [button EXCEPT ![b] = to]
  /\ UNCHANGED <<input, queued, task>>

Press(b) == Becomes(b, "released", "pressed")
HoldElapses(b) == Becomes(b, "pressed", "held")
Release(b) == Becomes(b, "pressed", "tap") \/ Becomes(b, "held", "hold")

\* The sent event, once the channel has room for it.
Emit(b) ==
  /\ button[b] \in {"tap", "hold"}
  /\ Len(input) < INPUT
  /\ input' = Append(input, IF button[b] = "tap" THEN Tap[b] ELSE Hold[b])
  /\ button' = [button EXCEPT ![b] = "released"]
  /\ UNCHANGED <<queued, task>>

----------------------------------------------------------------------------
(***************************************************************************)
(* compose_task.                                                           *)
(***************************************************************************)

\* commit_letter, when elements are on display.
CommitLetter == IF elements = << >> THEN composer ELSE LetterGap(composer)

Receives(event) ==
  /\ at = "select"
  /\ input # << >>
  /\ Head(input) = event
  /\ input' = Tail(input)
  /\ UNCHANGED button

\* A press is refused, visibly, when the message or the letter is full.
Refused == IsFull(composer) \/ Len(elements) >= MAX_MORSE

RefuseSymbol(s) ==
  /\ Receives(s)
  /\ Refused
  /\ UNCHANGED <<queued, task>>

\* Mutant of AcceptSymbol: the timer keeps the phase it was armed for.
AcceptSymbolUnarmed(s) ==
  /\ Receives(s)
  /\ ~ Refused
  /\ composer' = AddSymbol(composer, s)
  /\ elements' = Append(elements, s)
  /\ pending' = IF pending = "none" THEN "letter" ELSE pending
  /\ UNCHANGED <<queued, at>>

AcceptSymbol(s) ==
  /\ Receives(s)
  /\ ~ Refused
  /\ composer' = AddSymbol(composer, s)
  /\ elements' = Append(elements, s)
  /\ pending' = "letter"
  /\ UNCHANGED <<queued, at>>

\* What follows a sent and a cleared message alike.
StartOver ==
  /\ elements' = << >>
  /\ pending' = "none"

\* The send gesture commits the letter; with nothing to send the composer
\* starts over, otherwise the task waits for room in COMPOSE.
Finish ==
  /\ Receives("send")
  /\ IF IsEmpty(CommitLetter)
     THEN /\ composer' = Clear(CommitLetter)
          /\ StartOver
          /\ UNCHANGED at
     ELSE /\ at' = "send"
          /\ composer' = CommitLetter
          /\ elements' = << >>
          /\ UNCHANGED pending
  /\ UNCHANGED queued

SendText ==
  /\ at = "send"
  /\ queued < COMPOSE
  /\ queued' = queued + 1
  /\ at' = "select"
  /\ composer' = Clear(composer)
  /\ StartOver
  /\ UNCHANGED <<button, input>>

ClearMessage ==
  /\ Receives("clear")
  /\ composer' = Clear(composer)
  /\ StartOver
  /\ UNCHANGED <<queued, at>>

TimerFires(phase) ==
  /\ at = "select"
  /\ input = << >>
  /\ pending = phase
  /\ UNCHANGED <<button, input, queued, at>>

LetterTimer ==
  /\ TimerFires("letter")
  /\ composer' = CommitLetter
  /\ elements' = << >>
  /\ pending' = "word"

WordTimer ==
  /\ TimerFires("word")
  /\ composer' = WordGap(composer)
  /\ pending' = "none"
  /\ UNCHANGED elements

----------------------------------------------------------------------------
\* router_task takes a text when it gets to it.
TakeText ==
  /\ queued > 0
  /\ queued' = queued - 1
  /\ UNCHANGED <<button, input, task>>

MTypeOK ==
  /\ button \in [Button -> {"released", "pressed", "held", "tap", "hold"}]
  /\ input \in Seq(InputEvent) /\ Len(input) <= INPUT
  /\ queued \in 0 .. COMPOSE
  /\ at \in {"select", "send"}
  /\ composer.character \in Letters \cup {Space}
  /\ \A i \in DOMAIN composer.message :
       composer.message[i] \in Letters \cup {Space}
  /\ Len(composer.message) <= MAX
  /\ elements \in Letters \cup {Space}
  /\ pending \in {"none", "letter", "word"}
============================================================================
