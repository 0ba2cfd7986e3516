----------------------------- MODULE ShedQueue -----------------------------
(***************************************************************************)
(* The bounded queue discipline used wherever poholos prefers fresh input: *)
(* a push onto a full queue sheds the oldest entry.                        *)
(***************************************************************************)
EXTENDS Naturals, Sequences

\* Mutant of PushShedding: a full queue refuses the new entry instead.
PushRefusing(queue, item, capacity) ==
  IF Len(queue) = capacity THEN queue ELSE Append(queue, item)

\* Mutant of PushShedding: nothing is shed.
PushUnbounded(queue, item, capacity) == Append(queue, item)

PushShedding(queue, item, capacity) ==
  IF Len(queue) = capacity
  THEN Append(Tail(queue), item)
  ELSE Append(queue, item)
============================================================================
