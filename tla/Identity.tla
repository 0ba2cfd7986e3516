------------------------------ MODULE Identity ------------------------------
(***************************************************************************)
(* Node identities, crates/poholos/src/node_id.rs.  A name is a sequence   *)
(* of characters, a few for each class the code tells apart; the wire id   *)
(* of a node is a hash of its full name, taken to be injective, so that    *)
(* the full name stands for it.                                            *)
(***************************************************************************)
EXTENDS Naturals, Sequences

MAX_NAME_LEN == 16

HexDigit == {"0", "9", "a", "f"}
NameChar == HexDigit \cup {"g", "z", "-"}   \* [a-z0-9-]

Dash(s) == {i \in DOMAIN s : s[i] = "-"}

\* validate_name
ValidName(name) ==
  /\ Len(name) \in 1 .. MAX_NAME_LEN
  /\ \A i \in DOMAIN name : name[i] \in NameChar
  /\ Dash(name) \cap {1, Len(name)} = {}

\* NodeId::new: the four hex digits come from the caller's entropy.
NodeIdNew(name, suffix) ==
  IF ValidName(name) THEN {name \o <<"-">> \o suffix} ELSE {}

\* Mutant of ParsesAt: the name ends at its first dash.
ParsesAtFirst(s, i) ==
  /\ \A j \in Dash(s) : i <= j
  /\ Len(s) - i = 4 /\ \A j \in i + 1 .. Len(s) : s[j] \in HexDigit
  /\ ValidName(SubSeq(s, 1, i - 1))

\* The dash at i is the last one and separates a valid name from a suffix.
ParsesAt(s, i) ==
  /\ \A j \in Dash(s) : j <= i
  /\ Len(s) - i = 4 /\ \A j \in i + 1 .. Len(s) : s[j] \in HexDigit
  /\ ValidName(SubSeq(s, 1, i - 1))

\* NodeId::parse
NodeIdParse(s) == IF \E i \in Dash(s) : ParsesAt(s, i) THEN {s} ELSE {}
============================================================================
