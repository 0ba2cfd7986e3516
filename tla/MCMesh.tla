------------------------------- MODULE MCMesh -------------------------------
(* Four nodes: a cycle a - b - c of three and d reached through c alone, so   *)
(* frames loop and the shortest way is not the only one.                      *)
EXTENDS MeshReach

CONSTANTS a, b, c, d

NodesMC == {a, b, c, d}

LinksMC ==
  LET E == {<<a, b>>, <<b, c>>, <<a, c>>, <<c, d>>}
  IN  E \cup {<<e[2], e[1]>> : e \in E}

\* a's hearsay and d's telegram to a.
TwoMessages == {[src |-> a, dest |-> Everyone, id |-> 1], [src |-> d, dest |-> a, id |-> 2]}
============================================================================
