----------------------------- MODULE MeshReach -----------------------------
(***************************************************************************)
(* What flooding promises when the radio is good: the mesh of module Mesh  *)
(* over a medium that is either the lossy one or a reliable one, as         *)
(* crates/poholos/tests/mesh.rs assumes when it pumps every frame to every *)
(* neighbour.                                                              *)
(***************************************************************************)
EXTENDS Mesh

VARIABLE reliable           \* every repeating frame is heard in range in the
                            \* end: transmissions do not fade, nobody restarts

fvars == <<vars, reliable>>

FInit == Init /\ reliable \in BOOLEAN

ReliableNext ==
  \/ \E msg \in Messages : Originate(msg)
  \/ \E t \in air, n \in Nodes : Hear(n, t)

FNext ==
  /\ \/ reliable /\ ReliableNext
     \/ ~ reliable /\ Next
  /\ UNCHANGED reliable

\* A reliable radio gets a fresh transmission to everyone in range.
HearFresh(n, t) ==
  /\ reliable
  /\ t \in air /\ IsFresh(n, seen[n], t.packet)
  /\ Hear(n, t)
  /\ UNCHANGED reliable

FSpec ==
  /\ FInit /\ [][FNext]_fvars
  /\ \A n \in Nodes, t \in Transmission : WF_fvars(HearFresh(n, t))

----------------------------------------------------------------------------
\* A reliable flood reaches everyone: with as many hops as there are other
\* nodes, every node is shown a hearsay message and the destination its
\* telegram, although a node forwards only the first copy it hears, which may
\* be the one with the fewest hops left (rule 2 of router.rs).
FloodReaches ==
  \A msg \in Messages, n \in Nodes :
    msg.src # n /\ msg.dest \in {n, Everyone} =>
      (reliable /\ msg \in typed ~> delivered[n][msg] = 1)
============================================================================
