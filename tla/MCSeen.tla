------------------------------ MODULE MCSeen ------------------------------
(* Caches of three keys hearing five, one of them the zero key: two can be *)
(* forgotten at any time.                                                  *)
EXTENDS SeenBackends

CONSTANTS k0, k1, k2, k3, k4

KeysMC == {k0, k1, k2, k3, k4}
============================================================================
