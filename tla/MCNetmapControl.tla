-------------------------- MODULE MCNetmapControl --------------------------
(* Small instances of NetmapControl for TLC. *)
EXTENDS NetmapControl, TLC

CONSTANTS n1, me, r1, r2

MCNodes == {n1, me}

MCRequests == {r1, r2}

\* Two requests in flight are interchangeable.
RequestSymmetry == Permutations(MCRequests)
=============================================================================
