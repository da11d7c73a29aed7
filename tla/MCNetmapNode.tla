---------------------------- MODULE MCNetmapNode ----------------------------
(* Small instances of NetmapNode for TLC. *)
EXTENDS NetmapNode, TLC

CONSTANTS k1, k2

OneKey == {k1}

TwoKeys == {k1, k2}

\* The keys are interchangeable.  Used by the runs that check invariants only.
KeySymmetry == Permutations(TwoKeys)
=============================================================================
