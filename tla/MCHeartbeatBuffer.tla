------------------------- MODULE MCHeartbeatBuffer -------------------------
(* Small instances of HeartbeatBuffer for TLC. *)
EXTENDS HeartbeatBuffer, TLC

CONSTANTS n1, n2, f1, f2

OneNode == {n1}

TwoNodes == {n1, n2}

OneFlush == {f1}

TwoFlushes == {f1, f2}

\* Flushes are interchangeable.  Used by the run that checks invariants only.
FlushSymmetry == Permutations(TwoFlushes)
=============================================================================
