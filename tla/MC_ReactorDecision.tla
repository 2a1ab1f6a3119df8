-------------------------- MODULE MC_ReactorDecision --------------------------
(* Small instances of ReactorDecision for TLC. *)
EXTENDS ReactorDecision, TLC

CONSTANTS r1, r2, k1, k2, k3

\* Nothing, both rows, the second alone: a nondeterministic body can decide
\* disjoint and overlapping batches.
MCBatches == {<<>>, <<k1, k2>>, <<k2>>}

\* The same with a row in an OCC-required category, which is refused.
MCBatchesOcc == {<<>>, <<k1, k2>>, <<k2>>, <<k3>>}

\* Batches that always meet: redeciding one after the other diverges.
MCBatchesOverlapping == {<<k1, k2>>, <<k2>>}

MCSymmetry == Permutations(Runner)
=============================================================================
