----------------------------- MODULE MCDBWrite -----------------------------
(* Instances of DBWrite for TLC.                                           *)
EXTENDS DBWrite, TLC

\* Write() calls are interchangeable (safety runs only).
WriterSymmetry == Permutations(Writer)

\* One and two operations, and NULL.
SmallBatches == {1, 2, NullBatch}

\* An empty WriteBatch is legal: its record has Count 0.
EdgeBatches == {0, 1}
=============================================================================
