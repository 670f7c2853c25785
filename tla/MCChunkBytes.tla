----------------------------- MODULE MCChunkBytes -----------------------------
(* ChunkBytes with three PUTs and two uploads in a row, whose chunk sizes   *)
(* may differ; three significant bits bring the limit of f64 down to 8.     *)
EXTENDS ChunkBytes, TLC

CONSTANTS r1, r2, r3
ThreePuts == {r1, r2, r3}
Symmetry  == Permutations(Puts)

=============================================================================
